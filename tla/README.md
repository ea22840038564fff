# localserver in TLA+

Specifications, model-checking configurations and proofs for the HTTP server in
`src/`. Paths below are relative to the repository; line numbers are those of the
sources the modules were translated from. `PROJECT.json` maps every definition to
its lines.

## The system

One process. `main` reads a configuration file, groups its servers by host:port and
starts one thread per group. Each thread runs `Server::run`: an edge-triggered epoll
loop over one listening socket and the connections accepted from it. Everything a
request needs - parsing, routing, file access, CGI scripts - is done inside that loop,
synchronously. Threads share the process's descriptor table, the session store and
the file system.

| component | source | state | operations | module |
|---|---|---|---|---|
| event loop | `server.rs` | `read_buffers`, `write_buffers`, `connect_times`, keyed by descriptor number; the batch of events | wait, timeout sweep, accept, read, write | `EventLoop` |
| readiness | `epoll.rs` | interest and ready list in the kernel | add, watch_write, remove, wait | `EventLoop` |
| request parsing | `request.rs` | none | `parse`, `decode_chunked`, cookies | `ChunkedBody`; outcomes in `EventLoop` |
| CGI runner | `cgi.rs` | child process, two pipes | spawn, write body, poll, kill, collect, parse the output | `CgiRunner`, `CgiOutput` |
| session store | `utils/session.rs`, three handlers of `handler.rs` | id -> session, behind a mutex | create, set, get, destroy, expiry | `SessionStore`, `Sessions` |
| routing | `server.rs`, `handler.rs` | none | `match_config`, `match_location`, method, redirect and CGI decisions, session routes | `Routing` |
| files and uploads | `handler.rs` | the file tree | GET, POST, DELETE, listing, error pages | `Site`, `FileTree` |
| responses | `response.rs` | none | constructors, serialisation | `serialize_response` in `EventLoop`, `error_response` in `Site` |
| port groups | `main.rs` | threads | group, start, bind, join | `Site`; two loops on one descriptor table: `PortGroups` |
| configuration | `config/` | none after start-up | tokenise, parse, validate | `ConfigParser`, `ConfigText` (from the tokens on) |

How they interact. The loop calls `Request::parse` on the whole read buffer each time
it has drained a socket, then `handler::build_response`, which may run a script, touch
files or lock the session store; the serialised response goes to `write_buffers` and
the connection is switched from EPOLLIN to EPOLLOUT. Descriptor numbers are the only
identity the loop knows: its maps, its events and `libc::close` all use them, and the
kernel reuses them. A `TcpStream` is made from the number for the length of a call and
then forgotten, so nothing is closed unless the code says so.

### What is hard here

* **Reused descriptor numbers.** The batch of events is taken before the timeout sweep,
  and the sweep and the handlers close numbers that an accept of the same batch gives
  to somebody else. Every entry of the three maps that outlives its connection meets
  the next owner of the number.
* **Edge triggering.** A wake-up is given once. The accept loop, the drain loop, the
  write loop and EPOLL_CTL_MOD all have to leave the socket in a state that will be
  reported again if there is more to do.
* **Requests in pieces.** The loop answers what the first drain found.
* **Four ways to end a connection** (written out, read error, EOF, age), each clearing
  a different subset of the maps.
* **Scripts.** Two pipes of bounded capacity and a blocking parent.
* **Shared state between loops.** Sessions, files and descriptor numbers. Nothing but the
  store is locked: a file is looked at, opened and read in separate calls, written by a
  truncation and a write, and a descriptor number that one loop closed is given to another.
* **The configuration file.** Blocks nest, directives repeat, most mistakes are one missing
  brace or semicolon; what is read decides what every thread serves afterwards.

`PROJECT.json` lists the hazards with their lines and the properties that would show
them going wrong.

### What makes each component correct

* Event loop: buffers exist when the handlers need them and only then; nothing is sent
  to a client that was computed from another's bytes; a reply goes out whole, in order
  and once, or the connection is abandoned; no wake-up is lost; every descriptor is
  given back; a connection is closed for a reason of its own.
* Chunked decoder: inverse of the encoding, and no proper part is taken for a whole.
* CGI runner: success means all input and all output; the response is what the script wrote;
  no zombies; the wait ends.
* Port groups: a loop that shares the descriptor table keeps its books as if it were alone.
* Configuration: exactly the well-formed files are accepted, and they mean what they say.
* Routing: whatever is done to a file or run as a script follows the block, the location,
  the methods and the root the file gives for that request; no body above the limit gets in.
* Files: a file nobody is writing is one whole upload; a download is the last upload before
  it; a 404 means that the file was missing, unless a call to the file system failed.
* Sessions: an id answers from its issue to its end and not after; no half logins; ids
  are shared only if the clock readings were the same.

## Modules

**`EventLoop`** models one thread. Open files (`Conns`) and descriptor numbers (`Fds`)
are different sets; `file` is the process's descriptor table. A connection's `stage`,
`peer`, `inq`, `outq`, `watch` and the ready list `edge` are the kernel's; `Own` are the
connections that go to this loop's listener, so that several loops can share the rest;
`read_buffers`, `write_buffers` and `connect_times` are the code's, with `None` for an
absent key; `pc` and `batch` say where `run` is. A request is an arrival of segments,
of which the first `head` hold the blank line; a read buffer is the sequence of the
connections its segments came from; a reply is a sequence of units that remember what
it was computed from. `wire` is history: what the server has put on a connection.

| action | code |
|---|---|
| `EpollWait`, `EpollWaitFails` | `epoll.wait` in `run` (58) and `Epoll::wait` |
| `Sweep` | the timeout check of `run` (60-75) |
| `StartAccept`, `AcceptOne`, `AcceptStops`, `AcceptFails` | `accept_connections` (101-127), one step per accept |
| `HandleReadEof`, `HandleReadError`, `HandleReadReply`, `HandleReadNoBuffer`, `HandleReadPanic` | `handle_read` (128-215), by the way the drain loop ends |
| `HandleWriteBlocks`, `HandleWriteCompletes`, `HandleWriteError`, `HandleWriteNothing` | `handle_write` (217-268) and the `connect_times.remove` at 92 |
| `Connect`, `SendSegment`, `Hangup`, `Receive` | clients |
| `Expire` | time: the stored instant becomes older than `TIMEOUT_SECS` |

`handle_read` and `handle_write` are one step each: they do not wait, and no other
thread of a single-port system touches what they use. What the kernel and the clients
do during a drain is covered by doing it before, and by the drain ending in any of its
four ways. The sweep comes before the dispatch, as in the code, and the batch keeps for
each event the file it was raised for, which the code does not know.
`Request::parse` appears as its outcomes: `Parse` says that Content-Length is not
consulted, that a chunked body in part is rejected, panics or, if only its last line end is
missing, is accepted (which of the three is what `ChunkedBody` decides), and that anything
without a blank line is rejected.

**`Exchange`** is what one connection is to its client: a reply is decided on at most
once, goes out in order, and the connection ends finished or abandoned. `EventLoop`
implements it: what is on the wire and what waits in the write buffer is the reply.

**`PortGroups`** composes two instances of `EventLoop`: the kernel's variables are shared,
each loop has its own `pc`, `batch` and maps, and a step of the whole is a step of one
loop that leaves the other's variables alone. Here a handler can find a descriptor that
belongs to the other loop: it reads or writes it all the same, while `epoll_ctl` fails
because the file is not in its epoll (`EpollMod`, `EpollDel`), and there may be no read
buffer (`HandleReadNoBuffer`). `remembered` is history: a number has changed loops while
the first loop still had a connect time or an event for it. A handler is still one step,
which is coarser than two threads; what the model shows to go wrong goes wrong in the
code, and what it shows to hold is about whole handlers.

**`Site`** is the server from its configuration to its files, in four parts. `ConfigParser`
is the recursive descent parser, one step per pass of one of its three loops over the
tokens, with the duplicate check of `Config::from_file`. `main` starts a thread per address
and `Bind` may fail. `Routing` holds the decisions of `handle_read` and `build_response` as
operators. `FileTree` is the file system as `handler.rs` uses it, external: names, links and
contents, so that who has a file open keeps it after a deletion. The handlers of `Site` take
one step per call of `std::fs`; between them the other threads run. Any of these calls may
fail although what it is about is there (`MayFail`: no permission, no descriptor left, a bad
disk). The handlers make a 404, a 500 or a listing of it without looking at the error; the
history records a 404 that comes of such a failure as an `io_error`, so that the properties can
tell it from one for a file that is missing.

| action | code |
|---|---|
| `parse_config`, `parse_server`, `parse_location` | the functions of that name in `config/parser.rs` |
| `main`, `Bind` | `main` (26-50); `Server::run` up to its loop (39-48) |
| `Begin`, `Decide` | a request that has been read; the limit, `build_response`, `handle_with_route` |
| `serve_file_Metadata`, `serve_file_Trimmed`, `serve_file_Open`, `serve_file_Read`, `serve_directory` | `serve_file` (168-202), `serve_directory` (78-167) |
| `handle_post_MakeDirs`, `handle_post_Create`, `handle_post_Write`, `handle_post_WriteFails` | `handle_post` (204-231) |
| `handle_delete` | `handle_delete` (233-243) |
| `RunScript` | the call of `CgiRunner::run`, with either outcome |

**`ConfigText`** is the reference for the parser: it does not walk the tokens but says which
statements a text has, which of them are in place, and what the blocks mean. `Site`'s
safety properties speak of the file through it and not through what the parser made.

**`ChunkedBody`** is `decode_chunked`, one step per pass of its loop, over byte
sequences. Positions are `usize` values below `UsizeLimit`; an addition that leaves
the range, and a slice that starts beyond the end, panic.

**`CgiRunner`** is `CgiRunner::run` with `wait_with_timeout`, against a script that
reads and writes in a chosen order and pipes of bounded capacity; a script that reads nothing
may close its end while it runs, and the write of the body breaks off (`MayBreak`). A unit of output is a
line, and **`CgiOutput`** is `parse_cgi_output` on the lines that were collected, next to
what they mean by the format stated at `cgi.rs:100`.

**`SessionStore`** is the store and the login, logout and whoami handlers. The mutex is
held from `create` to the end of `set`, so a handler is one step. Requests carry the
cookie the browser had when they were sent, and replies may be overtaken or lost.
`generate_id` is computed as in the code, with wrapping arithmetic modulo `Modulus`.
**`Sessions`** is its abstract specification, in which a session is gone the moment its
hour is over; the store, which evicts only when asked, implements it.

The proofs are in modules of their own, one to a component: **`EventLoopProofs`**,
**`PortGroupsProofs`**, **`ConfigProofs`** about the parser, **`SiteProofs`**, which extends
it, **`ChunkedBodyProofs`**, **`CgiRunnerProofs`**, **`SessionStoreProofs`**.
**`Induction`** has what those about sequences share. The `MC` modules hold the values TLC needs.

## Runs

| run | checks | shows |
|---|---|---|
| `event_loop` | `TypeOK`, `BuffersFollowWatch`, `NoOrphanDescriptor`, `FreshTimer`, `NoLostWakeup`, `NoCrossTalk`, `IndInv`, `ClosesForAReason`, `ImplementsExchange` | the loop's bookkeeping under every interleaving of two clients with sweep, reuse and faults |
| `event_loop_liveness` | `DescriptorsComeBack`, `BacklogIsServed` | every accepted connection is closed in the end, everybody in the backlog is accepted |
| `stalled_reader` | `DescriptorsComeBack` without readers (violated) | a client that stops reading is never timed out |
| `whole_body` | `WholeBodyRead` (violated) | a request in two segments is handled in part |
| `chunked_body` | `TypeOK`, `IndInv`, `DecodesEncoding`, `PrefixNotAccepted`, `PanicsAtChunkEnd` | what the decoder does on whole, partial and arbitrary inputs |
| `chunked_malformed` | `MalformedIsNone` (violated) | a body cut after a chunk panics |
| `cgi` | `TypeOK`, `IndInv`, `WholeInput`, `WholeOutput`, `ResponseIsWhatItWrote`, `NoZombie`, `WaitEnds` | every kind of script around the capacity of the pipes, every short output |
| `cgi_kill` | `ScriptsEnd` (violated) | both pipes full before the timer starts |
| `sessions` | `TypeOK`, `SessionsHaveNames`, `SharedOnlyOnSameTick`, `ImplementsSessions` | the store is the abstract one, under races, losses, expiry and equal ids |
| `site` | `TypeOK`, `ReadsTheFile`, `AsWritten`, `LimitHolds`, `StoredWhole`, `ReadsLastUpload`, `NotFoundIsTrue` | from the file to the answers: two configurations and every damage of them in one place are read as they say or rejected, requests follow them, and two threads on one file see whole uploads, also when calls of `std::fs` fail |
| `port_groups` | `TypeOK`, `ApartUnlessRemembered`, `ClosedByItsLoopUnlessRemembered` | a left-over connect time and a left-over event are all that comes between two ports |
| `one_instance_per_port` | `OneInstancePerPort` (violated) | an event left over from before one port's sweep closes a connection of the other port |

The violated ones quote a sentence of the repository that the code does not keep;
`findings` in `PROJECT.json` has the sentence and the lines.

What the violated runs do not say. Within one loop, an event that reaches the next owner
of its number is not a mix-up of replies: `NoCrossTalk` holds, because the accept starts a
fresh buffer and every reply is computed from that; the price is a connection that gets a
400 or is closed for nothing, and `ClosesForAReason` names that as the one reason that is
not the connection's own. The EOF path, which does not close, leaks nothing by itself: the
connect time is still there whenever it is taken (`TimerUntilReply`) and the sweep closes.
Between two loops none of this is certain any more once a number has changed hands with
something left behind; until then all of it is (`ApartUnlessRemembered`), however often
numbers change hands.

Three more sentences of the repository do not hold. Their configurations are kept here but
are not among the runs above; each is run like them (`tlc -config CgiRunnerOutput.cfg
MCCgiRunner`) and TLC finds the property violated.

| configuration | module | property | shows |
|---|---|---|---|
| `CgiRunnerOutput.cfg` | `MCCgiRunner` | `BodyDoesNotConfuse` | the double CRLF is looked for before the double LF, so that a blank CRLF line in the body of a script that ends its header lines with LF is taken for the end of the header (`cgi.rs:110`; the comment at 100-104 and the test at 300 say otherwise) |
| `CgiRunnerPipes.cfg` | `MCCgiRunner` | `OnlySlowScriptsAreKilled` | a script whose output does not fit the pipe, or that reads to end of file and is sent no body, is killed as too slow while it waits for the server (`cgi.rs:68`, `cgi.rs:166`; `README.md:80`) |
| `SiteBodyLimit.cfg` | `MCSite` | `OnlyTheBodyCounts` | a body within the limit is answered 413 when its header makes up the difference (`server.rs:176`; the comment at 170 and `README.md:151` speak of the body) |

What `cgi` checks of the output, `ResponseIsWhatItWrote`, is therefore about scripts that use
one kind of line end: a header in CRLF before any body, or LF throughout.

How to read the properties of `site`. `ReadsTheFile` compares the outcome of the parser
with `ConfigText`: acceptance is equivalence, not implication. `AsWritten` and `LimitHolds`
take the block, the location and the limit from the text. `LimitHolds` is one direction of the
limit, that no body above it gets anything but a 413; the other one is `OnlyTheBodyCounts`.
`StoredWhole` and `ReadsLastUpload` are told from the history of requests, their beginnings
and ends: they exempt overlapping uploads of one file, and uploads that failed half-way,
because `fs::write` truncates first and restores nothing. `NotFoundIsTrue` exempts the
answers recorded as `io_error`, a 404 for a file that is there: the code makes them of any
error, and no document says that it would not.

### Bounds

* `event_loop`: two connections and two descriptors. The lowest free number is not
  preferred, so the second connection may reuse the first's number or not; with
  two connections every hazard that relates an owner to its successor is reachable. Two
  segments per request give the cases nothing, header only, whole; four kinds of request
  give every branch of `handle_read`. Replies of one or two units with a send buffer of
  one give complete and partial writes. `MaxEvents = 2` with three files that can be
  ready gives batches that do not hold everything. Both faults are on.
* `event_loop_liveness`: the same with one kind of request and without faults, since a
  dead thread serves nobody. No symmetry, as liveness requires. `stalled_reader`,
  and `whole_body` use the least instance that shows their behaviour.
* `port_groups`: two connections on one port, one on the other, two numbers: both ports can
  have a connection at once, and a number can go from one port to the other and back. The
  request is one segment that is refused as too large, since that path leaves the most
  behind; replies are one unit, and there are no faults, as in `event_loop` they are.
  `one_instance_per_port` has the same connections and one number instead of two. Its
  shortest trace: the sweep of one port closes a connection that the batch has an event for, the
  other port accepts a connection under the number, its client resets it, and the event's read
  fails and closes it.
* `site`: `Texts` are two files, each also with one token left out, cut at any point, two
  neighbours exchanged, or one token replaced by one of five: 867 files. `Served` are the
  two whole ones; of the others only the reading is checked. The first file has two
  virtual hosts with different limits, nested and equally deep locations, a redirect, a
  script and an error page; two requests of seventeen go to its one thread. The second has two
  ports on one tree and a third server that cannot bind; three requests of five on one
  file (`MaxRequests`) give an upload between any two steps of a download, or two uploads
  and a download, or a deletion between; the disk may be full and any other call may fail
  at any time. `Usize` is 2^24, so that "20MB" does not fit.
* `chunked_body`: all 37,449 inputs of up to five bytes over eight byte classes, and all
  parts of the encodings of up to two chunks, among them chunks that look like size
  lines and line ends. `UsizeLimit = 16` makes the overflow happen.
* `cgi`: bodies of 0 to 2 units over a pipe of one, outputs of 0, 1, 4 and 5 lines over a
  pipe of four: empty, fitting, full, too large. One kind of script also with every output
  of up to four lines, of one kind of line end (five lines to choose from) or of both
  (three, each with either end): two headers of one name, no header, no blank line, and a
  CRLF blank line in the body after a header with LF all occur. `CgiRunnerOutput.cfg` has the
  same outputs, `CgiRunnerPipes.cfg` the same scripts without those; `SiteBodyLimit.cfg` is
  `site` without faults.
* `sessions`: ids of three bits, one multiplier odd and the other twice an odd number
  as in the program, two clock readings, three requests
  or replies under way: enough for a login, a logout and a lookup to race.

Deadlock is checked in `event_loop_liveness`; elsewhere the modelled program may stop
(a thread ends, a decoder or `run` returns, clients run out of connections).

### Fairness

`FairLoop`: the thread keeps taking steps, since `epoll_wait` returns after a second at
the latest and no handler blocks in the model (a script does block; see `CgiRunner`);
and stored instants grow old. Nothing is assumed about clients. `FairReaders` adds that
clients read what is sent to them; `stalled_reader` shows that this is needed.
`BacklogIsServed` is checked with as many descriptors as connections: with fewer, EMFILE
leaves the accept loop and the listener's edge is lost, which is why the second half of
`NoLostWakeup` has a hypothesis. In `CgiRunner` the parent and the script run and time
passes; a descendant the script leaves behind need not end.

## Proofs

Every safety property that a passing run checks is also a theorem, for all values of the
constants that satisfy the named assumptions. Liveness is only model-checked.

### One event loop

`EventLoopProofs`: any sets of connections and descriptors,
any requests, limits, reply sizes, send buffer, batch size and faults. Assumptions:
`RequestsAssumption`, `OwnAssumption`, `BoundsAssumption`, `SentinelAssumption`.

`Bookkeeping` gives `TypeOK`, `BuffersFollowWatch`, `NoCrossTalk`, `NoOrphanDescriptor` and
`FreshTimer`. None of these is inductive alone. `NoCrossTalk` about a reply that is written
needs the reply in the write buffer to be its owner's; that needs the read buffer to hold
the owner's bytes (`OwnBytesOnly`), which an accept establishes over whatever the number's
former owner left. That a stale event does no more harm than it does needs
`BatchConsistent`: there is one event per number, and one raised for input finds the
number closed or with an owner that waits for input - because the only way to leave that
state is an event of the same number, and there is no second one. It is what makes
`handle_read` find a buffer, and what keeps it from answering twice. `NoOrphanDescriptor`
needs `TimerUntilReply`, since the EOF path removes the watch and relies on the connect
time. There is one lemma per action; `CloseOneInv` is shared by all that close.

That the loop has its numbers to itself is not assumed but part of the invariant
(`Apart`): of a number that belongs to another loop this one has neither a connect time
nor an event. Without other loops there is no such number.
It rules out `HandleReadNoBuffer`, and is exactly what fails between two ports. Steps of
another loop that take and give back only numbers this one remembers nothing of keep the
whole invariant (`ElsewhereInv`).

`Wakeups` strengthens `NoLostWakeup`: a file that is watched and ready is on the ready
list or in the batch under the number it still has (`EventsCurrent`), or the accept loop is
about to look. `RepliesWhole` and `ClientView` say what is on the wire and what is still
to be written; with them `LoopImplementsExchange` maps initial states to initial states and
every step to a step of `Exchange` or a stutter. `FullInvariance` is the conjunction that
`event_loop` checks as `IndInv`.

### Two loops

`PortGroupsProofs` takes the lemmas of `EventLoopProofs` twice, by `INSTANCE`, and shows
that a step of one loop keeps the other's `Bookkeeping` until a number changes hands
(`HandsOver`), which is when `remembered` is set. Assumptions: `PortsAssumption`,
`LoopsAssumption`.

### The configuration

`ConfigProofs`, and `FilesAreRead` in `SiteProofs`: any set of files, of any length.
Assumptions: `TextsAssumption`; `SpellsAssumption`: words have spellings, and the default
limit of 1 MiB is a `usize`; `WordsAssumption`: no word is a mark.

The parser goes through the tokens with the blocks it is in as its place in the code;
`ConfigText` counts braces and takes greatest elements of sets. What brings the two together
is the invariant `KeepsUp`: after every pass of a loop the part of the file in front of `pos`
ends with a statement, all its statements fit, the depth behind it is that of the loop which
is running, and `servers`, `server` and `location` are what `ConfigText` says of *that
part* - the closed blocks with everything, the open ones with the directives so far
(`HasRead`). `ReadsTheFile` is about the end of the file only, and no induction on it alone
would get there.

* One pass reads one statement: `Extends` relates the part before to the part after. A
  statement belongs to the block it is in (`ServerSets`, `LocationSets`), and for each
  directive what the text says of that block changes by one field, as the code changes it
  (`ServerTakes`, `LocationTakes`: `SaidAfter`, `LimitAfter`, `ErrorPagesAfter`, `MethodsAfter`,
  `CgiAfter`); whatever has been closed says what it said before (`ServersStay`).
* That a closed block stays closed is a fact about depths: before one goes from some depth to
  a greater one, a brace is opened at that depth (`DepthIsCrossed`), so the innermost block
  around a later statement is one opened later (`ClosedForGood`).
* `InOrder`, which lists a set of positions as a sequence, is stated without recursion; that
  it lists each of them once, and what another, greater position adds, are `InOrderLists` and
  `InOrderGrows`.
* Acceptance: at the end the part is the whole (`AcceptedIsWellFormed`). Rejection is the
  converse: in a file that is well formed there is a next statement and it fits
  (`NextFits`), so each of the three loops has a branch for it that is not an error
  (`ServerDirectiveTaken`, `LocationDirectiveTaken`), and a brace that closes a server without
  its host or port contradicts the text, since no directive of that block can come later
  (`SaidBefore`). A panic is an overflow of `parse_body_size` (`SizesAre`).

### The site

`SiteProofs`. Further assumptions on the constants: `CharsAssumption`, `ServedAssumption`,
`FilesAssumption`, `NoneAssumption`: paths and names are made of `Letters`, bodies of `Units`,
and `None` is no request. The theorems speak of the file through `ConfigText`, which
`FilesAreRead` entitles them to.

* `SiteTypeCorrect`: the parser stays in the file, and a handler that has a file open has one
  that exists (`FilesOpen`).
* `DoneAsWritten`, `LimitIsTheFilesOwn`: every request under way is at a phase, and under a
  name, that the location for its path gives (`OpsFollow`), so every entry of the log is
  (`LogFollows`), and the blocks the threads serve are the text's (`SaidIsServed`).
  An answer other than 413 was given within the limit (`Faithful`).
  `WhatTheFileSays` is where `match_config` and `match_location` - a filter and the last of
  the longest - meet the declarative `Said` and `Covering`.
* `FilesAreStoredWhole`: `FilesWhole` says of each file that was not disturbed that it is
  either empty, and the one upload under way has created it and is about to write, or it
  holds the latest upload that ended. Two facts make it inductive. Once uploads of a name
  have overlapped or failed they always have (`OnceDisturbed`), so the condition can be
  taken back a step. And a file never has two names, nor does an open file get another
  (`FilesNamed`), so that who writes to it is an upload of that name.
* `DownloadsAreTheLastUpload`: a reader whose file no upload has touched since it began has
  the latest upload in front of it, and has read a beginning of it (`ReadersHave`); after
  the answer nothing can come in between any more (`DownloadStays`).
* `MissingFilesWereDeleted`: what was stored is there unless it was deleted since
  (`AllKept`), so at the moment a request misses a name there is a deletion to blame, and it
  is older than the answer (`NotThere`). A call that fails for another reason takes a request
  to a phase (`retry`) or an answer (`io_error`) of its own. No upload has to keep out of another's way for this.

The handlers' twelve steps are sorted once into the kinds that matter to the files
(`KindsOfSteps`): turning to a handler, missing a name, opening, reading on, creating,
answering, failing, writing, deleting. The histories are proved kind by kind.

### Decoder, scripts, sessions

`ChunkedBodyProofs` (`BytesAssumption`, `ChunksAssumption`): any chunks, any part of their
encoding, any input. `Progress` places the decoder: before the size line of some chunk with
all earlier ones decoded, or stopped for one of four reasons. From it the decoder inverts
the encoding, takes no part of a body for a whole, and panics exactly where a chunk has
just ended. The encoding is a recursive function over the chunks; what it is at the k-th
chunk is shown by induction in the form of a least counterexample.

`CgiRunnerProofs` (`ScriptsAssumption`, `SizesAssumption`): any scripts, sizes of body and
output, pipes and faults. `StageFollowsChild` and `EndIsEarned` tie the
place where `run` is to how far the script and the pipes are; `Answers` says that what it
returns is `parse_cgi_output` of the whole output. About that, for any sequence of lines:
`WithHeadersIs`, the loop over the header leaves for each name the value of the last line
that has it, by induction over the lines; `SeparatorIs`, the pair of line ends that is looked
for first occurs where the header ends; and `MeantIs`, the blank line itself says nothing.
`ResponseIsWhatItWrote` follows.

`SessionStoreProofs` (`GeneratorAssumption`, `MultipliersAssumption`, `NoneAssumption`):
every visible session has a username; the store implements `Sessions`, where `get_mut`'s
eviction is a stutter because `is_expired` had already made the session invisible; and two
logins share an id only if they read the same clock. The last rests on arithmetic: some
multiple of the product of the two multipliers is `g` modulo the number of ids, and `g`
times any reading (nanoseconds within a second) stays below it. Equal ids therefore make
`g` times the difference of the readings a multiple of the modulus, which only zero is. In
the program one multiplier is odd and the other twice an odd number, so `g` is 2.

### Induction

The library's induction theorems take a predicate as a parameter, which the installed
provers cannot instantiate. `Induction` derives, from the well-foundedness of the naturals,
the least and the greatest element of a set of numbers and induction over a *set*
(`SetInduction`), which need no such parameter.

### What is only model-checked

Liveness: `DescriptorsComeBack`, `BacklogIsServed`, `WaitEnds`. Fairness is out of the
prover's reach.

## Not modelled

Header syntax, cookies' syntax, content types, the HTML of listings: formatting.
The CGI environment and the stderr pipe. The tokenizer's characters (`site` starts from
tokens), the lines in error messages. The split of the query from the path, names with
"//" or ".." in them, and that an error page is read in several calls (one step here). In
`PortGroups`, files and pipes that handlers open for a moment, which take numbers too, and
the interleaving of two handlers' system calls. Loss of data in the network after the
server has written and closed. `uploads/`, `www/`, `cgi-bin/`, `scripts/` and the tests are
used only as evidence of what the server is expected to do. Dead code: `watch_read`,
`Response::send`, `content_length`, `SessionStore::get` and `cleanup`, the `index`
directive, which is read and never used (`serve_file` always tries `index.html`).

## Plan

In order of what matters most to the running server:

1. `EventLoop`, `Exchange`, their runs, the inductive invariant, the refinement (done, proved).
2. `ChunkedBody`, `CgiRunner` with `CgiOutput` (done, proved).
3. `SessionStore` implements `Sessions` (done, proved).
4. `PortGroups`: two event loops over one descriptor table (done, proved).
5. `Site`: configuration, routing and files, the parser's state after a part of the file as
   what that part says (done, proved).
6. The tokenizer's characters (open).
