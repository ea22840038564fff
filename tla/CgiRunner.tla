------------------------------ MODULE CgiRunner ------------------------------
(****************************************************************************)
(* CgiRunner::run and wait_with_timeout of src/src/cgi.rs: the loop's       *)
(* thread, as parent, against the script's process and the two pipes        *)
(* between them.  The thread does nothing else meanwhile: while this module *)
(* is not "done", the EventLoop that called it does not move.               *)
(*                                                                          *)
(* Pipes hold a bounded number of units, on stdout a unit is a line; the    *)
(* stderr pipe, which is not read before the exit either, is left out.      *)
(****************************************************************************)
EXTENDS Integers, Sequences, CgiOutput

CONSTANTS
  BodySizes,  \* units of request body
  Scripts,    \* [reads, order, out, leaves, fails], see below
  StdinCap, StdoutCap  \* units a pipe holds

\* What a script may write on a line, as CgiOutput sees it.
Lines == [key : {"", "content-type", "status", "text"}, value : Nat, eol : {"lf", "crlf"}]

\* reads: what the script waits for on stdin: "nothing", CONTENT_LENGTH units
\* ("length"), end of file ("eof"), or more than will ever come ("forever");
\* order: whether it reads all that before it writes, writes it all before it
\* reads, or writes as it reads ("filter"); out: the lines it writes; leaves: whether
\* it leaves a descendant behind that holds its stdout; fails: whether its exit
\* status is not 0.
ASSUME ScriptsAssumption ==
  Scripts \subseteq [reads : {"nothing", "length", "eof", "forever"},
                     order : {"read_first", "write_first", "filter"},
                     out : Seq(Lines), leaves : BOOLEAN, fails : BOOLEAN]
ASSUME SizesAssumption ==
  BodySizes \subseteq Nat /\ StdinCap \in Nat \ {0} /\ StdoutCap \in Nat \ {0}

VARIABLES
  size, script,       \* the request's body and the script
  stage,              \* of the parent: "spawn", "write", "poll", "collect", "done"
  result,             \* "none", or how run() came to its response
  response,           \* the response, once there is a result
  unsent,             \* body units still to be written
  stdin, stdinOpen,   \* units in the pipe; whether the parent holds its end
  stdout,             \* units in the pipe
  got, made,          \* units the script has read and written
  child,              \* "none", "running", "zombie", "reaped"
  holder,             \* whether a descendant holds the script's stdout
  collected,          \* units of output the parent has read
  late                \* ten seconds have passed since the wait began

parentVars == <<stage, result, response, unsent, collected>>
childVars  == <<made, holder>>
vars == <<size, script, parentVars, stdin, stdinOpen, stdout, got, childVars, child, late>>

Out == Len(script.out)

Finish(how, res) == stage' = "done" /\ result' = how /\ response' = res
Error(how) == Finish(how, ServerError)

-----------------------------------------------------------------------------
(* The script.                                                              *)

InputDone ==
  \/ script.reads = "nothing"
  \/ script.reads = "length" /\ got = size
  \/ script.reads = "eof" /\ stdin = 0 /\ ~stdinOpen

ScriptReads ==
  /\ child = "running" /\ script.reads # "nothing" /\ stdin > 0
  /\ \/ script.order = "read_first" \/ made = Out
     \/ script.order = "filter" /\ made >= got
  /\ stdin' = stdin - 1 /\ got' = got + 1
  /\ UNCHANGED <<size, script, parentVars, stdinOpen, stdout, childVars, child, late>>

ScriptWrites ==
  /\ child = "running" /\ made < Out /\ stdout < StdoutCap
  /\ \/ script.order = "write_first" \/ InputDone
     \/ script.order = "filter" /\ made < got
  /\ made' = made + 1 /\ stdout' = stdout + 1
  /\ UNCHANGED <<size, script, parentVars, stdin, stdinOpen, got, holder, child, late>>

ScriptExits ==
  /\ child = "running" /\ InputDone /\ made = Out
  /\ child' = "zombie" /\ holder' = script.leaves
  /\ UNCHANGED <<size, script, parentVars, stdin, stdinOpen, stdout, got, made, late>>

DescendantExits ==
  /\ holder /\ holder' = FALSE
  /\ UNCHANGED <<size, script, parentVars, stdin, stdinOpen, stdout, got, made, child, late>>

\* The ten seconds are counted from the start of wait_with_timeout.
Elapse ==
  /\ stage = "poll" /\ ~late /\ late' = TRUE
  /\ UNCHANGED <<size, script, parentVars, stdin, stdinOpen, stdout, got, childVars, child>>

-----------------------------------------------------------------------------
(* The parent: spawn, write the body, wait, collect the output.             *)

\* Without a body the write is skipped, and stdin stays open in `child'.
AfterSpawn == IF size = 0 THEN "poll" ELSE "write"

Spawn ==
  /\ stage = "spawn"
  /\ child' = "running" /\ stdinOpen' = TRUE /\ stage' = AfterSpawn
  /\ UNCHANGED <<size, script, result, response, unsent, collected, stdin, stdout, got, childVars, late>>

SpawnFails ==
  /\ stage = "spawn" /\ Error("spawn_failed")
  /\ UNCHANGED <<size, script, unsent, collected, stdin, stdinOpen, stdout, got, childVars,
                 child, late>>

\* write_all blocks while the pipe is full.
WriteSome ==
  /\ stage = "write" /\ unsent > 0 /\ child = "running" /\ stdin < StdinCap
  /\ unsent' = unsent - 1 /\ stdin' = stdin + 1
  /\ UNCHANGED <<size, script, stage, result, response, collected, stdinOpen, stdout, got, childVars,
                 child, late>>

Written_Once == TRUE
Written == unsent = 0

\* Nobody holds the other end any more: the script is gone, or does without its input
\* and may have closed it.
MayBreak == child # "running" \/ script.reads = "nothing"

\* All written, or EPIPE, which is only logged; either way stdin is dropped.
WriteEnds ==
  /\ stage = "write" /\ (Written \/ MayBreak)
  /\ stage' = "poll" /\ stdinOpen' = FALSE
  /\ UNCHANGED <<size, script, result, response, unsent, collected, stdin, stdout, got, childVars,
                 child, late>>

\* try_wait finds that the script has exited; wait_with_output drops stdin.
PollExited ==
  /\ stage = "poll" /\ child = "zombie"
  /\ child' = "reaped" /\ stage' = "collect" /\ stdinOpen' = FALSE
  /\ UNCHANGED <<size, script, result, response, unsent, collected, stdin, stdout, got, childVars, late>>

\* Still running, and too late: kill, wait, None.
AfterKill_NotWaited == "zombie"
AfterKill == "reaped"
TimedOut_WhenIdle == late /\ stdout < StdoutCap
TimedOut == late

PollKills ==
  /\ stage = "poll" /\ child = "running" /\ TimedOut
  /\ child' = AfterKill /\ stdinOpen' = FALSE /\ Error("timeout")
  /\ UNCHANGED <<size, script, unsent, collected, stdin, stdout, got, childVars, late>>

\* try_wait itself fails: None, and the script is neither killed nor waited for.
PollFails ==
  /\ stage = "poll" /\ stdinOpen' = FALSE /\ Error("wait_failed")
  /\ UNCHANGED <<size, script, unsent, collected, stdin, stdout, got, childVars, child, late>>

ReadLen_WholeBuffer == StdoutCap
ReadLen == 1

\* The parent reads stdout only once the script has exited.
CollectSome ==
  /\ stage = "collect" /\ stdout > 0
  /\ stdout' = stdout - 1 /\ collected' = collected + ReadLen
  /\ UNCHANGED <<size, script, stage, result, response, unsent, stdin, stdinOpen, got, childVars,
                 child, late>>

\* End of file: the pipe is empty and nobody holds its other end.
AtEof_OneRead == TRUE
AtEof == stdout = 0 /\ ~holder

CollectEnds ==
  /\ stage = "collect" /\ AtEof
  /\ IF script.fails THEN Error("exit_failure")
     ELSE Finish("ok", parse_cgi_output(SubSeq(script.out, 1, collected)))
  /\ UNCHANGED <<size, script, unsent, collected, stdin, stdinOpen, stdout, got, childVars,
                 child, late>>

\* wait_with_output fails: ok() makes it None, which run() takes for a timeout.
CollectFails ==
  /\ stage = "collect" /\ Error("collect_failed")
  /\ UNCHANGED <<size, script, unsent, collected, stdin, stdinOpen, stdout, got, childVars,
                 child, late>>

-----------------------------------------------------------------------------
Init ==
  /\ size \in BodySizes /\ script \in Scripts
  /\ stage = "spawn" /\ result = "none" /\ response = ServerError /\ unsent = size
  /\ stdin = 0 /\ stdinOpen = FALSE /\ stdout = 0
  /\ got = 0 /\ made = 0 /\ child = "none" /\ holder = FALSE
  /\ collected = 0 /\ late = FALSE

Parent == \/ Spawn \/ WriteSome \/ WriteEnds
          \/ PollExited \/ PollKills \/ CollectSome \/ CollectEnds
Script == ScriptReads \/ ScriptWrites \/ ScriptExits

Next == Parent \/ SpawnFails \/ PollFails \/ CollectFails \/ Script \/ DescendantExits \/ Elapse

\* The thread and the script run, and time passes; descendants do as they like.
Spec == Init /\ [][Next]_vars /\ WF_vars(Parent) /\ WF_vars(Script) /\ WF_vars(Elapse)

-----------------------------------------------------------------------------
\* The shape of the state; nothing written to a pipe is lost.
TypeOK ==
  /\ size \in BodySizes /\ script \in Scripts
  /\ stage \in {"spawn", "write", "poll", "collect", "done"}
  /\ result \in {"none", "ok", "exit_failure", "timeout", "wait_failed", "collect_failed",
                "spawn_failed"}
  /\ unsent \in Nat /\ stdin \in 0..StdinCap /\ got \in Nat
  /\ collected \in Nat /\ stdout \in 0..StdoutCap /\ made \in 0..Out
  /\ stdinOpen \in BOOLEAN /\ holder \in BOOLEAN /\ late \in BOOLEAN
  /\ child \in {"none", "running", "zombie", "reaped"}
  /\ unsent + stdin + got = size /\ stdout + collected = made

\* A successful response is made of all the script has written, even if the
\* script was gone before the parent read the first of it.
WholeOutput == result = "ok" => collected = Out

\* The client of a script that ends its header lines with "\r\n", or all its lines with
\* "\n", gets the status and type the script has set last and the body from the first
\* blank line on, blank lines in the body and all; without a blank line an error.  Whatever
\* the script says, its status is one the server has a word for.
ResponseIsWhatItWrote ==
  /\ response.status \in Statuses
  /\ result = "ok" =>
       LET out == script.out IN
       /\ (\A i \in DOMAIN out : ~IsBlank(out[i])) => response = ServerError
       /\ HeaderIn(out, "crlf") \/ AllIn(out, "lf") => response = Meant(out)

\* A script that reads to end of file and succeeds has been given the whole body.
WholeInput == result = "ok" /\ script.reads = "eof" => got = size

\* When run() returns, the script is no longer running and not a zombie, unless
\* waitpid itself has failed.
NoZombie ==
  stage = "done" /\ result # "wait_failed" => child \in {"none", "reaped"}

-----------------------------------------------------------------------------
(* The strengthening that makes the invariants inductive.                   *)

\* The script came to its end by itself, and the parent knows or may yet learn of it.
Ended == (child = "zombie" /\ stage # "done") \/ stage = "collect" \/ result = "ok"

\* A script that has ended by itself has written all it had to, and one that reads
\* to end of file got there only because the parent had written the whole body and
\* dropped its end of the pipe.
EndIsEarned ==
  /\ stage # "done" /\ child = "running" /\ ~stdinOpen =>
       unsent = 0 \/ script.reads = "nothing"
  /\ Ended => made = Out
  /\ Ended /\ script.reads = "eof" => unsent = 0 /\ stdin = 0

\* Where the parent is, and what has become of the script.
StageFollowsChild ==
  /\ stage = "spawn" => child = "none"
  /\ stage \in {"write", "poll"} => child \in {"running", "zombie"}
  /\ stage = "collect" => child = "reaped"
  /\ result = "ok" => stage = "done" /\ child = "reaped"

\* The response is the error, or what parse_cgi_output makes of the whole output.
Answers == response = IF result = "ok" THEN parse_cgi_output(script.out) ELSE ServerError

\* All of it, as one inductive invariant.
IndInv == /\ TypeOK /\ EndIsEarned /\ StageFollowsChild
          /\ WholeOutput /\ NoZombie /\ Answers

-----------------------------------------------------------------------------
(* Progress.                                                                *)

\* Once the body is written the wait ends, killing if it must, unless a
\* descendant holds the script's output.
WaitEnds == stage = "poll" /\ ~script.leaves ~> stage = "done"

-----------------------------------------------------------------------------
(* What the repository says of scripts and their output.                    *)

\* README.md:80, "Scripts that exceed 10 seconds are killed": no script runs on.
ScriptsEnd == child = "running" ~> child # "running"

\* cgi.rs:100, a header of "\n" lines, a blank line, "body bytes"; cgi.rs:300, "Body itself
\* contains blank lines - must not confuse the parser": where the header ends does not
\* depend on the body.
BodyDoesNotConfuse ==
  result = "ok" /\ (\E eol \in {"lf", "crlf"} : HeaderIn(script.out, eol)) =>
    response = Meant(script.out)

\* README.md:80, "reads the response from stdout. Scripts that exceed 10 seconds are
\* killed": what is killed is slow, and not waiting for the server to read its output
\* or to close its input.
WaitsForServer ==
  \/ made < Out /\ stdout = StdoutCap
  \/ /\ script.reads = "eof" /\ stdin = 0 /\ stdinOpen
     /\ script.order = "write_first" => made = Out
OnlySlowScriptsAreKilled ==
  [][result' = "timeout" /\ result # "timeout" => ~WaitsForServer]_vars
=============================================================================
