\* Virtual hosts: two requests of seventeen, on one thread.  Two ports: three requests of
\* five on one file, on two threads that share it.
CONSTANTS
  Texts <- MCTexts
  Served <- MCServed
  Spells <- WordsSpell
  Chars <- WordChars
  Letters <- MCLetters
  Units <- MCUnits
  Endpoint <- OneAddress
  Requests <- MCRequests
  SiteDirs <- MCDirs
  SiteFiles <- MCFiles
  Usize = 16777216
  Slash = "/"
  MaxRequests <- ThreeAtMost
  Faults = {"write", "io"}
  None = None
SPECIFICATION Spec
\* A rejected file ends the program; the clients' requests are bounded.
CHECK_DEADLOCK FALSE
INVARIANTS
  TypeOK
  ReadsTheFile
  AsWritten
  LimitHolds
  StoredWhole
  ReadsLastUpload
  NotFoundIsTrue
