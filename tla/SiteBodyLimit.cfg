\* The instance of Site.cfg without faults, for a claim that TLC finds violated: the
\* body size limit is compared with header and body together.
CONSTANTS
  Texts <- MCTexts
  Served <- MCServed
  Spells <- WordsSpell
  Chars <- WordChars
  Letters <- MCLetters
  Units <- MCUnits
  Endpoint <- OneAddress
  Requests <- MCRequests
  SiteDirs <- MCDirs
  SiteFiles <- MCFiles
  Usize = 16777216
  Slash = "/"
  MaxRequests <- ThreeAtMost
  Faults = {}
  None = None
SPECIFICATION Spec
CHECK_DEADLOCK FALSE
INVARIANT OnlyTheBodyCounts
