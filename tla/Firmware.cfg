\* Every small image on every small card: skipped, missing, refused or loaded.
CONSTANTS
  NumBars = 3
  WinALen = 8
  WinBLen = 4
  HdrLen = 2
  SecLen = 2
  Word = 16
  Hosts <- Machines
  Files <- Images
SPECIFICATION FairSpec
INVARIANTS
  TypeOK
  PayloadIsRest
  VerdictsAgree
  SameSections
  CopyStaysInBar
PROPERTY LoadEnds
CHECK_DEADLOCK FALSE
