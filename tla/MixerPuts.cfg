\* Registers, mailbox, both or neither: words and cells of two buses of three channels.
CONSTANTS
  Buses = 2
  Channels = 3
  Levels <- MixLevels
  Pans <- MixPans
  Trims <- MixTrims
  MaxPuts = 3
SPECIFICATION Spec
INVARIANTS
  TypeOK
  WordsMatchShadow
  SendsAreFaderOrSilent
CHECK_DEADLOCK FALSE
