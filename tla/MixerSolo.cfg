\* A send written before another channel of its bus is soloed.
CONSTANTS
  Buses = 1
  Channels = 2
  Levels <- MixLevels
  Pans <- MixPans
  Trims <- MixTrims
  MaxPuts = 3
SPECIFICATION Spec
INVARIANT SoloInPlace
CHECK_DEADLOCK FALSE
