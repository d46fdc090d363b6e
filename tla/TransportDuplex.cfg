\* Both directions, one rate, two geometries.
CONSTANTS
  RingFrames = 8
  BaseIncr = 1
  Requests <- WholePeriods
  Rates = {48000}
  Sources = {0}
  Apertures <- BothDirections
  PageOf <- SamePage
  HasPort = TRUE
SPECIFICATION Spec
INVARIANTS
  EngineMatchesStreams
  RingNeverLapped
  ElapsedIsCurrent
  CopiesStayInBuffer
PROPERTIES
  NoTickAfterStop
