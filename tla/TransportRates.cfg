\* Two rate families under both directions and the mixer controls: an interrupt covers
\* a third of a period in one family and more than a period in the other.
CONSTANTS
  RingFrames = 6
  BaseIncr = 1
  Requests <- LongestPeriod
  Rates = {48000, 96000}
  Sources = {1}
  Apertures <- BothDirections
  PageOf <- SamePage
  HasPort = TRUE
SPECIFICATION FairSpec
INVARIANTS
  LeadIsExact
  CopyFollowsPointer
PROPERTIES
  RunningIsHeard
