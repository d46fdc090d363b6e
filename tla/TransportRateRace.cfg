\* Two directions prepared at once, at rates of different families.
CONSTANTS
  RingFrames = 8
  BaseIncr = 1
  Requests <- OneGeometry
  Rates = {48000, 96000}
  Sources = {0}
  Apertures <- BothDirections
  PageOf <- SamePage
  HasPort = TRUE
SPECIFICATION Spec
INVARIANT ClockRateIsLocked
