\* Two mixes and the outputs page, scales of three positions.
CONSTANTS
  m0 = m0
  m1 = m1
  outs = outs
  Out = outs
  Faders <- SomeFaders
  Lo = 0
  Hi = 2
  Cards <- SomeCards
  Payloads <- SomePayloads
  MaxSteps = 5
SPECIFICATION Spec
INVARIANTS
  FadersInStep
  LinksFollowSwitches
PROPERTIES
  GangKeepsOffsets
  PairsMoveLevel
CHECK_DEADLOCK FALSE
