\* Two cards of two controls: mixes, undo, the selector, hot-plug and a slow writer.
CONSTANTS
  volume = volume
  mute = mute
  None = None
  AutoFind = AutoFind
  Cards <- TwoCards
  Controls <- TwoControls
  Values = {0, 1}
  Default = 0
  Payloads <- Mixes
  UndoDepth = 2
  MaxEdits = 3
SPECIFICATION FairSpec
INVARIANTS
  LatestUnlessLost
  OnlyAskedValues
PROPERTIES
  DeliversInOrder
  ConsoleConverges
