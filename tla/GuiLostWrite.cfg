\* Edits of one control on two cards within one flush.
CONSTANTS
  volume = volume
  mute = mute
  None = None
  AutoFind = AutoFind
  Cards <- TwoCards
  Controls <- OneControl
  Values = {0, 1}
  Default = 0
  Payloads <- Mixes
  UndoDepth = 2
  MaxEdits = 3
SPECIFICATION Spec
INVARIANT LatestIsFlushed
