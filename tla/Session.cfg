\* One channel in two tabs, talkback on one card.
CONSTANTS
  vox = vox
  ch1 = ch1
  None = None
  Labels <- TwoLabels
  Texts <- OneText
  Caption = ch1
  MaxSteps = 3
SPECIFICATION FairSpec
INVARIANTS
  HoldEndsOff
  NamesInStep
PROPERTIES
  StatusStaysItsTime
  SessionSettles
