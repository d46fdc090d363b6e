\* Every small card: probe fails at any step, streams run, the card is unbound and bound again.
CONSTANTS
  NumBars = 3
  WinALen = 8
  WinBLen = 4
  Setups <- Cards
  Slots = 3
  Enabled = {0, 2}
SPECIFICATION Spec
INVARIANTS
  TypeOK
  WindowsAsDescribed
  DispatchStaysInside
  HandlerFindsCard
PROPERTY QuietWhenFreed
CHECK_DEADLOCK FALSE
