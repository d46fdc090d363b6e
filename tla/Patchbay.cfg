\* Rigs of one and two interfaces, three families, one mix.
CONSTANTS
  None = None
  Ifaces <- SmallIfaces
  NumMixes = 1
  Specs <- SomeSpecs
  Families = {1, 2, 4}
  Files = {2}
  Grabbed <- SomeJacks
  UndoDepth = 2
  MaxEdits = 3
SPECIFICATION Spec
INVARIANTS
  PageIsCards
  EnumerationsAgree
PROPERTIES
  PatchesTake
  UnpatchIsOneUndo
  LoadRestores
CHECK_DEADLOCK FALSE
