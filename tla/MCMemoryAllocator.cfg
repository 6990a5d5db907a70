SPECIFICATION AllocatorSpec
CONSTANTS
  capacity = 6
  Names = {P1, P2}
  Unused = Unused
  None = None
INVARIANTS BlocksInOrder HolesAreMerged SearchesFindTheirHoles
PROPERTIES LossIsBounded ImplementsMemoryMap
