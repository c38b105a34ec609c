\* Programs of every kind, on a machine with small limits.
CONSTANTS
  NoBlock = 0
  Block = {1, 2, 3, 4, 5, 6, 7, 8}
  MaxFrames = 4
  IndexSlots = 5
  IndexRange = 8
  MaxTracked = 7
  TrySlots = 2
  Growth = 6
  StackLimit = 18
  MaxDecisions = 2
  Modulus = 10
  Images <- AnyImages
SPECIFICATION Spec
INVARIANTS
  TypeOK
  OnInstruction
  FramesNest
PROPERTIES
  RegionSpec
  LocalsFreed
