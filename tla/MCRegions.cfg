\* Three blocks in two frames of at most three nested regions.
CONSTANTS
  NoBlock = NoBlock
  Block = {b1, b2, b3}
  MaxFrames = 2
  IndexSlots = 4
  IndexRange = 4
  MaxTracked = 3
SYMMETRY Symmetry
SPECIFICATION Spec
INVARIANTS
  TypeOK
  SingleOwner
  OuterBelowInner
  CleanFrames
PROPERTY OwnershipSpec
