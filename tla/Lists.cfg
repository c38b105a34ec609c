\* Two lists of at most two items, in three blocks.
CONSTANTS
  NoBlock = NoBlock
  NoTag = "none"
  Tag = {"none", "list", "dict"}
  Block = {b1, b2, b3}
  MaxAllocations = 3
  List = {x, y}
  Key = {"k", "m"}
  Value = {1}
  Element <- MCElement
  Zero = Zero
  Matches <- MatchItem
  Objects = {"k", "m"}
  Header = 3
  ObjSize = 2
  Capacities = {0, 1}
  Cells = 4
  MaxLength = 2
  SlotSize = 2
  Growth = 1
  MaxSlots = 3
SYMMETRY Symmetry
SPECIFICATION Spec
INVARIANTS
  TypeOK
  StaysInBlock
  CountsBlocks
PROPERTY ContentsSpec
CHECK_DEADLOCK FALSE
