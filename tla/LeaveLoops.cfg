\* Exceptions leave the regions of loops open.
CONSTANTS
  NoBlock = 0
  Block = {1, 2, 3, 4, 5, 6, 7, 8, 9, 10, 11, 12, 13, 14, 15, 16,
           17, 18, 19, 20, 21, 22, 23, 24, 25, 26, 27, 28, 29, 30}
  MaxFrames = 3
  IndexSlots = 10
  IndexRange = 256
  MaxTracked = 255
  TrySlots = 16
  Growth = 16
  StackLimit = 48
  MaxDecisions = 8
  Modulus = 100
  Images <- LeaveLoops
SPECIFICATION Spec
INVARIANT AssertionsHold
