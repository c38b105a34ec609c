\* Arguments arrive in reverse.
CONSTANTS
  NoBlock = 0
  Block = {1, 2, 3, 4, 5, 6}
  MaxFrames = 3
  IndexSlots = 10
  IndexRange = 256
  MaxTracked = 255
  TrySlots = 16
  Growth = 16
  StackLimit = 48
  MaxDecisions = 3
  Modulus = 100
  Images <- TwoArguments
SPECIFICATION Spec
PROPERTY ArgumentAtIndex
