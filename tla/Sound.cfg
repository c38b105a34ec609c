\* The programs the generated code is right for, with the code's own limits.
CONSTANTS
  NoBlock = 0
  Block = {1, 2, 3, 4, 5, 6, 7, 8, 9, 10, 11, 12, 13, 14, 15, 16}
  MaxFrames = 6
  IndexSlots = 10
  IndexRange = 256
  MaxTracked = 255
  TrySlots = 16
  Growth = 16
  StackLimit = 48
  MaxDecisions = 3
  Modulus = 10
  Images <- SoundImages
SPECIFICATION Spec
INVARIANTS
  OutputAgrees
  NoFault
  NothingLeaks
  EndsBalanced
  HandlersOfFunction
  CodeInOrder
PROPERTIES
  NoStatementAfterRaise
  Ends
