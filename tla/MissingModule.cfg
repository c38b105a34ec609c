\* An import from a file that is not there.
CONSTANTS
  NoNode = 0
  MaxNesting = 10
  Sources <- MissingModule
SPECIFICATION Spec
INVARIANT AssertionsHold
