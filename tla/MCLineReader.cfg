SPECIFICATION Spec
CONSTANTS
  BUFFER_SIZE = 2
  OPEN_MAX = 2
  FDs = {0, 1}
  Texts <- SomeTexts
INVARIANTS
  BuffersHaveOwners
  NothingLost
PROPERTIES
  LinesAreLines
  CallsReturn
