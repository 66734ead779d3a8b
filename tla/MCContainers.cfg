SPECIFICATION Spec
CONSTANTS
  Heads = {1, 2}
  Numbers = {0, 1}
  Texts <- SomeTexts
  Separators = {"-"}
  MaxObjects = 4
INVARIANTS
  NothingLeaks
  ContainersHold
