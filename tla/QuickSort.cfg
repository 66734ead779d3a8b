SPECIFICATION Spec
CONSTANTS
  MaxLength = 5
  Values = {0, 1, 2, 3, 4}
INVARIANTS
  ScansStayInside
  RangesSeparate
  Sorts
PROPERTIES
  DistinctListsReturn
CHECK_DEADLOCK FALSE
