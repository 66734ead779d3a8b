SPECIFICATION Spec
CONSTANTS
  MaxLength = 3
  Values = {0, 1, 2}
PROPERTIES
  ReturnsAlways
CHECK_DEADLOCK FALSE
