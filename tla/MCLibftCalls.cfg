SPECIFICATION Spec
CONSTANTS
  LAST = 5
  Bytes = {0, 97, 98, 200}
  INT_BITS = 8
  LONG_BITS = 16
  Alphabet = {9, 32, 43, 45, 48, 50, 57, 97}
  MAX_TEXT = 5
  Pieces <- MCPieces
  MAX_PIECES = 3
  Arguments <- MCArguments
  Unsigneds = {0, 1, 2, 3, 9, 15, 16, 255, 256, 1000}
  Bases <- MCBases
  MAX_WRITES = 6
  Values = {1, 2, 3, 4}
  MAX_SIZE = 6
INVARIANTS
  CopiesAreExact
  SearchesAreRight
  ComparisonsAreOrders
  NewStringsFit
  RoundTrips
  TextsAreRead
  CountIsHonest
  NumeralsEvaluate
  FormatsCompose
  SortsItsElements
CHECK_DEADLOCK FALSE
