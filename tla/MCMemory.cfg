SPECIFICATION Spec
CONSTANTS
  ALIGNMENT = 2
  HEADER_SIZE = 2
  ZONE_HEADER_SIZE = 4
  TINY_DATA_MAX = 6
  SMALL_DATA_MIN = 9
  SMALL_DATA_MAX = 10
  PAGESIZE = 4
  TINY_ZONE_SIZE = 20
  SMALL_ZONE_SIZE = 20
  SIZE_MAX = 127
  MAX_ALLOC_SIZE = 127
  MEM_END = 38
  RequestSizes = {2, 4, 6, 8}
  StrayPtrs = {0, 16}
INVARIANTS
  ContentsKept
  ListsWellLinked
PROPERTIES
  ListsImplementSets
