SPECIFICATION Spec
CONSTANTS
  ALIGNMENT = 2
  HEADER_SIZE = 4
  ZONE_HEADER_SIZE = 2
  TINY_DATA_MAX = 4
  SMALL_DATA_MIN = 5
  SMALL_DATA_MAX = 8
  PAGESIZE = 8
  TINY_ZONE_SIZE = 24
  SMALL_ZONE_SIZE = 24
  SIZE_MAX = 127
  MAX_ALLOC_SIZE = 127
  MEM_END = 64
  RequestSizes = {0, 1, 4, 6, 12, 127}
  StrayPtrs = {0, 12, 16}
INVARIANT
  RequestsAreServed
