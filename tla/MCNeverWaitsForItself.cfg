SPECIFICATION Spec
CONSTANTS
  ALIGNMENT = 2
  HEADER_SIZE = 4
  ZONE_HEADER_SIZE = 2
  TINY_DATA_MAX = 4
  SMALL_DATA_MIN = 5
  SMALL_DATA_MAX = 8
  PAGESIZE = 8
  TINY_ZONE_SIZE = 16
  SMALL_ZONE_SIZE = 16
  SIZE_MAX = 127
  MAX_ALLOC_SIZE = 127
  MEM_END = 40
  Threads = {t1, t2}
  NoThread = NoThread
  RequestSizes = {1, 4, 10}
  StrayPtrs = {0, 12}
  PrintfBuffer = 1
INVARIANT
  NeverWaitsForItself
CHECK_DEADLOCK FALSE
