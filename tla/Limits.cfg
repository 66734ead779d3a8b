SPECIFICATION CachesSpec
CONSTANTS
  Threads = {t1, t2}
  LimitCaches = {"malloc", "realloc"}
  PageCaches = {"find_zone"}
  RLimits = {0, 5}
  SIZE_MAX = 7
  PAGESIZE = 4
INVARIANT AnswersAreReal
PROPERTY CachesSettle
