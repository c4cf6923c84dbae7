SPECIFICATION FairSpec
CONSTANTS
  Object = {a, b}
  Delay <- SomeDelays
  EndDate = {2, 4}
  Pages = 2
  Buckets = 2
  Grain = 2
  MaxDate = 7
  MaxPosts = 5
  MaxRuns = 2
CHECK_DEADLOCK FALSE
INVARIANTS
  Consistent
  NextDateIsEarliest
  NothingForgotten
PROPERTIES
  Implements
  TimeAdvances
  RunEnds
