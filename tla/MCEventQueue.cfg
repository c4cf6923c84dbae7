SPECIFICATION Spec
CONSTANTS
  Object = {a, b}
  Delay <- SomeDelays
  EndDate = {2, 5}
CONSTRAINT Bounded
INVARIANTS
  NothingPast
  PostedInOrder
