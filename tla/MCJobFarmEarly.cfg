SPECIFICATION FairSpec
CONSTANTS
  Jobs = 2
  Job = {1, 2}
  Slot = {1, 2}
  MaxTalk = 1
  Talks = {"INFO", "ASK", "TOKEN", "CHECK"}
  Faults = {"early"}
  BreakOnError = FALSE
  StrayEvent = FALSE
CHECK_DEADLOCK FALSE
PROPERTY
  AllRunsDone
