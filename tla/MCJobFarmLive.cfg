SPECIFICATION FairSpec
CONSTANTS
  Jobs = 3
  Job = {1, 2, 3}
  Slot = {1, 2}
  MaxTalk = 1
  Talks = {"ASK", "CHECK"}
  Faults = {"running"}
  BreakOnError = FALSE
  StrayEvent = FALSE
CHECK_DEADLOCK FALSE
PROPERTIES
  AllRunsDone
  Answered
