SPECIFICATION Spec
CONSTANTS
  Jobs = 3
  Job = {1, 2, 3}
  Slot = {1, 2}
  MaxTalk = 1
  Talks = {"INFO", "ASK", "TOKEN", "CHECK"}
  Faults = {"early", "running", "waiting"}
  BreakOnError = FALSE
  StrayEvent = TRUE
CHECK_DEADLOCK FALSE
INVARIANTS
  NoProtocolError
  SlotsSuffice
  SlotsAreOwned
  Accounting
  ResultsKept
  NeverStuck
PROPERTY
  Implements
