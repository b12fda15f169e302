SPECIFICATION Spec
CONSTANTS
  Commands = {c1, c2}
  CallbackTypes = {"submitted", "running", "complete"}
  Usages <- OrderListApps
  MaxWaitList = 1
  MaxAppRefs = 1
INVARIANTS
  WaitListEmptyAssertions
CHECK_DEADLOCK FALSE
