SPECIFICATION Spec
CONSTANTS
  Commands = {c1, c2}
  CallbackTypes = {"submitted", "running", "complete"}
  Usages <- ReentrantApps
  MaxWaitList = 1
  MaxAppRefs = 1
INVARIANTS
  EventHasCommandUntilCompleted
CHECK_DEADLOCK FALSE
