SPECIFICATION Spec
CONSTANTS
  Commands = {c1, c2}
  CallbackTypes = {"submitted", "running", "complete"}
  Usages <- BusyApps
  MaxWaitList = 1
  MaxAppRefs = 2
PROPERTIES
  CallsReturn
CHECK_DEADLOCK FALSE
