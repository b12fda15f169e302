SPECIFICATION Spec
CONSTANTS
  Commands = {c1, c2, c3}
  CallbackTypes = {"submitted", "complete"}
  Usages <- CarefulApps
  MaxWaitList = 2
  MaxAppRefs = 1
INVARIANTS
  RefsAccounted
  RunsOnce
  NoUseAfterDelete
  EventHasCommandUntilCompleted
  InOrder
  OnlyUnaskedEventsLeak
PROPERTIES
  WaitListRespected
  FlushDrains
  ImplementsTaskQueue
SYMMETRY Symmetry
CHECK_DEADLOCK FALSE
