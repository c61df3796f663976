\* One task, its orchestrator, the kill switch and who answers gates; tasks end.
SPECIFICATION FairSpec
CONSTANTS
  Task = {t1}
  None = None
  Operator = {o1}
  Acquire = {"lease", "error"}
  Early = {t1}
  MaxEvents = 1
  MaxGates = 2
  MaxMessages = 0
CHECK_DEADLOCK FALSE
INVARIANTS TypeOK WaitingIsPending StopReachesDriver ClosedMeansComplete
PROPERTIES StopDeniesGates EveryTaskCloses
