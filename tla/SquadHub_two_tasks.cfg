\* Two tasks share one process and one socket.
SPECIFICATION Spec
CONSTANTS
  Task = {t1, t2}
  None = None
  Operator = {o1}
  Acquire = {"lease", "panic"}
  Early = {}
  MaxEvents = 0
  MaxGates = 0
  MaxMessages = 0
CHECK_DEADLOCK FALSE
SYMMETRY Symmetry
INVARIANTS LeaseFollowsDriver
