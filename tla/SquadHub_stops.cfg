\* Only the driver, its handler and the kill switch are fair.
SPECIFICATION StopSpec
CONSTANTS
  Task = {t1}
  None = None
  Operator = {o1}
  Acquire = {"lease", "error"}
  Early = {t1}
  MaxEvents = 1
  MaxGates = 1
  MaxMessages = 1
CHECK_DEADLOCK FALSE
PROPERTIES StopEndsDriver
