\* Two messages, in one session or two, and no browser at all, under the runtime's
\* fairness: turns end, requests settle, and the hub refines the permission
\* contract, liveness included.
SPECIFICATION FairSpec
CONSTANTS
  Session = {s1, s2}
  Message = {m1, m2}
  Reader = {}
  None = None
  MaxSessions = 2
  Capacity = 1
  MaxRequests = 2
  MaxLog = 1
CHECK_DEADLOCK FALSE
PROPERTIES TurnsAndRequestsEnd ImplementsContract
