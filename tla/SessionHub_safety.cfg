\* Two messages race for one session or spread over two (the second above the
\* cap), one browser that switches session and may lag behind a two-slot channel,
\* two permission requests.
SPECIFICATION Spec
CONSTANTS
  Session = {s1, s2}
  Message = {m1, m2}
  Reader = {r1}
  None = None
  MaxSessions = 1
  Capacity = 2
  MaxRequests = 2
  MaxLog = 2
INVARIANTS TypeOK TurnsStayApart PendingIsAnswerable FailClosed
SYMMETRY Symmetry
