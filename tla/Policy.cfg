\* Two requests of the permissions API and a turn, with a storage that may fail.
SPECIFICATION Spec
CONSTANTS
  q1 = q1
  q2 = q2
  t1 = t1
  Request <- MCRequest
  Turn <- MCTurn
  Writer <- MCWriter
  MaxFaults = 1
  Profile = {"build"}
  Tool = {"edit"}
  Scope = {"src/main", "docs"}
  Prefix = {"src"}
  Inside <- MCInside
  None = None
  Before <- MCBefore
  Wanted = {"deny"}
  MaxCalls = 1
SYMMETRY Symmetry
CHECK_DEADLOCK FALSE
INVARIANTS AuditIsTrue
PROPERTIES RulesInForceDecide
