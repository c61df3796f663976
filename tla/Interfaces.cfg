\* The modules of MCInterfaces, each on its own.  What has ended stops.
SPECIFICATION MCFairSpec
CONSTANTS
  c1 = c1
  c2 = c2
  c3 = c3
  w1 = w1
  w2 = w2
  s1 = s1
  s2 = s2
  g1 = g1
  g2 = g2
  m1 = m1
  m2 = m2
  n1 = n1
  n2 = n2
  Models = 2
  MaxTurns = 2
  MaxCalls = 1
  MaxAsks = 2
  MaxSwitch = 1
  Client <- MCClient
  MaxSteps = 2
  Web <- MCWeb
  Chat = chat
  MaxId = 2
  MaxCommands = 2
  Server <- MCServer
  MaxRequests = 2
  MaxChanges = 1
  Generation <- MCGeneration
  Model <- MCModel
  MaxDropped = 1
  MaxEvents <- MCMaxEvents
  MinSamples = 3
CHECK_DEADLOCK FALSE
INVARIANTS ContractsDecide
PROPERTIES TerminalIsFaithful DashboardIsTrue InterfacesEnd
