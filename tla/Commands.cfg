\* A chat and a one-shot client that share a session, die and come back; two calls of
\* the squad and one of the agent.  A turn or a command that has ended stops.
SPECIFICATION MCFairSpec
CONSTANTS
  c1 = c1
  c2 = c2
  agent = agent
  Client <- MCClient
  Chat <- MCChat
  Call <- MCCall
  Agent = agent
  Window = 3
  MaxSteps = 2
  MaxEvents = 4
  MaxHistory = 4
  MaxWait = 1
  MaxStreamed = 1
  Content <- MCContent
  MaxMessages = 4
  Uses = 2
  System = System
  Spoken = "hello"
  Tools <- MCTools
CHECK_DEADLOCK FALSE
INVARIANTS HistoryIsSound TurnsAreSentWhole SquadOrItsFallback
PROPERTIES AppendsSeeAll CommandsEnd
