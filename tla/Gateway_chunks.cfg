\* Streams whose text has characters of several bytes.
SPECIFICATION MCSpec
CONSTANTS
  c1 = c1
  c2 = c2
  c3 = c3
  r1 = r1
  r2 = r2
  r3 = r3
  WideText = TRUE
  AnthropicScripts <- AnthropicStreams
  OpenaiScripts <- OpenaiStreams
  Framings = {"lf"}
  Call <- MCCall
  Chat = {"history"}
  Model = {"small", "large"}
  MaxRequests = 1
  Window = 2
  MaxWait <- MCMaxWait
  MaxFaults = 1
  Handler <- MCHandler
  Service = {"promptforge"}
  Cli = "cli"
  MaxSpawns = 2
  MaxRounds = 1
  MaxOutages = 1
  Nobody = Nobody
  None = None
CHECK_DEADLOCK FALSE
INVARIANTS WholeStreamIsTurn
