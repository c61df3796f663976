\* Every module of the tools on its own.  What has returned stops.
SPECIFICATION MCFairSpec
CONSTANTS
  q1 = q1
  q2 = q2
  f1 = f1
  b1 = b1
  t1 = t1
  e1 = e1
  e2 = e2
  x = x
  nl = nl
  cr = cr
  Editor <- MCEditor
  Char = {x, nl, cr}
  Newline = nl
  Return = cr
  MaxChars = 3
  MaxEdit = 2
  ContextLines = 1
  PageSize = 2
  InlineLimit = 2
  MaxWidth = 2
  None = None
  BuiltinDir <- MCBuiltin
  ThirdPartyDir <- MCThirdParty
  Content <- MCContent
  NativeName = {"bash"}
  ServerName = {"srv"}
  SkillName = {"eco"}
  MaxEdits = 1
  StepName = {"test", "lint"}
  DefaultSteps <- MCDefault
  MaxDeclared = 2
  MaxRuns = 2
  MaxConfigEdits = 1
  Capacity = 1
  MaxOutput = 2
  MaxSteps = 2
  Query <- MCQuery
  Document <- MCDocument
  Nobody = Nobody
  MaxAsks = 2
  MaxPush = 1
  MaxServers = 2
  MaxFaults = 1
  MaxLogs = 2
  MaxRefused = 2
CHECK_DEADLOCK FALSE
INVARIANTS SkillsAreVetted EditsAndPagesAreTrue GateHasItsEvidence LspAnswersAreOwn
PROPERTIES CommandsAreContained ToolsEnd
