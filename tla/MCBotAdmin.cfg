CONSTANTS
  c1 = c1
  c2 = c2
  Msgs = {c1,c2}
  Streams <- Admin
  StreamCapacity = 3
  Bots = {"b1","b2"}
  Agents <- BothAgents
  DefaultAgent = "claude-hubmq"
  AgentsFile <- Llmcore
  Orders <- AdminOrders
  Prefetch = 1
  MaxFaults = 2
SPECIFICATION MCSpec
INVARIANTS TypeOK CalmMeansConverged CredentialForDeclared OnePollerUnlessDoubled
PROPERTY EventuallyQuiet
CHECK_DEADLOCK FALSE
