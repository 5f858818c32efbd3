CONSTANTS
  c1 = c1
  c2 = c2
  Msgs = {c1,c2}
  Streams <- Admin
  StreamCapacity = 3
  Bots = {"b1","b2"}
  Agents <- BothAgents
  DefaultAgent = "claude-hubmq"
  AgentsFile <- Llmcore
  Orders <- AdminOrders
  Prefetch = 1
  MaxFaults = 0
SPECIFICATION Spec
INVARIANT OnePollerPerBot
CHECK_DEADLOCK FALSE
