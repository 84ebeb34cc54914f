SPECIFICATION FairSpec
CONSTANTS
  claude = claude
  chatgpt = chatgpt
  farm = farm
  w1 = w1
  w2 = w2
  r1 = r1
  NoAgent = NoAgent
  NoHost = NoHost
  Agent = {claude, chatgpt}
  Host = {}
  NumTasks = 2
  TableSize = 2
  Worker = {w1}
  Remote = {}
  AgentOf <- SoloAgentOf
  HostOf <- NoHostOf
  Capable <- NoneCapable
  AssignTo <- ClaudeAssignTo
  LeaseTime = 2
  RenewTime = 1
  AdapterTimeout = 2
  MaxClock = 4
  MaxCrash = 1
  Handler = {h1}
  OperatorOps = {"kill"}
  MaxOps = 1
PROPERTIES EveryTaskFinishes
