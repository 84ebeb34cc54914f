SPECIFICATION Spec
CONSTANTS
  claude = claude
  chatgpt = chatgpt
  farm = farm
  w1 = w1
  w2 = w2
  r1 = r1
  NoAgent = NoAgent
  NoHost = NoHost
  Agent = {claude, chatgpt}
  Host = {farm}
  NumTasks = 1
  TableSize = 1
  Worker = {w1}
  Remote = {r1}
  AgentOf <- SplitAgentOf
  HostOf <- FarmHostOf
  Capable <- FarmCapable
  AssignTo <- AnyAssignTo
  LeaseTime = 2
  RenewTime = 1
  AdapterTimeout = 2
  MaxClock = 4
  MaxCrash = 1
  Handler = {h1}
  OperatorOps = {"reroute", "reclaim", "status"}
  MaxOps = 2
INVARIANTS LeaseViewsAgree HostRespected
