SPECIFICATION Spec
CONSTANTS
  claude = claude
  chatgpt = chatgpt
  farm = farm
  w1 = w1
  w2 = w2
  r1 = r1
  NoAgent = NoAgent
  NoHost = NoHost
  Agent = {claude, chatgpt}
  Host = {}
  NumTasks = 1
  TableSize = 1
  Worker = {w1, w2}
  Remote = {}
  AgentOf <- LocalAgentOf
  HostOf <- NoHostOf
  Capable <- NoneCapable
  AssignTo <- OwnedAssignTo
  LeaseTime = 2
  RenewTime = 1
  AdapterTimeout = 2
  MaxClock = 4
  MaxCrash = 1
  Handler = {h1}
  OperatorOps = {"repost", "reroute", "lifecycle", "kill", "pause", "abort"}
  MaxOps = 2
INVARIANTS TypeOK   LeaseViewsAgree
PROPERTIES ReclaimOnlyExpired CancelLatched LeasesAreRegister
