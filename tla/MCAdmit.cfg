SPECIFICATION Spec
CONSTANTS
  claude = claude
  chatgpt = chatgpt
  anthropic = anthropic
  openai = openai
  launch = launch
  root = root
  NoTask = NoTask
  NoInitiative = NoInitiative
  NoFamily = NoFamily
  Router = Router
  Task = {root, t1, t2, t3}
  Agent = {claude, chatgpt}
  Initiative = {launch}
  Family = {anthropic, openai}
  FamilyOf <- AgentFamily
  BlockedVendors = {}
  Requests <- SmallRequests
  MaxTokens = 1
  Handler = {h1, h2}
  MaxActiveTasksPerAgent = 1
  MaxTasksPerInitiative = 1
  MaxSubtasksPerParent = 1
  TokenBudgetPerInitiative = 1
  TokenBudgetPerModelFamily = 1
  TokenDailyBudget = 1
  MaxPosts = 3
  MaxMoves = 1
SYMMETRY Symmetry
CHECK_DEADLOCK FALSE
INVARIANTS TypeOK  
