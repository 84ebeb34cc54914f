SPECIFICATION FairSpec
CONSTANTS
  claude = claude
  say = say
  console = console
  Agent = {claude}
  Poster = {say}
  Client = {console}
  ContextCount = 2
  RecentCount = 2
  Batch = 2
  MaxPost = 2
  MaxCrash = 1
  MaxDrop = 1
INVARIANTS TypeOK IdsIncrease RepliesBounded HandledIsAnswered LossBounded TranscriptInOrder
  
CHECK_DEADLOCK FALSE
