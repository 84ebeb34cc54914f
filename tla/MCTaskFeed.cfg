SPECIFICATION FairSpec
CONSTANTS
  agent = agent
  tasks = tasks
  again = again
  status = status
  Writer = {agent}
  PageChild = {tasks, again}
  OtherChild = {status}
  MaxLine = 2
  MaxCrash = 1
  MaxDrop = 1
INVARIANTS TypeOK AnswersFresh NoLostWakeup
 
