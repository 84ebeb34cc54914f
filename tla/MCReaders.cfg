SPECIFICATION Spec
CONSTANTS
  Agent = {claude}
  NoAgent = NoAgent
  Host = {farm}
  NoHost = NoHost
  NumTasks = 2
  TableSize = 1
  TaskId = {x, y}
  Times = {1, 2}
  MaxLines = 4
INVARIANTS TypeOK FindersAgree LeaseReadersAgree
CHECK_DEADLOCK FALSE
SYMMETRY Ids
