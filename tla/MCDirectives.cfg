SPECIFICATION Spec
CONSTANTS
  c1 = c1
  c2 = c2
  Child = {c1, c2}
  MaxRequests = 2
  MaxFaults = 1
  NumTasks = 2
  TableSize = 2
  Deps <- ChainedDeps
  Granted = {1}
  MaxRuns = 1
SYMMETRY Symmetry
INVARIANTS TypeOK BlockedReaches RevokedRunCancelled
PROPERTIES TerminalKept
CHECK_DEADLOCK FALSE
