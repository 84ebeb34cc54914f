SPECIFICATION Spec
CONSTANTS
  c1 = c1
  c2 = c2
  a1 = a1
  a2 = a2
  draft = draft
  secret = secret
  Child = {c1, c2}
  MaxRequests = 4
  MaxFaults = 1
  Artifact = {a1, a2}
  Initiative = {a1, a2}
  InitiativeOf <- OwnInitiative
  Main = Main
  Bytes = {draft, secret}
  Secret = {secret}
  Old = draft
  Patterns = TRUE
  Nothing = Nothing
  Torn = Torn
  Offered = {"copy", "pull-request"}
  MaxWrites = 3
SYMMETRY Symmetry
INVARIANTS TypeOK  ScanGuardsRemote
CHECK_DEADLOCK FALSE
