SPECIFICATION Spec
CONSTANTS
  c1 = c1
  c2 = c2
  allow = allow
  budget = budget
  mode = mode
  std = std
  any = any
  Child = {c1, c2}
  MaxRequests = 4
  MaxFaults = 1
  Key = {allow, budget, mode}
  Value = {std, any}
  Unset = Unset
  Postable = {budget, mode}
  Default <- Installed
  FirstFile <- InstalledFile
  Env <- ModeInEnv
  Session = {s1, s2}
  Token = {k1}
  NoCredential = NoCredential
  Subject = {host}
  Ttl = {1}
  MaxClock = 2
  AllowIps = allow
  AnyIp = any
SYMMETRY Symmetry
INVARIANTS TypeOK   
CHECK_DEADLOCK FALSE
