SPECIFICATION Spec
CONSTANTS
  Envs <- MCEnvs
  Junk = Junk
  Minute = 1
  Day = 1
  Users = {u1}
  Procs = {p1, p2}
  MaxLag = 1
  MaxStall = 1
  AccessLimit = 2
  RefreshLimit = 3
  MaxTokens = 2
  MaxTime = 9
SYMMETRY Symmetry
INVARIANTS TypeOK AdminBounded SessionBounded
