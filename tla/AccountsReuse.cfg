SPECIFICATION Spec
CONSTANTS
  Procs = {p1, p2}
  Emails = {a}
  Usernames = {u}
  NoRow = NoRow
  Ops = {"register", "check", "delete", "login", "loginWrong", "refresh", "profile", "list"}
  Faults = {"redis", "crash"}
  FalsePositives = {}
  MaxUsers = 2
  MaxLag = 0
SYMMETRY Symmetry
INVARIANT FilterCovers
PROPERTIES NoFalseAvailable
