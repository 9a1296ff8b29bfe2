SPECIFICATION Spec
CONSTANTS
  Procs = {p1}
  Emails = {a, b}
  Usernames = {u}
  NoRow = NoRow
  Ops = {"register", "update", "check"}
  Faults = {}
  FalsePositives = {}
  MaxUsers = 2
  MaxLag = 0
PROPERTY NoFalseAvailable
