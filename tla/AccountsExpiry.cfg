SPECIFICATION FairSpec
CONSTANTS
  Procs = {p1, p2}
  Emails = {a}
  Usernames = {u}
  NoRow = NoRow
  Ops = {"register", "check", "delete", "update", "login", "loginWrong", "refresh", "profile", "list"}
  Faults = {"db", "redis"}
  FalsePositives = {}
  MaxUsers = 1
  MaxLag = 1
PROPERTIES DeletedLeavesCache EventuallyFound
