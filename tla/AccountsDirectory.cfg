SPECIFICATION Spec
CONSTANTS
  Procs = {p1, p2}
  Emails = {a}
  Usernames = {u}
  NoRow = NoRow
  Ops = {"register", "grpcRegister", "update", "delete"}
  Faults = {"db", "commit", "crash"}
  FalsePositives = {}
  MaxUsers = 2
  MaxLag = 1
SYMMETRY Symmetry
INVARIANT TypeOK
PROPERTIES ImplementsDirectory DeletedStaysDeleted
