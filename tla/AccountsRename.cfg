SPECIFICATION HSpec
CONSTANTS
  Procs = {p1, p2}
  Emails = {a, b}
  Usernames = {}
  NoRow = NoRow
  Ops = {"grpcRegister", "check", "update", "delete"}
  Faults = {"db", "commit", "redis", "crash", "seed"}
  FalsePositives = {a, b}
  MaxUsers = 1
  MaxLag = 1
SYMMETRY Symmetry
INVARIANT CacheTruthful
PROPERTIES NoPhantomTaken NoForeignValues AcknowledgedHappened
