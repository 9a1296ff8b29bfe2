SPECIFICATION Spec
CONSTANTS
  Procs = {p1}
  Emails = {a, b}
  Usernames = {u}
  NoRow = NoRow
  Ops = {"grpcRegister"}
  Faults = {}
  FalsePositives = {}
  MaxUsers = 2
  MaxLag = 0
PROPERTY GrpcRegisterCreates
