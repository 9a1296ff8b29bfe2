SPECIFICATION Spec
CONSTANTS
  IPs = {i1}
  Procs = {p1, p2}
  Limit = 2
  Cost = 2
  Idle = 5
  Period = 3
  MaxStall = 1
  MaxTime = 14
SYMMETRY Symmetry
INVARIANTS TypeOK NoOrphan WindowBound StaleEvicted
PROPERTY ImplementsBucket
