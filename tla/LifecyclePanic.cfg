SPECIFICATION Spec
CONSTANTS
  Clients = {c1}
  BufferSize = 1
CHECK_DEADLOCK FALSE
INVARIANT NoPanic
