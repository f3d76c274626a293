SPECIFICATION Spec
CONSTANTS
  Conns = {c1, c2}
  Sessions = {s1}
  Ops = {"config", "rc"}
  MaxRequests = 2
  MaxObjects = 2
INVARIANT InvariantsSetEarly
CHECK_DEADLOCK FALSE
