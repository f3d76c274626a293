SPECIFICATION MCSpec
CONSTANTS
  p1 = p1
  p2 = p2
  p3 = p3
  Payload = {p1, p2, p3}
  SizeOf <- MCSize
  Waiter = {w1, w2}
  ForceFlush = 1
  ForceDrop = 3
  Null = Null
  Conns = {c1, c2}
  Sessions = {s1}
  Ops = {"config", "rc", "stop", "late"}
  MaxRequests = 2
  MaxObjects = 3
  Queues = {q1, q2}
  Services = {v1}
  MaxItems = 3
  MaxRegisters = 2
  StoreLen = 1
  Endpoints = {e1}
  Guards = {g1, g2, g3}
  Tasks = {t1, t2, t3}
  MaxCalls = 3
  QueueLen = 1
  RespBuf = 1
CHECK_DEADLOCK FALSE
INVARIANTS OneFlusher FlusherSound SessionsSound HeldGoFirst TelemetrySound AgentInfoSound EffectsInOrder OwnResponse SendsCarriedOut
