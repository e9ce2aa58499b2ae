\* One host, one connection allowed.
SPECIFICATION SpecPart
CONSTANTS
  r1 = r1
  r2 = r2
  r3 = r3
  k1 = k1
  Parts = {"http1", "close", "timer", "all"}
  Reqs = {r1, r2, r3}
  Keys = {k1}
  KeyOf <- OneHost
  MaxConnsPerHost = 1
  MaxIdleConnsPerHost = 1
  MaxIdleConns = 0
  DisableKeepAlives = FALSE
  IdleConnTimeout = TRUE
  CanH2 = TRUE
  CloseIdleCalls = 1
  Faults = {"cancel", "dial", "peer"}
  NoConn = NoConn
  DialErr = DialErr
SYMMETRY ReqSymmetry
INVARIANTS TypeOK SlotAccounting NoStrandedWaiter ExclusiveOwner NoIdleWhileWanted DialsTracked
PROPERTIES IdleTimeoutSparesUsed
CHECK_DEADLOCK FALSE
