\* The idle timeout against CloseIdleConnections.
SPECIFICATION SpecPart
CONSTANTS
  r1 = r1
  r2 = r2
  r3 = r3
  k1 = k1
  Parts = {"http1"}
  Reqs = {r1, r2, r3}
  Keys = {k1}
  KeyOf <- OneHost
  MaxConnsPerHost = 1
  MaxIdleConnsPerHost = 1
  MaxIdleConns = 0
  DisableKeepAlives = FALSE
  IdleConnTimeout = TRUE
  CanH2 = FALSE
  CloseIdleCalls = 1
  Faults = {}
  NoConn = NoConn
  DialErr = DialErr
SYMMETRY ReqSymmetry
INVARIANTS NoOrphan
CHECK_DEADLOCK FALSE
