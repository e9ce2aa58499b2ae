SPECIFICATION SpecPart
CONSTANTS
    r1 = r1
    r2 = r2
    c1 = c1
    c2 = c2
    e1 = e1
    e2 = e2
    e3 = e3
    NoReq = NoReq
    Reqs = {r1, r2}
    Conns = {c1, c2}
    Scenarios <- Situations
    Max1xx = 1
INVARIANTS RequestsNotMixed IdleIsClean BodyReleased EvictionSafe
PROPERTY ImplementsRoundTripper
SYMMETRY SameHost
CHECK_DEADLOCK FALSE
