----------------------------- MODULE MCConnPool -----------------------------
(***************************************************************************)
(* Finite instances of ConnPool: calls of getConn to one host, which are   *)
(* interchangeable.  part says what a behaviour has, and never changes:    *)
(*   "http1"  every call; no HTTP/2 and no peer that closes                *)
(*   "close"  every call; no idle timeout and no peer that closes          *)
(*   "timer"  every call; no CloseIdleConnections and no peer that closes  *)
(*   "all"    one call less; everything                                    *)
(***************************************************************************)
EXTENDS ConnPool, TLC

CONSTANTS r1, r2, r3, k1,
          Parts             \* the parts explored

VARIABLE part

OneHost == [w \in Reqs |-> k1]
ReqSymmetry == Permutations(Reqs)

Quiet == Faults \ {"peer"}
Http1 == INSTANCE ConnPool WITH Faults <- Quiet, CanH2 <- FALSE
Close == INSTANCE ConnPool WITH Faults <- Quiet, IdleConnTimeout <- FALSE
Timer == INSTANCE ConnPool WITH Faults <- Quiet, CloseIdleCalls <- 0

InitPart ==
    /\ part \in Parts
    /\ IF part = "timer" THEN Timer!Init ELSE Init

NextPart ==
    /\ UNCHANGED part
    /\ \/ part = "http1" /\ Http1!Next
       \/ part = "close" /\ Close!Next
       \/ part = "timer" /\ Timer!Next
       \/ part = "all" /\ Next /\ \E w \in Reqs : caller'[w] = "start"

SpecPart == InitPart /\ [][NextPart]_<<part, vars>>
=============================================================================
