------------------------- MODULE MCParallelDownload -------------------------
(* An instance of ParallelDownload: three segments, nothing fails.         *)
EXTENDS ParallelDownload

NoFailures == {}
ThreeSegments == {5}
=============================================================================
