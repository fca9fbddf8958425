--------------------------- MODULE MCTokioParallel ---------------------------
(* Small instances of TokioParallel for TLC: fewer frames than workers and *)
(* more.                                                                   *)
EXTENDS TokioParallel

MCLengths == {2, 5}
AllFaults == {"read", "process", "write"}
=============================================================================
