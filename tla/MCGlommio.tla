------------------------------ MODULE MCGlommio ------------------------------
(* Every header and file of up to eight frames, every fault, both paths.   *)
EXTENDS Glommio

MCFaults == {"open", "read", "process", "write"}
=============================================================================
