------------------------------ MODULE MCSpMtSc ------------------------------
(* Small instances of SpMtSc for TLC.                                      *)
EXTENDS SpMtSc

AllFaults == {"read", "process", "write"}
=============================================================================
