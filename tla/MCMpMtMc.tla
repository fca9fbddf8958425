------------------------------ MODULE MCMpMtMc ------------------------------
(* Small instances of MpMtMc for TLC.                                      *)
EXTENDS MpMtMc

AllFaults == {"open", "read", "process", "write"}
=============================================================================
