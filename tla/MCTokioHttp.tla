---------------------------- MODULE MCTokioHttp ----------------------------
(* Small instances of TokioHttp for TLC.                                   *)
EXTENDS TokioHttp

AllFaults == {"get", "read", "process", "put"}

\* Less than the header; the header alone; the header, a frame and a half.
MCChunkSizes == {1, 2, 5}
=============================================================================
