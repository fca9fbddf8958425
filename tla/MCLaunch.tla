------------------------------ MODULE MCLaunch ------------------------------
(* The instance of Launch for TLC: thread counts on both sides of 0, of    *)
(* the limit and of the cast.                                              *)
EXTENDS Launch

TriedThreads == {0, 1, 4, MaxCpuWorkers, MaxCpuWorkers + 1, Word, Word + 1}
=============================================================================
