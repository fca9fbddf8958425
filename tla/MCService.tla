------------------------------ MODULE MCService ------------------------------
(* Two jobs of different lengths on a ring of two workers.                 *)
EXTENDS Service

MCSize     == [j \in Jobs |-> IF j = CHOOSE k \in Jobs : TRUE THEN 3 ELSE 1]
MCOutcomes == {"ok", "err", "panic", "hang"}
MCFaults   == {"read", "process", "write"}
=============================================================================
