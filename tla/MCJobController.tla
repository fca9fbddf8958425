--------------------------- MODULE MCJobController ---------------------------
(* Small instances of JobController for TLC.                               *)
EXTENDS JobController

AllOutcomes == {"ok", "err", "panic", "hang"}
AllIds      == Jobs \cup {Stranger}
Returning   == {"ok", "err"}
=============================================================================
