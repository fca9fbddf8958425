------------------------------ MODULE Transcode ------------------------------
(***************************************************************************)
(* What every transcoding engine of recallai/src/transcoder promises: each *)
(* frame is put in the output once, and a call that answers Ok has put     *)
(* every frame there.  A failed call may leave a partial output, and its   *)
(* threads may still be writing when the error is returned.                *)
(***************************************************************************)
EXTENDS Naturals

VARIABLES numFrames,   \* meta_header.num_frames
          out,         \* the frames in the output
          result       \* "none" while running, then "ok" or "err"

vars == <<numFrames, out, result>>

Frames == 0..(numFrames - 1)

Init == numFrames \in Nat /\ out = {} /\ result = "none"

Emit(fr) ==
    /\ result # "ok" /\ fr \notin out
    /\ out' = out \cup {fr}
    /\ UNCHANGED <<numFrames, result>>

EndOk ==   \* the last frame may land with it
    /\ result = "none"
    /\ out' = Frames
    /\ out' = out \/ \E fr \in Frames : out' = out \cup {fr}
    /\ result' = "ok"
    /\ UNCHANGED numFrames

EndErr ==
    /\ result = "none"
    /\ result' = "err"
    /\ UNCHANGED <<numFrames, out>>

Next == EndOk \/ EndErr \/ \E fr \in Frames : Emit(fr)

Spec == Init /\ [][Next]_vars
=============================================================================
