------------------------------- MODULE MpMtMc -------------------------------
(***************************************************************************)
(* MpMtMcTranscoder (transcoder/mpmtmc.rs): num_cpu_workers threads share  *)
(* one atomic frame counter and nothing else.  Each opens both files,      *)
(* claims the next frame, reads it, processes it and writes it at its own  *)
(* offset, until the counter passes the last frame.  The caller joins them *)
(* all and reports the last error.                                         *)
(***************************************************************************)
EXTENDS Naturals, FiniteSets

CONSTANTS
    Workers,      \* the scoped threads
    NumFrames,    \* meta_header.num_frames
    Wrap,         \* out_frame is an AtomicU32: fetch_add is modulo 2^32
    Faults        \* which of open, read, process, write may fail

N == Cardinality(Workers)
Frames == 0..(NumFrames - 1)

\* With no worker at all the call would answer Ok with no frame written; the
\* command line replaces a parallelism of 0 (recallai/src/main.rs).
ASSUME SizeAssumption == IsFiniteSet(Workers) /\ Workers # {} /\ NumFrames \in Nat
ASSUME FaultAssumption == Faults \subseteq {"open", "read", "process", "write"}

\* The code does not check this: it holds unless a file announces nearly
\* 2^32 frames.
ASSUME WrapAssumption == Wrap \in Nat /\ NumFrames + N < Wrap

VARIABLES
    outFrame,     \* out_frame, the shared counter
    worker,       \* per worker: where it is and the frame it claimed
    out,          \* the frames complete in the output file
    result        \* what transcode_file_names returns

vars == <<outFrame, worker, out, result>>

TypeOK ==
    /\ outFrame \in 0..(Wrap - 1)
    /\ worker \in [Workers -> [pc : {"open", "claim", "read", "process", "write",
                                     "ok", "err"},
                               fr : Nat]]
    /\ out \in SUBSET Frames
    /\ result \in {"none", "ok", "err"}

Init ==
    /\ outFrame = 0
    /\ worker = [w \in Workers |-> [pc |-> "open", fr |-> 0]]
    /\ out = {}
    /\ result = "none"

-----------------------------------------------------------------------------
Go(w, pc) == worker' = [worker EXCEPT ![w].pc = pc]

Open(w) ==
    /\ worker[w].pc = "open"
    /\ Go(w, "claim")
    /\ UNCHANGED <<outFrame, out, result>>

\* Mutant: a load and a store: two threads may claim one frame.
ClaimNotAtomic(w) ==
    /\ worker[w].pc = "claim"
    /\ worker' = [worker EXCEPT ![w] =
          [pc |-> IF outFrame >= NumFrames THEN "ok" ELSE "read", fr |-> outFrame]]
    /\ outFrame' \in {outFrame, (outFrame + 1) % Wrap}
    /\ UNCHANGED <<out, result>>

\* Mutant: two frames are claimed and one is processed.
ClaimPairs(w) ==
    /\ worker[w].pc = "claim"
    /\ worker' = [worker EXCEPT ![w] =
          [pc |-> IF outFrame >= NumFrames THEN "ok" ELSE "read", fr |-> outFrame]]
    /\ outFrame' = (outFrame + 2) % Wrap
    /\ UNCHANGED <<out, result>>

Claim(w) ==      \* fetch_add, and the exit test on its result
    /\ worker[w].pc = "claim"
    /\ worker' = [worker EXCEPT ![w] =
          [pc |-> IF outFrame >= NumFrames THEN "ok" ELSE "read", fr |-> outFrame]]
    /\ outFrame' = (outFrame + 1) % Wrap
    /\ UNCHANGED <<out, result>>

Read(w) ==
    /\ worker[w].pc = "read"
    /\ Go(w, "process")
    /\ UNCHANGED <<outFrame, out, result>>

Process(w) ==
    /\ worker[w].pc = "process"
    /\ Go(w, "write")
    /\ UNCHANGED <<outFrame, out, result>>

Write(w) ==
    /\ worker[w].pc = "write"
    /\ out' = out \cup {worker[w].fr}
    /\ Go(w, "claim")
    /\ UNCHANGED <<outFrame, result>>

\* Mutant: an I/O error is taken for the end of the frames.
FailSilently(w) ==
    /\ worker[w].pc \in Faults
    /\ Go(w, "ok")
    /\ UNCHANGED <<outFrame, out, result>>

\* `?' on any of the four (for process_frame a panic, which the join reports
\* as an error too): the thread ends, and its frame stays claimed.
Fail(w) ==
    /\ worker[w].pc \in Faults
    /\ Go(w, "err")
    /\ UNCHANGED <<outFrame, out, result>>

\* Mutant: the caller waits for every thread to succeed.
JoinAllOk ==
    /\ result = "none"
    /\ \A w \in Workers : worker[w].pc = "ok"
    /\ result' = "ok"
    /\ UNCHANGED <<outFrame, worker, out>>

Join ==          \* join all, collect_errors
    /\ result = "none"
    /\ \A w \in Workers : worker[w].pc \in {"ok", "err"}
    /\ result' = IF \E w \in Workers : worker[w].pc = "err" THEN "err" ELSE "ok"
    /\ UNCHANGED <<outFrame, worker, out>>

Worker(w) == Open(w) \/ Claim(w) \/ Read(w) \/ Process(w) \/ Write(w) \/ Fail(w)

Next == Join \/ \E w \in Workers : Worker(w)

(* Threads and the joining caller run when they can.                       *)
Fairness == WF_vars(Join) /\ \A w \in Workers : WF_vars(Worker(w))

Spec == Init /\ [][Next]_vars /\ Fairness

-----------------------------------------------------------------------------
(* Properties.                                                             *)

Holding == {"read", "process", "write"}

\* No frame is worked on by two threads, nor claimed again once written:
\* writes to the shared output file never overlap.
ClaimedOnce ==
    \A w \in Workers : worker[w].pc \in Holding =>
        /\ worker[w].fr \in Frames \ out
        /\ \A v \in Workers \ {w} :
              worker[v].pc \in Holding => worker[v].fr # worker[w].fr

\* A thread that fails costs the output the one frame it held: once another
\* thread has seen the end of the frames, no others are missing.
LossBounded ==
    (result = "err" /\ \E w \in Workers : worker[w].pc = "ok")
       => Cardinality(Frames \ out)
            <= Cardinality({w \in Workers : worker[w].pc = "err"})

\* Implements the common promise of the engines: no Ok with a frame missing.
Engine == INSTANCE Transcode WITH numFrames <- NumFrames
ImplementsTranscode == Engine!Spec

\* Whatever fails, the call returns.
Returns == <>(result # "none")
=============================================================================
