------------------------------ MODULE JobQueue ------------------------------
(***************************************************************************)
(* What the job API promises: one job at a time, in the order of           *)
(* acceptance, and no accepted job is lost or run twice.  JobController    *)
(* (the mutex-protected ControllerStatus, the dispatcher task and the      *)
(* completion listener of recallai/src/controller) is shown to implement   *)
(* this.                                                                   *)
(***************************************************************************)
EXTENDS Naturals, Sequences

CONSTANTS Jobs,      \* the ids the server may give to accepted jobs
          NoJob,     \* the empty slot (Rust's None)
          MaxQueued  \* max_queued_jobs

VARIABLES waiting,   \* accepted, not started, oldest first
          active,    \* the job being transcoded, or NoJob
          done       \* the finished jobs

vars == <<waiting, active, done>>

Pending(j) == j = active \/ \E i \in 1..Len(waiting) : waiting[i] = j

Init ==
    /\ waiting = <<>>
    /\ active = NoJob
    /\ done = {}

\* An idle server starts the job at once.
SubmitIdle(j) ==
    /\ j \notin done /\ ~Pending(j)
    /\ active = NoJob /\ waiting = <<>>
    /\ active' = j
    /\ UNCHANGED <<waiting, done>>

\* A busy one queues it, within the bound.
SubmitBusy(j) ==
    /\ j \notin done /\ ~Pending(j)
    /\ active # NoJob /\ Len(waiting) < MaxQueued
    /\ waiting' = Append(waiting, j)
    /\ UNCHANGED <<active, done>>

\* The active job ends and the oldest waiting one takes its place.
Finish ==
    /\ active # NoJob
    /\ done' = done \cup {active}
    /\ \/ /\ waiting = <<>>
          /\ active' = NoJob /\ waiting' = waiting
       \/ /\ waiting # <<>>
          /\ active' = Head(waiting) /\ waiting' = Tail(waiting)

Next == Finish \/ \E j \in Jobs : SubmitIdle(j) \/ SubmitBusy(j)

Spec == Init /\ [][Next]_vars
=============================================================================
