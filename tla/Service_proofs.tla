---------------------------- MODULE Service_proofs ----------------------------
(***************************************************************************)
(* Safety of the job controller, for every set of jobs, queue bound,       *)
(* channel capacity and outcome of a job; then of the service, which keeps *)
(* what the controller and the ring keep, for every size of an input,      *)
(* number of workers and fault.                                            *)
(*                                                                         *)
(* The first part speaks of JobController alone (Spec, Init, Next, vars).  *)
(*                                                                         *)
(* In the second, a step of the service is a step of the controller, or    *)
(* one of the ring, or it makes a new ring; so the first part and CallInv  *)
(* of TokioParallel_proofs hold of it as they stand.  What joins them is   *)
(* where the dispatcher is: outside a call the last ring has returned      *)
(* (BetweenInv) and its count of frames is on its way to the client, or    *)
(* there (DoneInv); such a count is that of a ring that has returned       *)
(* (ClaimInv); and the writes left in flight are of jobs booked with all   *)
(* their frames (LeftInv).                                                 *)
(***************************************************************************)
EXTENDS Service, SequenceTheorems, TLAPS

-----------------------------------------------------------------------------
(* The controller, the dispatcher and the listener. *)

USE IdsAssumption, BoundsAssumption, EnvAssumption

JobStatuses == {"NONE", "QUEUED", "RUNNING", "COMPLETED"}

\* What try_dispatch_async does to the slot, the queue and the statuses.
DispatchEffect(q, r, st) ==
    \/ /\ r = NoJob /\ Len(q) \in Nat \ {0}
       /\ running' = q[1] /\ running' \in Jobs
       /\ sending' = running'
       /\ queued' \in Seq(Jobs)
       /\ Len(queued') = Len(q) - 1
       /\ \A i \in 1..Len(queued') : queued'[i] = q[i + 1]
       /\ status' = [st EXCEPT ![running'] = "RUNNING"]
    \/ /\ r # NoJob \/ q = <<>>
       /\ running' = r /\ sending' = NoJob
       /\ queued' = q /\ status' = st

LEMMA TryDispatchFacts ==
  ASSUME NEW q \in Seq(Jobs), NEW r \in Jobs \cup {NoJob},
         NEW st \in [Jobs -> JobStatuses], TryDispatch(q, r, st)
  PROVE  DispatchEffect(q, r, st)
<1> USE DEF DispatchEffect
<1>1. CASE r = NoJob /\ q # <<>>
  <2>1. /\ Head(q) \in Jobs /\ Head(q) = q[1] /\ Tail(q) \in Seq(Jobs)
        /\ Len(Tail(q)) = Len(q) - 1
        /\ \A i \in 1..Len(Tail(q)) : Tail(q)[i] = q[i + 1]
    BY <1>1, HeadTailProperties
  <2>2. Len(q) \in Nat \ {0}
    BY <1>1
  <2> QED
    BY <1>1, <2>1, <2>2 DEF TryDispatch
<1>2. CASE ~(r = NoJob /\ q # <<>>)
  BY <1>2 DEF TryDispatch
<1> QED
  BY <1>1, <1>2

LEMMA TryDispatchTypes ==
  ASSUME NEW q \in Seq(Jobs), NEW r \in Jobs \cup {NoJob},
         NEW st \in [Jobs -> JobStatuses], TryDispatch(q, r, st)
  PROVE  /\ queued' \in Seq(Jobs)
         /\ running' \in Jobs \cup {NoJob}
         /\ status' \in [Jobs -> JobStatuses]
         /\ sending' \in Jobs \cup {NoJob}
<1>1. DispatchEffect(q, r, st)
  BY TryDispatchFacts
<1> QED
  BY <1>1 DEF DispatchEffect, JobStatuses

\* Removing the job at index k keeps the queue a sequence of jobs.
LEMMA RemoveType ==
  ASSUME NEW q \in Seq(Jobs), NEW k \in 1..Len(q)
  PROVE  SubSeq(q, 1, k - 1) \o SubSeq(q, k + 1, Len(q)) \in Seq(Jobs)
<1>1. SubSeq(q, 1, k - 1) \in Seq(Jobs)
  BY SubSeqProperties
<1>2. SubSeq(q, k + 1, Len(q)) \in Seq(Jobs)
  BY SubSeqProperties
<1> QED
  BY <1>1, <1>2, ConcatProperties

LEMMA TypeInit ==
  ASSUME Init
  PROVE  TypeOK
BY DEF Init, TypeOK, Ids, NoDone, DispIdle

LEMMA TypeStep ==
  ASSUME TypeOK, [Next]_vars
  PROVE  TypeOK'
<1> USE DEF TypeOK, ctlVars, lockVars, pipeVars, repVars
<1>1. ASSUME NEW j \in Jobs, CreateRejected(j) PROVE TypeOK'
  BY <1>1 DEF CreateRejected
<1>2. ASSUME NEW j \in Jobs, CreateJob(j) PROVE TypeOK'
  <2> DEFINE st == [status EXCEPT ![j] = "QUEUED"]
  <2>1. Append(queued, j) \in Seq(Jobs)
    BY AppendProperties
  <2>2. st \in [Jobs -> JobStatuses]
    BY DEF JobStatuses
  <2>3. TryDispatch(Append(queued, j), running, st)
    BY <1>2 DEF CreateJob
  <2> HIDE DEF st
  <2>4. /\ queued' \in Seq(Jobs)
        /\ running' \in Jobs \cup {NoJob}
        /\ status' \in [Jobs -> JobStatuses]
        /\ sending' \in Jobs \cup {NoJob}
    BY <2>1, <2>2, <2>3, TryDispatchTypes
  <2>5. /\ polled' \in [Jobs -> {"NONE", "REJECTED", "QUEUED", "RUNNING", "COMPLETED"}]
        /\ acking' \in Jobs \cup {NoJob}
    BY <1>2 DEF CreateJob
  <2> QED
    BY <1>2, <2>1, <2>4, <2>5 DEF CreateJob, JobStatuses
<1>3. CASE SendJob
  <2>1. toService' \in Seq(Jobs)
    BY <1>3, AppendProperties DEF SendJob, LockFree
  <2>2. polled' \in [Jobs -> {"NONE", "REJECTED", "QUEUED", "RUNNING", "COMPLETED"}]
    BY <1>3 DEF SendJob
  <2> QED
    BY <1>3, <2>1, <2>2 DEF SendJob
<1>4. ASSUME NEW j \in Jobs, JobStatus(j) PROVE TypeOK'
  BY <1>4 DEF JobStatus, KnownIds
<1>5. ASSUME NEW all \in BOOLEAN, JobList(all) PROVE TypeOK'
  BY <1>5 DEF JobList
<1>6. ASSUME NEW i \in Ids, CancelRunning(i) PROVE TypeOK'
  BY <1>6 DEF CancelRunning, Ids
<1>7. ASSUME NEW i \in Ids, CancelQueued(i) PROVE TypeOK'
  <2>1. queued' \in Seq(Jobs)
    <3>1. CASE UNCHANGED queued
      BY <3>1
    <3>2. CASE \E k \in 1..Len(queued) :
                 queued' = SubSeq(queued, 1, k - 1)
                             \o SubSeq(queued, k + 1, Len(queued))
      BY <3>2, RemoveType
    <3> QED
      BY <1>7, <3>1, <3>2 DEF CancelQueued
  <2>2. cancelReply' \in [Ids -> {"NONE", "DELETED", "NOTFOUND"}]
    <3>1. \/ cancelReply' = [cancelReply EXCEPT ![i] = "DELETED"]
          \/ cancelReply' = [cancelReply EXCEPT ![i] = "NOTFOUND"]
      BY <1>7 DEF CancelQueued
    <3>2. cancelReply \in [Ids -> {"NONE", "DELETED", "NOTFOUND"}]
      OBVIOUS
    <3> QED
      BY ONLY <3>1, <3>2
  <2> QED
    BY <1>7, <2>1, <2>2 DEF CancelQueued
<1>8. CASE DispRecv
  <2>1. Head(toService) \in Jobs /\ Tail(toService) \in Seq(Jobs)
    BY <1>8, HeadTailProperties DEF DispRecv
  <2> QED
    BY <1>8, <2>1 DEF DispRecv
<1>9. CASE DispSkip
  BY <1>9 DEF DispSkip, DispIdle
<1>10. CASE DispStart
  BY <1>10 DEF DispStart
<1>11. ASSUME NEW o \in {"ok", "err"}, ExecReturn(o) PROVE TypeOK'
  BY <1>11 DEF ExecReturn
<1>12. CASE ExecPanic
  BY <1>12 DEF ExecPanic, DispIdle
<1>13. CASE ExecHang
  BY <1>13 DEF ExecHang, DispIdle
<1>14. CASE Report
  BY <1>14 DEF Report, DispIdle, Completion
<1>15. CASE ListenerRecv
  BY <1>15 DEF ListenerRecv
<1>16. CASE ListenerExit
  BY <1>16 DEF ListenerExit
<1>17. CASE CompleteJob
  <2> DEFINE st == IF listener.job = running
                   THEN [status EXCEPT ![running] = "COMPLETED"]
                   ELSE status
  <2>1. listener.job \in Jobs /\ listener.frames \in {"all", "zero"}
    BY <1>17 DEF CompleteJob, Completion
  <2>2. st \in [Jobs -> JobStatuses]
    BY <2>1 DEF JobStatuses
  <2>3. TryDispatch(queued, NoJob, st)
    BY <1>17 DEF CompleteJob
  <2> HIDE DEF st
  <2>4. /\ queued' \in Seq(Jobs)
        /\ running' \in Jobs \cup {NoJob}
        /\ status' \in [Jobs -> JobStatuses]
        /\ sending' \in Jobs \cup {NoJob}
    BY <2>2, <2>3, TryDispatchTypes
  <2>5. completed' \in SUBSET Jobs
    BY <1>17, <2>1 DEF CompleteJob
  <2>6. frames' \in [Jobs -> {"unknown", "all", "zero"}]
    BY <1>17, <2>1 DEF CompleteJob
  <2> QED
    BY <1>17, <2>4, <2>5, <2>6 DEF CompleteJob, JobStatuses
<1>18. CASE UNCHANGED vars
  BY <1>18 DEF vars
<1> QED
  BY <1>1, <1>2, <1>3, <1>4, <1>5, <1>6, <1>7, <1>8, <1>9, <1>10, <1>11,
     <1>12, <1>13, <1>14, <1>15, <1>16, <1>17, <1>18
     DEF Next, Client, Dispatcher, Listener

\* Every variable keeps its type.
THEOREM TypeCorrect == Spec => []TypeOK
<1>1. Init => TypeOK
  BY TypeInit
<1>2. TypeOK /\ [Next]_vars => TypeOK'
  BY TypeStep
<1> QED
  BY <1>1, <1>2, PTL DEF Spec

-----------------------------------------------------------------------------
(* The inductive invariant.                                                *)

DispBusy == disp.pc \in {"check", "exec", "report"}
Booking == listener \in Completion

\* SingleFlight, stage by stage: a job at one stage of the pipeline is the
\* running job, and the stages behind it are empty.
FlightInv ==
    /\ sending # NoJob => /\ sending = running
                          /\ Len(toService) = 0 /\ ~DispBusy
                          /\ Len(finished) = 0 /\ ~Booking
    /\ Len(toService) > 0 => /\ Len(toService) = 1 /\ toService[1] = running
                             /\ ~DispBusy /\ Len(finished) = 0 /\ ~Booking
    /\ DispBusy => disp.job = running /\ Len(finished) = 0 /\ ~Booking
    /\ Len(finished) > 0 => /\ Len(finished) = 1 /\ finished[1].job = running
                            /\ ~Booking
    /\ Booking => listener.job = running

\* An empty slot means an empty queue, even at the await of the lock holder.
QueueInv == running = NoJob => Len(queued) = 0

\* Each record carries the status of the place it is in, and is in one place.
StatusInv ==
    /\ running # NoJob => status[running] = "RUNNING"
    /\ \A i \in 1..Len(queued) : status[queued[i]] = "QUEUED"
    /\ \A i, k \in 1..Len(queued) : queued[i] = queued[k] => i = k
    /\ \A j \in completed : status[j] = "COMPLETED"

\* A client is never told more than the record says.
PolledInv ==
    /\ \A j \in Jobs : Rank[polled[j]] <= Rank[status[j]]
    /\ acking # NoJob => /\ sending # NoJob
                         /\ polled[acking] = "NONE" /\ status[acking] # "NONE"

\* With nothing in flight and a dispatcher waiting, the slot's flag is down.
StrandInv ==
    (/\ running # NoJob /\ LockFree /\ Len(toService) = 0
     /\ disp.pc = "recv" /\ Len(finished) = 0 /\ ~Booking)
        => ~flag[running]

IInv == FlightInv /\ QueueInv /\ StatusInv /\ PolledInv /\ StrandInv

\* The empty states of the listener are not completions.
LEMMA NotCompletion == NoDone \notin Completion /\ Gone \notin Completion
  BY DEF NoDone, Gone, Completion

\* The queue and the statuses create_job_async dispatches from.
LEMMA CreateEffect ==
  ASSUME TypeOK, NEW j \in Jobs, CreateJob(j)
  PROVE  /\ Append(queued, j) \in Seq(Jobs)
         /\ [status EXCEPT ![j] = "QUEUED"] \in [Jobs -> JobStatuses]
         /\ Len(Append(queued, j)) = Len(queued) + 1
         /\ \A i \in 1..Len(queued) : Append(queued, j)[i] = queued[i]
         /\ Append(queued, j)[Len(queued) + 1] = j
         /\ DispatchEffect(Append(queued, j), running,
                           [status EXCEPT ![j] = "QUEUED"])
<1>1. Append(queued, j) \in Seq(Jobs)
  BY AppendProperties DEF TypeOK
<1>2. [status EXCEPT ![j] = "QUEUED"] \in [Jobs -> JobStatuses]
  BY DEF TypeOK, JobStatuses
<1>3. /\ Len(Append(queued, j)) = Len(queued) + 1
      /\ \A i \in 1..Len(queued) : Append(queued, j)[i] = queued[i]
      /\ Append(queued, j)[Len(queued) + 1] = j
  BY AppendProperties DEF TypeOK
<1>4. TryDispatch(Append(queued, j), running, [status EXCEPT ![j] = "QUEUED"])
  BY DEF CreateJob
<1>5. DispatchEffect(Append(queued, j), running, [status EXCEPT ![j] = "QUEUED"])
  BY <1>1, <1>2, <1>4, TryDispatchFacts DEF TypeOK
<1> QED
  BY <1>1, <1>2, <1>3, <1>5

\* The queue and the statuses complete_job_async dispatches from: in the
\* reachable states the completion is the running job's.
BookedStatus == [status EXCEPT ![running] = "COMPLETED"]

LEMMA CompleteEffect ==
  ASSUME TypeOK, FlightInv, CompleteJob
  PROVE  /\ running \in Jobs /\ listener.job = running
         /\ listener.frames \in {"all", "zero"}
         /\ BookedStatus \in [Jobs -> JobStatuses]
         /\ completed' = completed \cup {running}
         /\ DispatchEffect(queued, NoJob, BookedStatus)
<1>1. listener.job = running /\ running \in Jobs /\ listener.frames \in {"all", "zero"}
  BY DEF CompleteJob, Completion, FlightInv, Booking
<1>2. BookedStatus \in [Jobs -> JobStatuses]
  BY <1>1 DEF TypeOK, JobStatuses, BookedStatus
<1>3. TryDispatch(queued, NoJob, BookedStatus)
  BY <1>1 DEF CompleteJob, BookedStatus
<1>4. DispatchEffect(queued, NoJob, BookedStatus)
  BY <1>2, <1>3, TryDispatchFacts DEF TypeOK
<1>5. completed' = completed \cup {running}
  BY <1>1 DEF CompleteJob
<1> QED
  BY <1>1, <1>2, <1>4, <1>5

\* Single flight is preserved.
LEMMA FlightStep ==
  ASSUME TypeOK, TypeOK', IInv, [Next]_vars
  PROVE  FlightInv'
<1> USE DEF IInv, FlightInv, DispBusy, Booking, TypeOK, ctlVars, lockVars, pipeVars, repVars, LockFree
<1>1. ASSUME NEW j \in Jobs, CreateRejected(j) PROVE FlightInv'
  BY <1>1 DEF CreateRejected
<1>2. ASSUME NEW j \in Jobs, CreateJob(j) PROVE FlightInv'
  <2>1. DispatchEffect(Append(queued, j), running, [status EXCEPT ![j] = "QUEUED"])
    BY <1>2, CreateEffect
  <2>2. UNCHANGED <<toService, disp, finished, listener>> /\ LockFree
    BY <1>2 DEF CreateJob
  <2>3. Booking => listener.job \in Jobs
    BY DEF Completion
  <2>4. Len(finished) > 0 => finished[1].job \in Jobs
    <3>1. Len(finished) > 0 => finished[1] \in Completion
      OBVIOUS
    <3> QED
      BY <3>1 DEF Completion
  <2>5. Len(toService) > 0 => toService[1] \in Jobs
    OBVIOUS
  <2>6. CASE running = NoJob
    BY <2>1, <2>2, <2>3, <2>4, <2>5, <2>6 DEF DispatchEffect
  <2>7. CASE running # NoJob
    BY <2>1, <2>2, <2>7 DEF DispatchEffect
  <2> QED
    BY <2>6, <2>7
<1>3. CASE SendJob
  BY <1>3 DEF SendJob
<1>4. ASSUME NEW j \in Jobs, JobStatus(j) PROVE FlightInv'
  BY <1>4 DEF JobStatus
<1>5. ASSUME NEW all \in BOOLEAN, JobList(all) PROVE FlightInv'
  BY <1>5 DEF JobList
<1>6. ASSUME NEW i \in Ids, CancelRunning(i) PROVE FlightInv'
  BY <1>6 DEF CancelRunning
<1>7. ASSUME NEW i \in Ids, CancelQueued(i) PROVE FlightInv'
  BY <1>7 DEF CancelQueued
<1>8. CASE DispRecv
  BY <1>8 DEF DispRecv
<1>9. CASE DispSkip
  BY <1>9 DEF DispSkip, DispIdle
<1>10. CASE DispStart
  BY <1>10 DEF DispStart
<1>11. ASSUME NEW o \in {"ok", "err"}, ExecReturn(o) PROVE FlightInv'
  BY <1>11 DEF ExecReturn
<1>12. CASE ExecPanic
  BY <1>12 DEF ExecPanic
<1>13. CASE ExecHang
  BY <1>13 DEF ExecHang
<1>14. CASE Report
  BY <1>14, AppendProperties DEF Report, DispIdle
<1>15. CASE ListenerRecv
  BY <1>15 DEF ListenerRecv
<1>16. CASE ListenerExit
  BY <1>16, NotCompletion DEF ListenerExit
<1>17. CASE CompleteJob
  <2>1. DispatchEffect(queued, NoJob, BookedStatus)
    BY <1>17, CompleteEffect
  <2>2. UNCHANGED <<toService, disp, finished>> /\ listener' = NoDone
    BY <1>17 DEF CompleteJob
  <2>3. Booking /\ LockFree
    BY <1>17 DEF CompleteJob
  <2> QED
    BY <2>1, <2>2, <2>3, NotCompletion DEF DispatchEffect
<1>18. CASE UNCHANGED vars
  BY <1>18 DEF vars
<1> QED
  BY <1>1, <1>2, <1>3, <1>4, <1>5, <1>6, <1>7, <1>8, <1>9,
     <1>10, <1>11, <1>12, <1>13, <1>14, <1>15, <1>16, <1>17, <1>18
     DEF Next, Client, Dispatcher, Listener

\* The only steps that move a job are create, complete and (it never finds
\* one) the cancel of a queued job.
LEMMA OtherSteps ==
  ASSUME [Next]_vars
  PROVE  \/ \E j \in Jobs : CreateJob(j)
         \/ \E i \in Ids : CancelQueued(i)
         \/ CompleteJob
         \/ UNCHANGED ctlVars
  BY DEF Next, Client, Dispatcher, Listener, CreateRejected, SendJob, JobStatus,
         JobList, CancelRunning, DispRecv, DispSkip, DispStart, ExecReturn,
         ExecPanic, ExecHang, Report, ListenerRecv, ListenerExit, vars

\* cancel_job never finds a queued job: with an empty slot the queue is empty.
LEMMA CancelQueuedFindsNothing ==
  ASSUME TypeOK, QueueInv, NEW i \in Ids, CancelQueued(i)
  PROVE  UNCHANGED <<ctlVars, lockVars, pipeVars, polled, flag>>
  BY DEF CancelQueued, QueueInv, TypeOK, ctlVars

\* An empty slot keeps meaning an empty queue.
LEMMA QueueStep ==
  ASSUME TypeOK, TypeOK', IInv, [Next]_vars
  PROVE  QueueInv'
<1> USE DEF IInv
<1>1. ASSUME NEW j \in Jobs, CreateJob(j) PROVE QueueInv'
  <2>1. DispatchEffect(Append(queued, j), running, [status EXCEPT ![j] = "QUEUED"])
    BY <1>1, CreateEffect
  <2>2. Append(queued, j) # <<>>
    <3>1. Len(Append(queued, j)) = Len(queued) + 1 /\ Len(queued) \in Nat
      BY CreateEffect, <1>1 DEF TypeOK
    <3> QED
      BY <3>1
  <2> QED
    BY <2>1, <2>2 DEF DispatchEffect, QueueInv
<1>2. ASSUME NEW i \in Ids, CancelQueued(i) PROVE QueueInv'
  BY <1>2, CancelQueuedFindsNothing DEF QueueInv, ctlVars
<1>3. CASE CompleteJob
  <2>1. DispatchEffect(queued, NoJob, BookedStatus)
    BY <1>3, CompleteEffect
  <2> QED
    BY <2>1 DEF DispatchEffect, QueueInv
<1>4. CASE UNCHANGED ctlVars
  BY <1>4 DEF QueueInv, ctlVars
<1> QED
  BY <1>1, <1>2, <1>3, <1>4, OtherSteps

\* Records keep the status of their place, and stay in one place.
LEMMA StatusStep ==
  ASSUME TypeOK, TypeOK', IInv, [Next]_vars
  PROVE  StatusInv'
<1> USE DEF IInv
<1>1. ASSUME NEW j \in Jobs, CreateJob(j) PROVE StatusInv'
  <2> DEFINE q == Append(queued, j)
             st == [status EXCEPT ![j] = "QUEUED"]
  <2>1. DispatchEffect(q, running, st)
    BY <1>1, CreateEffect
  <2>2. /\ q \in Seq(Jobs) /\ st \in [Jobs -> JobStatuses]
        /\ Len(q) = Len(queued) + 1
        /\ \A i \in 1..Len(queued) : q[i] = queued[i]
        /\ q[Len(queued) + 1] = j
    BY <1>1, CreateEffect
  <2>3. status[j] = "NONE" /\ completed' = completed
    BY <1>1 DEF CreateJob, Fresh
  <2>4. /\ \A i \in 1..Len(q) : st[q[i]] = "QUEUED"
        /\ \A i, k \in 1..Len(q) : q[i] = q[k] => i = k
        /\ \A c \in completed : st[c] = "COMPLETED" /\ c \in Jobs
        /\ running # NoJob => st[running] = "RUNNING"
    BY <2>2, <2>3 DEF StatusInv, TypeOK
  <2> HIDE DEF q, st
  <2>5. q = <<>> => Len(q) = 0
    OBVIOUS
  <2> QED
    BY SMTT(30), <2>1, <2>2, <2>3, <2>4, <2>5 DEF DispatchEffect, StatusInv, JobStatuses
<1>2. ASSUME NEW i \in Ids, CancelQueued(i) PROVE StatusInv'
  BY <1>2, CancelQueuedFindsNothing DEF StatusInv, ctlVars
<1>3. CASE CompleteJob
  <2>1. /\ DispatchEffect(queued, NoJob, BookedStatus)
        /\ BookedStatus \in [Jobs -> JobStatuses]
        /\ completed' = completed \cup {running} /\ running \in Jobs
    BY <1>3, CompleteEffect
  <2>2. /\ \A i \in 1..Len(queued) : BookedStatus[queued[i]] = "QUEUED"
        /\ \A i, k \in 1..Len(queued) : queued[i] = queued[k] => i = k
        /\ \A c \in completed' : BookedStatus[c] = "COMPLETED" /\ c \in Jobs
    BY <2>1 DEF StatusInv, TypeOK, BookedStatus
  <2>3. queued \in Seq(Jobs)
    BY DEF TypeOK
  <2>4. CASE running' = NoJob
    BY <2>1, <2>2, <2>3, <2>4 DEF DispatchEffect, StatusInv
  <2>5. CASE running' # NoJob
    <3>1. /\ Len(queued) \in Nat \ {0} /\ running' = queued[1]
          /\ Len(queued') = Len(queued) - 1
          /\ \A i \in 1..Len(queued') : queued'[i] = queued[i + 1]
          /\ status' = [BookedStatus EXCEPT ![running'] = "RUNNING"]
          /\ running' \in Jobs
      BY <2>1, <2>5 DEF DispatchEffect
    <3>2. \A j \in Jobs : status'[j] = IF j = running' THEN "RUNNING"
                                                     ELSE BookedStatus[j]
      BY <3>1, <2>1
    <3>3. \A i \in 1..Len(queued) : queued[i] \in Jobs
      BY <2>3
    <3>4. status'[running'] = "RUNNING"
      BY <3>1, <3>2
    <3>5. \A i \in 1..Len(queued') : status'[queued'[i]] = "QUEUED"
      BY <3>1, <3>2, <3>3, <2>2, <2>3
    <3>6. \A i, k \in 1..Len(queued') : queued'[i] = queued'[k] => i = k
      BY <3>1, <2>2, <2>3
    <3>7. \A c \in completed' : status'[c] = "COMPLETED"
      BY <3>1, <3>2, <2>2
    <3> QED
      BY <3>4, <3>5, <3>6, <3>7 DEF StatusInv
  <2> QED
    BY <2>4, <2>5
<1>4. CASE UNCHANGED ctlVars
  BY <1>4 DEF StatusInv, ctlVars
<1> QED
  BY <1>1, <1>2, <1>3, <1>4, OtherSteps

\* A record's status only moves forward.
StatusForward == \A j \in Jobs : Rank[status[j]] <= Rank[status'[j]]

LEMMA StatusForwardStep ==
  ASSUME TypeOK, TypeOK', IInv, [Next]_vars
  PROVE  StatusForward
<1> USE DEF IInv
<1>0. /\ Rank["NONE"] = 0 /\ Rank["QUEUED"] = 1
      /\ Rank["RUNNING"] = 2 /\ Rank["COMPLETED"] = 3
  BY DEF Rank
<1>r. \A k \in Jobs : status[k] \in JobStatuses /\ Rank[status[k]] \in Nat
  BY <1>0 DEF TypeOK, JobStatuses
<1>1. ASSUME NEW j \in Jobs, CreateJob(j) PROVE StatusForward
  <2> DEFINE q == Append(queued, j)
             st == [status EXCEPT ![j] = "QUEUED"]
  <2>1. DispatchEffect(q, running, st)
    BY <1>1, CreateEffect
  <2>2. /\ q \in Seq(Jobs) /\ st \in [Jobs -> JobStatuses]
        /\ Len(q) = Len(queued) + 1
        /\ \A i \in 1..Len(queued) : q[i] = queued[i]
        /\ q[Len(queued) + 1] = j
    BY <1>1, CreateEffect
  <2>3. status[j] = "NONE"
    BY <1>1 DEF CreateJob, Fresh
  <2>4. \A i \in 1..Len(q) : st[q[i]] = "QUEUED"
    BY <2>2 DEF StatusInv, TypeOK
  <2>5. \A k \in Jobs : Rank[status[k]] <= Rank[st[k]]
    <3>1. \A k \in Jobs : st[k] = IF k = j THEN "QUEUED" ELSE status[k]
      BY DEF TypeOK
    <3> QED
      BY <3>1, <2>3, <1>0, <1>r
  <2>6. \A k \in Jobs : st[k] \in JobStatuses /\ status[k] \in JobStatuses
    BY <2>2 DEF TypeOK, JobStatuses
  <2> HIDE DEF q, st
  <2>7. CASE status' = st
    BY <2>5, <2>7 DEF StatusForward
  <2>8. CASE Len(q) \in Nat \ {0} /\ status' = [st EXCEPT ![q[1]] = "RUNNING"]
    <3>1. q[1] \in Jobs /\ st[q[1]] = "QUEUED"
      BY <2>2, <2>4, <2>8
    <3>2. \A k \in Jobs : status'[k] = IF k = q[1] THEN "RUNNING" ELSE st[k]
      BY <2>2, <2>8, <3>1
    <3>3. Rank[status[q[1]]] <= 1
      BY <3>1, <2>5, <1>0
    <3>4. \A k \in Jobs : Rank[status[k]] \in Nat
      BY <2>6, <1>0 DEF JobStatuses
    <3> QED
      BY <2>5, <3>1, <3>2, <3>3, <3>4, <1>0 DEF StatusForward
  <2> QED
    BY <2>1, <2>7, <2>8 DEF DispatchEffect
<1>2. ASSUME NEW i \in Ids, CancelQueued(i) PROVE StatusForward
  <2>1. status' = status
    BY <1>2, CancelQueuedFindsNothing DEF ctlVars
  <2> QED
    BY <2>1, <1>r DEF StatusForward
<1>3. CASE CompleteJob
  <2>1. /\ DispatchEffect(queued, NoJob, BookedStatus)
        /\ BookedStatus \in [Jobs -> JobStatuses]
        /\ running \in Jobs
    BY <1>3, CompleteEffect
  <2>2. \A k \in Jobs : Rank[status[k]] <= Rank[BookedStatus[k]]
    <3>1. \A k \in Jobs : BookedStatus[k] = IF k = running THEN "COMPLETED"
                                                        ELSE status[k]
      BY <2>1 DEF BookedStatus, TypeOK
    <3> QED
      BY <3>1, <2>1, <1>0, <1>r DEF JobStatuses
  <2>3. CASE status' = BookedStatus
    BY <2>2, <2>3 DEF StatusForward
  <2>4. CASE Len(queued) \in Nat \ {0}
             /\ status' = [BookedStatus EXCEPT ![queued[1]] = "RUNNING"]
    <3>1. queued[1] \in Jobs /\ status[queued[1]] = "QUEUED"
      BY <2>4 DEF TypeOK, StatusInv
    <3>2. \A k \in Jobs : status'[k] = IF k = queued[1] THEN "RUNNING"
                                                        ELSE BookedStatus[k]
      BY <2>1, <2>4, <3>1
    <3> QED
      BY <2>2, <3>1, <3>2, <1>0 DEF StatusForward
  <2> QED
    BY <2>1, <2>3, <2>4 DEF DispatchEffect
<1>4. CASE UNCHANGED ctlVars
  <2>1. status' = status
    BY <1>4 DEF ctlVars
  <2> QED
    BY <2>1, <1>r DEF StatusForward
<1> QED
  BY <1>1, <1>2, <1>3, <1>4, OtherSteps

\* Polling replies only move forward, and never past the record.
PolledUp == \A j \in Jobs : Rank[polled[j]] <= Rank[polled'[j]]

LEMMA PolledStep ==
  ASSUME TypeOK, TypeOK', IInv, [Next]_vars
  PROVE  PolledInv' /\ PolledUp
<1> USE DEF IInv
<1> DEFINE Goal == PolledInv' /\ PolledUp
<1>0. /\ Rank["NONE"] = 0 /\ Rank["REJECTED"] = 0 /\ Rank["QUEUED"] = 1
      /\ Rank["RUNNING"] = 2 /\ Rank["COMPLETED"] = 3
  BY DEF Rank
<1>t. \A k \in Jobs :
        /\ status[k] \in JobStatuses /\ status'[k] \in JobStatuses
        /\ polled[k] \in {"NONE", "REJECTED", "QUEUED", "RUNNING", "COMPLETED"}
  BY DEF TypeOK, JobStatuses
<1>r. \A k \in Jobs : Rank[status[k]] \in Nat /\ Rank[polled[k]] \in Nat
  BY <1>0, <1>t DEF JobStatuses
<1>s. \A k \in Jobs : Rank[status'[k]] \in Nat
  BY <1>0, <1>t DEF JobStatuses
<1>n. \A k \in Jobs : status'[k] # "NONE" => 1 <= Rank[status'[k]]
  BY <1>0, <1>t DEF JobStatuses
<1>f. \A k \in Jobs : Rank[status[k]] <= Rank[status'[k]]
  BY StatusForwardStep DEF StatusForward
<1>q. \A k \in Jobs : Rank[polled[k]] <= Rank[status[k]]
  BY DEF PolledInv
<1>p. \A k \in Jobs : Rank[polled[k]] <= Rank[status'[k]]
  <2> SUFFICES ASSUME NEW k \in Jobs PROVE Rank[polled[k]] <= Rank[status'[k]]
    OBVIOUS
  <2>1. Rank[polled[k]] \in Nat /\ Rank[status[k]] \in Nat /\ Rank[status'[k]] \in Nat
    BY <1>r, <1>s
  <2>2. Rank[polled[k]] <= Rank[status[k]] /\ Rank[status[k]] <= Rank[status'[k]]
    BY <1>f, <1>q
  <2> QED
    BY <2>1, <2>2
<1> DEFINE Between(k) == /\ Rank[polled[k]] <= Rank[polled'[k]]
                         /\ Rank[polled'[k]] <= Rank[status'[k]]
           Ack == acking' # NoJob => /\ sending' # NoJob
                                     /\ polled'[acking'] = "NONE"
                                     /\ status'[acking'] # "NONE"
<1>g. (\A k \in Jobs : Between(k)) /\ Ack => Goal
  BY DEF PolledInv, PolledUp
<1>1. ASSUME NEW j \in Jobs, CreateRejected(j) PROVE Goal
  <2>1. /\ polled[j] = "NONE" /\ UNCHANGED <<status, lockVars>>
        /\ \A k \in Jobs : polled'[k] = IF k = j THEN "REJECTED" ELSE polled[k]
        /\ acking = NoJob
    BY <1>1 DEF CreateRejected, Fresh, TypeOK, ctlVars, lockVars, LockFree, PolledInv
  <2> QED
    BY <2>1, <1>0, <1>r, <1>p, <1>n, <1>s, <1>g DEF PolledInv, PolledUp, lockVars
<1>2. ASSUME NEW j \in Jobs, CreateJob(j) PROVE Goal
  <2>1. polled[j] = "NONE"
    BY <1>2 DEF CreateJob, Fresh
  <2>2. status'[j] # "NONE"
    <3>1. /\ DispatchEffect(Append(queued, j), running, [status EXCEPT ![j] = "QUEUED"])
          /\ [status EXCEPT ![j] = "QUEUED"] \in [Jobs -> JobStatuses]
      BY <1>2, CreateEffect
    <3>2. [status EXCEPT ![j] = "QUEUED"][j] = "QUEUED"
      BY DEF TypeOK
    <3> QED
      BY <3>1, <3>2 DEF DispatchEffect
  <2>3. CASE sending' = NoJob
    <3>1. /\ acking' = NoJob
          /\ \A k \in Jobs : polled'[k] = IF k = j THEN "QUEUED" ELSE polled[k]
      BY <1>2, <2>3 DEF CreateJob, TypeOK
    <3> QED
      BY <3>1, <2>1, <2>2, <1>0, <1>r, <1>p, <1>n, <1>s, <1>g DEF PolledInv, PolledUp
  <2>4. CASE sending' # NoJob
    <3>1. acking' = j /\ polled' = polled
      BY <1>2, <2>4 DEF CreateJob
    <3> QED
      BY <3>1, <2>1, <2>2, <2>4, <1>0, <1>r, <1>p, <1>n, <1>s, <1>g DEF PolledInv, PolledUp
  <2> QED
    BY <2>3, <2>4
<1>3. CASE SendJob
  <2>1. acking' = NoJob /\ status' = status
    BY <1>3 DEF SendJob, ctlVars
  <2>2. CASE acking = NoJob
    <3>1. polled' = polled
      BY <1>3, <2>2 DEF SendJob
    <3> QED
      BY <3>1, <2>1, <1>0, <1>r, <1>p, <1>n, <1>s, <1>g DEF PolledInv, PolledUp
  <2>3. CASE acking # NoJob
    <3>1. acking \in Jobs /\ polled[acking] = "NONE" /\ status[acking] # "NONE"
      BY <2>3 DEF PolledInv, TypeOK
    <3>2. PICK v \in {"REJECTED", "QUEUED"} : polled' = [polled EXCEPT ![acking] = v]
      BY <1>3, <2>3 DEF SendJob
    <3>3. \A k \in Jobs : polled'[k] = IF k = acking THEN v ELSE polled[k]
      BY <3>2 DEF TypeOK
    <3> QED
      BY <3>1, <3>3, <2>1, <1>0, <1>r, <1>p, <1>n, <1>s, <1>g DEF PolledInv, PolledUp
  <2> QED
    BY <2>2, <2>3
<1>4. ASSUME NEW j \in Jobs, JobStatus(j) PROVE Goal
  <2>1. /\ \A k \in Jobs : polled'[k] = IF k = j THEN status[k] ELSE polled[k]
        /\ UNCHANGED <<status, lockVars>> /\ acking = NoJob
    BY <1>4 DEF JobStatus, TypeOK, ctlVars, lockVars, LockFree, PolledInv
  <2> QED
    BY <2>1, <1>r, <1>p, <1>n, <1>s, <1>g DEF PolledInv, PolledUp, lockVars
<1>5. ASSUME NEW all \in BOOLEAN, JobList(all) PROVE Goal
  <2>1. /\ \A k \in Jobs : polled'[k] = status[k] \/ polled'[k] = polled[k]
        /\ UNCHANGED <<status, lockVars>> /\ acking = NoJob
    BY <1>5 DEF JobList, ctlVars, lockVars, LockFree, PolledInv
  <2> QED
    BY <2>1, <1>r, <1>p, <1>n, <1>s, <1>g DEF PolledInv, PolledUp, lockVars
<1>6. CASE CompleteJob
  <2>1. polled' = polled /\ acking' = NoJob
    BY <1>6 DEF CompleteJob, repVars
  <2> QED
    BY <2>1, <1>r, <1>p, <1>n, <1>s, <1>g DEF PolledInv, PolledUp
<1>7. CASE UNCHANGED <<polled, lockVars, status>>
  <2>1. UNCHANGED <<polled, acking, sending, status>>
    BY <1>7 DEF lockVars
  <2> QED
    BY <2>1, <1>r, <1>p, <1>n, <1>s, <1>g DEF PolledInv, PolledUp
<1>8. ASSUME NEW i \in Ids, CancelQueued(i) PROVE Goal
  BY <1>7, <1>8, CancelQueuedFindsNothing DEF ctlVars
<1> QED
  BY <1>1, <1>2, <1>3, <1>4, <1>5, <1>6, <1>7, <1>8
     DEF Next, Client, Dispatcher, Listener, CancelRunning, DispRecv, DispSkip,
         DispStart, ExecReturn, ExecPanic, ExecHang, Report, ListenerRecv,
         ListenerExit, vars, ctlVars, repVars

\* A job is left in the slot with nothing in flight only if cancelled.
LEMMA StrandStep ==
  ASSUME TypeOK, TypeOK', IInv, [Next]_vars
  PROVE  StrandInv'
<1> USE DEF IInv, StrandInv, LockFree, DispBusy, Booking
<1>1. ASSUME NEW j \in Jobs, CreateJob(j) PROVE StrandInv'
  <2>1. DispatchEffect(Append(queued, j), running, [status EXCEPT ![j] = "QUEUED"])
    BY <1>1, CreateEffect
  <2>2. /\ status[j] = "NONE" /\ UNCHANGED <<toService, disp, finished, listener>>
        /\ flag' = [flag EXCEPT ![j] = TRUE] /\ LockFree
    BY <1>1 DEF CreateJob, Fresh, pipeVars
  <2>3. CASE running = NoJob
    BY <2>1, <2>3 DEF DispatchEffect
  <2>4. CASE running # NoJob
    <3>1. running' = running /\ running # j /\ running \in Jobs
      BY <2>1, <2>2, <2>4 DEF DispatchEffect, StatusInv, TypeOK
    <3>2. flag'[running] = flag[running]
      BY <2>2, <3>1 DEF TypeOK
    <3> QED
      BY <2>2, <3>1, <3>2
  <2> QED
    BY <2>3, <2>4
<1>2. CASE SendJob
  <2>1. CASE disp.pc = "dead"
    BY <1>2, <2>1 DEF SendJob
  <2>2. CASE disp.pc # "dead"
    <3>1. Len(toService') = Len(toService) + 1 /\ Len(toService) \in Nat
      BY <1>2, <2>2, AppendProperties DEF SendJob, TypeOK
    <3>2. Len(toService') # 0
      BY <3>1
    <3> QED
      BY <3>2
  <2> QED
    BY <2>1, <2>2
<1>3. ASSUME NEW i \in Ids, CancelRunning(i) PROVE StrandInv'
  <2>1. /\ running' = running /\ running \in Jobs
        /\ flag' = [flag EXCEPT ![running] = FALSE]
    BY <1>3 DEF CancelRunning, ctlVars, TypeOK
  <2>2. flag'[running] = FALSE
    BY <2>1 DEF TypeOK
  <2> QED
    BY <2>1, <2>2
<1>4. ASSUME NEW i \in Ids, CancelQueued(i) PROVE StrandInv'
  <2>1. UNCHANGED <<ctlVars, lockVars, pipeVars, flag>>
    BY <1>4, CancelQueuedFindsNothing
  <2> QED
    BY <2>1 DEF ctlVars, lockVars, pipeVars
<1>5. CASE DispSkip
  <2>1. disp.job = running /\ ~flag[disp.job] /\ UNCHANGED <<flag, running>>
    BY <1>5 DEF DispSkip, FlightInv, ctlVars
  <2> QED
    BY <2>1
<1>6. CASE disp'.pc # "recv"
  BY <1>6
<1>7. CASE Report
  <2>1. Len(finished') = Len(finished) + 1 /\ Len(finished) \in Nat
    BY <1>7, AppendProperties DEF Report, TypeOK, Completion
  <2> QED
    BY SMTT(30), <2>1
<1>8. CASE ListenerRecv
  <2>1. listener' \in Completion
    BY <1>8, HeadTailProperties DEF ListenerRecv, TypeOK
  <2> QED
    BY <2>1
<1>9. CASE CompleteJob
  <2>1. DispatchEffect(queued, NoJob, BookedStatus)
    BY <1>9, CompleteEffect
  <2> QED
    BY <2>1 DEF DispatchEffect
<1>10. CASE UNCHANGED <<running, flag, sending, toService, disp, finished, listener>>
  BY <1>10
<1>11. DispRecv \/ DispStart \/ ExecPanic \/ ExecHang => disp'.pc # "recv"
  <2>0. disp \in [pc : {"recv", "check", "exec", "report", "hung", "dead"},
                  job : Jobs \cup {NoJob},
                  frames : {"unknown", "all", "zero"}]
    BY DEF TypeOK
  <2>1. DispRecv => disp'.pc = "check"
    BY <2>0 DEF DispRecv
  <2>3. DispStart => disp'.pc = "exec"
    BY <2>0 DEF DispStart
  <2>2. ExecPanic \/ ExecHang => disp'.pc # "recv"
    BY DEF ExecPanic, ExecHang, DispIdle
  <2> QED
    BY <2>1, <2>2, <2>3
<1>12. ASSUME NEW o \in {"ok", "err"}, ExecReturn(o) PROVE disp'.pc # "recv"
  BY <1>12 DEF ExecReturn, TypeOK
<1>13. ListenerExit => disp'.pc # "recv"
  BY DEF ListenerExit
<1> QED
  BY <1>1, <1>2, <1>3, <1>4, <1>5, <1>6, <1>7, <1>8, <1>9, <1>10, <1>11,
     <1>12, <1>13
     DEF Next, Client, Dispatcher, Listener, CreateRejected, JobStatus, JobList,
         vars, ctlVars, lockVars, pipeVars, repVars

-----------------------------------------------------------------------------
(* The theorems.                                                           *)

LEMMA InvInit ==
  ASSUME Init
  PROVE  IInv
<1>1. FlightInv /\ StrandInv
  BY NotCompletion DEF Init, FlightInv, StrandInv, DispBusy, Booking, DispIdle
<1>2. QueueInv /\ StatusInv
  BY DEF Init, QueueInv, StatusInv
<1>3. PolledInv
  BY DEF Init, PolledInv, Rank
<1> QED
  BY <1>1, <1>2, <1>3 DEF IInv

LEMMA InvStep ==
  ASSUME TypeOK, IInv, [Next]_vars
  PROVE  IInv'
<1>1. TypeOK'
  BY TypeStep
<1> QED
  BY <1>1, FlightStep, QueueStep, StatusStep, PolledStep, StrandStep DEF IInv

\* The inductive invariant holds of every reachable state.
THEOREM Invariant == Spec => []IInv
<1>1. Init => IInv
  BY InvInit
<1>2. TypeOK /\ IInv /\ [Next]_vars => IInv'
  BY InvStep
<1> QED
  BY <1>1, <1>2, TypeCorrect, PTL DEF Spec

\* The pipeline holds nothing, or just the running job.
LEMMA InFlightValue ==
  ASSUME TypeOK, IInv
  PROVE  \/ InFlight = <<running>>
         \/ /\ InFlight = <<>>
            /\ LockFree /\ Len(toService) = 0 /\ ~DispBusy
            /\ Len(finished) = 0 /\ ~Booking
<1> DEFINE a == IF LockFree THEN <<>> ELSE <<sending>>
           b == toService
           c == IF DispBusy THEN <<disp.job>> ELSE <<>>
           d == [i \in 1..Len(finished) |-> finished[i].job]
           e == IF Booking THEN <<listener.job>> ELSE <<>>
<1>1. /\ a = <<>> \/ a = <<running>>
      /\ b = <<>> \/ b = <<running>>
      /\ c = <<>> \/ c = <<running>>
      /\ e = <<>> \/ e = <<running>>
  BY DEF IInv, FlightInv, TypeOK, LockFree
<1>2. d = <<>> \/ d = <<running>>
  <2>1. CASE Len(finished) = 0
    BY <2>1
  <2>2. CASE Len(finished) # 0
    <3>1. Len(finished) = 1 /\ finished[1].job = running
      BY <2>2 DEF IInv, FlightInv, TypeOK
    <3>2. d = [i \in 1..1 |-> running]
      BY <3>1
    <3> QED
      BY <3>2
  <2> QED
    BY <2>1, <2>2
<1>3. /\ a # <<>> => b = <<>> /\ c = <<>> /\ d = <<>> /\ e = <<>>
      /\ b # <<>> => c = <<>> /\ d = <<>> /\ e = <<>>
      /\ c # <<>> => d = <<>> /\ e = <<>>
      /\ d # <<>> => e = <<>>
  BY DEF IInv, FlightInv, TypeOK, LockFree
<1>4. InFlight = a \o b \o c \o d \o e
  BY DEF InFlight, DispBusy, Booking
<1>6. /\ a = <<>> => LockFree
      /\ b = <<>> => Len(toService) = 0
      /\ c = <<>> => ~DispBusy
      /\ d = <<>> => Len(finished) = 0
      /\ e = <<>> => ~Booking
  <2>1. DOMAIN d = 1..Len(finished) /\ Len(finished) \in Nat
    BY DEF TypeOK
  <2>2. d = <<>> => 1..Len(finished) = {}
    BY <2>1
  <2>3. d = <<>> => Len(finished) = 0
    BY <2>1, <2>2
  <2> QED
    BY <2>3
<1> HIDE DEF a, b, c, d, e
<1>5. /\ <<>> \o <<>> = <<>>
      /\ <<running>> \o <<>> = <<running>>
      /\ <<>> \o <<running>> = <<running>>
  BY ConcatEmptySeq
<1> QED
  BY <1>1, <1>2, <1>3, <1>4, <1>5, <1>6

\* What the inductive invariant says of the properties.
LEMMA InvImplies ==
  ASSUME TypeOK, IInv
  PROVE  SingleFlight /\ StrandedOnlyByCancel /\ WorkConserving /\ SendNeverWaits
<1>1. SingleFlight
  BY InFlightValue DEF SingleFlight
<1>2. StrandedOnlyByCancel
  BY InFlightValue DEF StrandedOnlyByCancel, Stranded, IInv, StrandInv
<1>3. WorkConserving
  BY DEF TypeOK, IInv, QueueInv, WorkConserving
<1>4. SendNeverWaits
  BY DEF TypeOK, IInv, FlightInv, SendNeverWaits, LockFree
<1> QED
  BY <1>1, <1>2, <1>3, <1>4

\* One job in flight, and it is running_job.
THEOREM SingleFlightHolds == Spec => []SingleFlight
<1>1. TypeOK /\ IInv => SingleFlight
  BY InvImplies
<1> QED
  BY <1>1, TypeCorrect, Invariant, PTL

\* While the dispatcher lives, a job is stranded only by a cancel.
THEOREM StrandedOnlyByCancelHolds == Spec => []StrandedOnlyByCancel
<1>1. TypeOK /\ IInv => StrandedOnlyByCancel
  BY InvImplies
<1> QED
  BY <1>1, TypeCorrect, Invariant, PTL

\* With the lock free an idle slot means an empty queue.
THEOREM WorkConservingHolds == Spec => []WorkConserving
<1>1. TypeOK /\ IInv => WorkConserving
  BY InvImplies
<1> QED
  BY <1>1, TypeCorrect, Invariant, PTL

\* The mutex is never held across a send that has to wait.
THEOREM SendNeverWaitsHolds == Spec => []SendNeverWaits
<1>1. TypeOK /\ IInv => SendNeverWaits
  BY InvImplies
<1> QED
  BY <1>1, TypeCorrect, Invariant, PTL

\* Polling replies never go backwards.
THEOREM PolledForwardHolds == Spec => PolledForward
<1>1. TypeOK /\ TypeOK' /\ IInv /\ [Next]_vars => [PolledUp]_polled
  BY PolledStep
<1> QED
  BY <1>1, TypeCorrect, Invariant, PTL DEF Spec, PolledForward, PolledUp

LEMMA QueueStart ==
  ASSUME Init
  PROVE  Queue!Init
BY DEF Init, Queue!Init

LEMMA QueueRefines ==
  ASSUME TypeOK, IInv, [Next]_vars
  PROVE  [Queue!Next]_(Queue!vars)
<1>1. ASSUME NEW j \in Jobs, CreateJob(j)
      PROVE  Queue!SubmitIdle(j) \/ Queue!SubmitBusy(j)
  <2>1. /\ status[j] = "NONE" /\ completed' = completed
        /\ Len(queued) < MaxQueued
        /\ TryDispatch(Append(queued, j), running,
                       [status EXCEPT ![j] = "QUEUED"])
    BY <1>1 DEF CreateJob, Fresh
  <2>2. j \notin completed /\ ~Queue!Pending(j)
    BY <2>1 DEF IInv, StatusInv, TypeOK, Queue!Pending
  <2>3. CASE running = NoJob
    <3>1. queued = <<>>
      BY <2>3 DEF IInv, QueueInv, TypeOK
    <3>2. Append(queued, j) = <<j>>
      BY <3>1
    <3>3. Head(<<j>>) = j /\ Tail(<<j>>) = <<>> /\ <<j>> # <<>>
      OBVIOUS
    <3> QED
      BY <2>1, <2>2, <2>3, <3>1, <3>2, <3>3 DEF TryDispatch, Queue!SubmitIdle
  <2>4. CASE running # NoJob
    BY <2>1, <2>2, <2>4 DEF TryDispatch, Queue!SubmitBusy
  <2> QED
    BY <2>3, <2>4
<1>2. ASSUME NEW i \in Ids, CancelQueued(i)
      PROVE  UNCHANGED <<queued, running, completed>>
  BY <1>2, CancelQueuedFindsNothing DEF IInv, ctlVars
<1>3. CASE CompleteJob
  <2>1. /\ running # NoJob /\ completed' = completed \cup {running}
        /\ listener.job = running
    BY <1>3, CompleteEffect DEF IInv
  <2>2. TryDispatch(queued, NoJob, BookedStatus)
    BY <1>3, <2>1 DEF CompleteJob, BookedStatus
  <2> QED
    BY <2>1, <2>2 DEF TryDispatch, Queue!Next, Queue!Finish
<1>4. CASE UNCHANGED ctlVars
  BY <1>4 DEF ctlVars, Queue!vars
<1> QED
  BY <1>1, <1>2, <1>3, <1>4, OtherSteps DEF Queue!Next, Queue!vars

\* Every step of the controller, the dispatcher and the listener is a step
\* of the abstract first-in first-out queue, or leaves it alone.
THEOREM ImplementsQueueHolds == Spec => ImplementsQueue
<1>1. Init => Queue!Init
  BY QueueStart
<1>2. TypeOK /\ IInv /\ [Next]_vars => [Queue!Next]_(Queue!vars)
  BY QueueRefines
<1> QED
  BY <1>1, <1>2, TypeCorrect, Invariant, PTL
     DEF Spec, ImplementsQueue, Queue!Spec

-----------------------------------------------------------------------------
(* The service. *)

RingProofs == INSTANCE TokioParallel_proofs
              WITH numFrames <- Announced, Lengths <- Nat

RingInv == RingProofs!CallInv

\* The dispatcher is not in the call the ring was made for.
Between == \/ disp.pc \in {"recv", "check", "report", "hung"}
           \/ disp.pc = "exec" /\ call # disp.job

BetweenInv == Between /\ call # NoJob => main = "returned"

\* A count of all frames of j, at the stages it passes on its way to the client.
Claims(j) ==
    \/ disp.pc = "report" /\ disp.job = j /\ disp.frames = "all"
    \/ \E i \in 1..Len(finished) : finished[i].job = j /\ finished[i].frames = "all"
    \/ Booking /\ listener.job = j /\ listener.frames = "all"
    \/ frames[j] = "all"

ClaimInv == call # NoJob /\ Claims(call) => main = "returned"

\* Only a job that was booked has its counts.
CountsInv == \A j \in Jobs : frames[j] # "unknown" => j \in completed

\* A call that is over is claimed.
DoneInv == Between /\ call # NoJob => Claims(call)

\* The calls whose last write was left in flight.
LeftInv ==
    /\ unflushed \subseteq Jobs
    /\ \A j \in unflushed : j \in completed /\ frames[j] = "all"

CallsInv ==
    /\ call \in Jobs \cup {NoJob}
    /\ RingInv /\ BetweenInv /\ ClaimInv /\ CountsInv /\ DoneInv /\ LeftInv

-----------------------------------------------------------------------------
(* The steps of the service. *)

\* Every step of the service is one of the controller, or leaves it alone.
LEMMA ControllerSteps ==
  ASSUME [ServiceNext]_serviceVars
  PROVE  [Next]_vars
<1>1. CASE CallReturns \/ CallRefused
  <2>1. PICK o \in {"ok", "err"} : ExecReturn(o)
    BY <1>1 DEF CallReturns, CallRefused, Alone, BeforeRing
  <2> QED
    BY <2>1 DEF Next, Dispatcher
<1>2. CASE CallPanics \/ CallPanicsEarly \/ CallHangs
  <2>1. ExecPanic \/ ExecHang
    BY <1>2 DEF CallPanics, CallPanicsEarly, CallHangs, Alone, BeforeRing
  <2> QED
    BY <2>1 DEF Next, Dispatcher
<1>3. CASE \/ CallStart \/ RingCaller \/ RingWriter \/ RingDisk
           \/ \E w \in Workers : RingWorker(w)
           \/ \E j \in Jobs : LateWrite(j)
  <2>1. UNCHANGED vars
    BY <1>3 DEF CallStart, RingCaller, RingWriter, RingDisk, RingWorker, Inner, LateWrite
  <2> QED
    BY <2>1
<1>4. CASE UNCHANGED serviceVars
  BY <1>4 DEF serviceVars
<1>5. CASE Alone(Client) \/ Alone(SendJob) \/ Alone(Listener)
           \/ Alone(DispRecv) \/ Alone(DispSkip) \/ Alone(DispStart) \/ Alone(Report)
  BY <1>5 DEF Alone, Next, Dispatcher
<1> QED
  BY <1>1, <1>2, <1>3, <1>4, <1>5 DEF ServiceNext

\* The ring is not touched by a step of the controller.
LEMMA RingStays ==
  ASSUME UNCHANGED <<call, ringVars>>
  PROVE  UNCHANGED RingProofs!vars
BY DEF ringVars, Announced, RingProofs!vars, RingProofs!mainVars, RingProofs!workerVars,
       RingProofs!writerVars, RingProofs!fileVars

LEMMA SameSize == Ring!N = Cardinality(Workers) /\ RingProofs!N = Cardinality(Workers)
BY DEF Ring!N, RingProofs!N, Ring!Cardinality, RingProofs!Cardinality, Cardinality

LEMMA CallerSteps == RingCaller => RingProofs!Next
BY SameSize DEF RingCaller, Inner, Ring!Caller, RingProofs!Next, RingProofs!Caller,
   Ring!MainFresh, Ring!MainRecycle, Ring!MainOrphaned, Ring!MainRead, Ring!MainReadFails,
   Ring!MainSend, Ring!MainEof, Ring!MainJoinWriter, Ring!MainJoinWorkers,
   Ring!Panic, Ring!WriterGone, Ring!WorkerEnds,
   Ring!mainVars, Ring!workerVars, Ring!writerVars, Ring!fileVars,
   RingProofs!MainFresh, RingProofs!MainRecycle, RingProofs!MainOrphaned,
   RingProofs!MainRead, RingProofs!MainReadFails, RingProofs!MainSend, RingProofs!MainEof,
   RingProofs!MainJoinWriter, RingProofs!MainJoinWorkers,
   RingProofs!Panic, RingProofs!WriterGone, RingProofs!WorkerEnds,
   RingProofs!mainVars, RingProofs!workerVars, RingProofs!writerVars, RingProofs!fileVars

LEMMA WriterSteps == RingWriter => RingProofs!Next
BY SameSize DEF RingWriter, Inner, Ring!Writer, RingProofs!Next, RingProofs!Writer,
   Ring!WriterRecv, Ring!WriterBye, Ring!WriterClosed, Ring!WriterStash, Ring!WriterWrite,
   Ring!WriterFails, Ring!WriterBack,
   Ring!WqClosed, Ring!HoldsWtx, Ring!WorkerEnds, Ring!RrxOpen, Ring!Reading,
   Ring!mainVars, Ring!workerVars, Ring!writerVars, Ring!fileVars,
   RingProofs!WriterRecv, RingProofs!WriterBye, RingProofs!WriterClosed,
   RingProofs!WriterStash, RingProofs!WriterWrite, RingProofs!WriterFails,
   RingProofs!WriterBack,
   RingProofs!WqClosed, RingProofs!HoldsWtx, RingProofs!WorkerEnds, RingProofs!RrxOpen,
   RingProofs!Reading,
   RingProofs!mainVars, RingProofs!workerVars, RingProofs!writerVars, RingProofs!fileVars

LEMMA WorkerSteps == ASSUME NEW w \in Workers, RingWorker(w) PROVE RingProofs!Next
<1>1. RingProofs!Worker(w)
  BY SameSize DEF RingWorker, Inner, Ring!Worker, RingProofs!Worker,
   Ring!WorkerRecv, Ring!WorkerClosed, Ring!WorkerProcess, Ring!WorkerFails,
   Ring!WorkerSend, Ring!WorkerBye, Ring!Go, Ring!WriterGone, Ring!CtxOpen, Ring!Reading,
   Ring!mainVars, Ring!workerVars, Ring!writerVars, Ring!fileVars,
   RingProofs!WorkerRecv, RingProofs!WorkerClosed, RingProofs!WorkerProcess,
   RingProofs!WorkerFails, RingProofs!WorkerSend, RingProofs!WorkerBye, RingProofs!Go,
   RingProofs!WriterGone, RingProofs!CtxOpen, RingProofs!Reading,
   RingProofs!mainVars, RingProofs!workerVars, RingProofs!writerVars, RingProofs!fileVars
<1> QED
  BY <1>1 DEF RingProofs!Next

LEMMA DiskSteps == RingDisk => RingProofs!Next
BY DEF RingDisk, Inner, Ring!Disk, RingProofs!Next, RingProofs!Disk,
   Ring!DiskWrites, Ring!DiskFails, Ring!mainVars, Ring!workerVars, Ring!writerVars,
   RingProofs!DiskWrites, RingProofs!DiskFails,
   RingProofs!mainVars, RingProofs!workerVars, RingProofs!writerVars

-----------------------------------------------------------------------------
(* The ring's invariant. *)

\* What TokioParallel assumes of its constants holds of the service's.
LEMMA RingAssumptions ==
  /\ RingProofs!IsFiniteSet(Workers) /\ RingProofs!N >= 2 /\ Nat \subseteq Nat
  /\ RingProofs!N < 512 /\ Bye \notin Nat
  /\ Faults \subseteq {"read", "process", "write"}
<1>1. RingProofs!IsFiniteSet(Workers)
  BY RingAssumption DEF RingProofs!IsFiniteSet, IsFiniteSet
<1> QED
  BY <1>1, SameSize, RingAssumption

LEMMA StartsFresh == RingProofs!Init => RingInv
BY RingAssumptions, RingProofs!CallInit DEF RingInv

LEMMA StartsFreshNext == RingProofs!Init' => RingInv'
BY StartsFresh, PTL

LEMMA RingMoves == RingInv /\ [RingProofs!Next]_(RingProofs!vars) => RingInv'
BY RingAssumptions, RingProofs!CallStep DEF RingInv

\* Besides CallStart every step is one of the ring, or leaves the ring alone.
LEMMA RingSteps ==
  ASSUME [ServiceNext]_serviceVars, ~CallStart
  PROVE  call' = call /\ [RingProofs!Next]_(RingProofs!vars)
<1>1. CASE RingCaller \/ RingWriter \/ RingDisk \/ \E w \in Workers : RingWorker(w)
  BY <1>1, CallerSteps, WriterSteps, DiskSteps, WorkerSteps
     DEF RingCaller, RingWriter, RingDisk, RingWorker, Inner
<1>2. CASE UNCHANGED <<call, ringVars>>
  BY <1>2, RingStays
<1>3. CASE UNCHANGED serviceVars
  BY <1>2, <1>3 DEF serviceVars
<1> QED
  BY <1>1, <1>2, <1>3 DEF ServiceNext, Alone, BeforeRing, CallRefused, CallPanicsEarly,
     CallHangs, CallReturns, CallPanics, LateWrite

LEMMA ReturnedRest == RingInv => RingProofs!ReturnsAtRest
BY RingAssumptions, RingProofs!RestFromInv DEF RingInv

\* A ring of no frames has nothing in flight.
LEMMA NothingInFlight == RingInv /\ call = NoJob => disk.pc # "busy"
<1> SUFFICES ASSUME RingInv, call = NoJob PROVE disk.pc # "busy"
  OBVIOUS
<1>1. Announced = 0 /\ numWritten \in 0..Announced
  BY DEF Announced, RingInv, RingProofs!CallInv, RingProofs!RingInv, RingProofs!TypeInv,
     RingProofs!TypeOK
<1>2. disk.pc # "idle" => numWritten > 0
  BY DEF RingInv, RingProofs!CallInv, RingProofs!RingInv, RingProofs!OutInv
<1> QED
  BY <1>1, <1>2

\* CallStart makes the ring of the next call as parallel does.
LEMMA CallStartFresh ==
  ASSUME TypeOK, CallStart
  PROVE  RingProofs!Init' /\ call' \in Jobs
<1>1. call' \in Jobs
  BY DEF TypeOK, CallStart, Preparing
<1>2. Announced' \in Nat
  BY <1>1, SizeOfJobs, IdsAssumption DEF Announced
<1> QED
  BY <1>1, <1>2 DEF CallStart, FreshRing, RingProofs!Init

\* A ring that has returned stays so until the next call.
LEMMA ReturnedStays ==
  ASSUME [RingProofs!Next]_(RingProofs!vars), main = "returned"
  PROVE  main' = "returned"
<1>1. CASE RingProofs!Caller
  BY <1>1 DEF RingProofs!Caller, RingProofs!MainFresh, RingProofs!MainRecycle,
     RingProofs!MainOrphaned, RingProofs!MainRead, RingProofs!MainReadFails,
     RingProofs!MainSend, RingProofs!MainEof, RingProofs!MainJoinWriter,
     RingProofs!MainJoinWorkers
<1>2. CASE RingProofs!Writer
  BY <1>2 DEF RingProofs!Writer, RingProofs!WriterRecv, RingProofs!WriterBye,
     RingProofs!WriterClosed, RingProofs!WriterStash, RingProofs!WriterWrite,
     RingProofs!WriterFails, RingProofs!WriterBack, RingProofs!mainVars
<1>3. ASSUME NEW w \in Workers, RingProofs!Worker(w) PROVE main' = main
  BY <1>3 DEF RingProofs!Worker, RingProofs!WorkerRecv, RingProofs!WorkerClosed,
     RingProofs!WorkerProcess, RingProofs!WorkerFails, RingProofs!WorkerSend,
     RingProofs!WorkerBye, RingProofs!mainVars
<1>4. CASE RingProofs!Disk
  BY <1>4 DEF RingProofs!Disk, RingProofs!DiskWrites, RingProofs!DiskFails,
     RingProofs!mainVars
<1>5. CASE UNCHANGED RingProofs!vars
  BY <1>5 DEF RingProofs!vars, RingProofs!mainVars
<1> QED
  BY <1>1, <1>2, <1>3, <1>4, <1>5 DEF RingProofs!Next

-----------------------------------------------------------------------------
(* Where the dispatcher is. *)

\* The dispatcher's part of a step.
LEMMA DispatcherSteps ==
  ASSUME [ServiceNext]_serviceVars, disp' # disp
  PROVE  \/ DispRecv \/ DispSkip \/ DispStart \/ Report
         \/ CallRefused \/ CallPanicsEarly \/ CallHangs \/ CallReturns \/ CallPanics
<1>1. CASE \/ CallStart \/ RingCaller \/ RingWriter \/ RingDisk
           \/ \E w \in Workers : RingWorker(w)
           \/ \E j \in Jobs : LateWrite(j)
           \/ UNCHANGED serviceVars
  BY <1>1 DEF serviceVars, CallStart, RingCaller, RingWriter, RingDisk, RingWorker, Inner,
     LateWrite, vars, pipeVars
<1>2. CASE Alone(Client) \/ Alone(SendJob) \/ Alone(Listener)
  BY <1>2 DEF Alone, Client, SendJob, Listener, CreateRejected, CreateJob, JobStatus, JobList,
     CancelRunning, CancelQueued, ListenerRecv, ListenerExit, CompleteJob, pipeVars
<1> QED
  BY <1>1, <1>2 DEF ServiceNext, Alone

\* Every other step that ends outside a call starts there.
LEMMA BetweenBefore ==
  ASSUME TypeOK, [ServiceNext]_serviceVars, ~CallReturns, Between', call' # NoJob
  PROVE  ~CallStart /\ Between /\ call # NoJob
<1> USE DEF Between
<1>1. ~CallStart
  BY DEF CallStart, Preparing, vars, pipeVars
<1>2. call' = call
  BY <1>1, RingSteps
<1>3. CASE disp' = disp
  BY <1>1, <1>2, <1>3
<1>4. CASE disp' # disp
  <2>1. ~CallPanics
    BY DEF CallPanics, Alone, ExecPanic, DispIdle
  <2>2. DispRecv \/ DispSkip \/ DispStart \/ Report
           \/ CallRefused \/ CallPanicsEarly \/ CallHangs
    BY <1>4, <2>1, DispatcherSteps
  <2>3. Between
    BY <2>2 DEF DispRecv, DispSkip, DispStart, Report, CallRefused, CallPanicsEarly,
       CallHangs, BeforeRing, Preparing
  <2> QED
    BY <1>1, <1>2, <2>3
<1> QED
  BY <1>3, <1>4

\* The dispatcher leaves a call only when the ring has returned.
LEMMA BetweenStep ==
  ASSUME TypeOK, BetweenInv, [ServiceNext]_serviceVars
  PROVE  BetweenInv'
<1>1. CASE CallReturns
  BY <1>1 DEF CallReturns, Alone, ringVars, BetweenInv
<1>2. CASE ~CallReturns
  <2> SUFFICES ASSUME Between', call' # NoJob PROVE main' = "returned"
    BY DEF BetweenInv
  <2>1. ~CallStart /\ Between /\ call # NoJob
    BY <1>2, BetweenBefore
  <2> QED
    BY <2>1, RingSteps, ReturnedStays DEF BetweenInv
<1> QED
  BY <1>1, <1>2

-----------------------------------------------------------------------------
(* What is reported. *)

\* The counts of a job are booked with it.
LEMMA CountsStep ==
  ASSUME TypeOK, IInv, CountsInv, [Next]_vars
  PROVE  CountsInv'
<1> USE DEF CountsInv
<1>1. ASSUME NEW j \in Jobs, CreateJob(j) PROVE CountsInv'
  BY <1>1 DEF CreateJob
<1>2. ASSUME NEW i \in Ids, CancelQueued(i) PROVE CountsInv'
  BY <1>2, CancelQueuedFindsNothing DEF IInv, ctlVars
<1>3. CASE CompleteJob
  <2>1. /\ running \in Jobs /\ listener.job = running
        /\ completed' = completed \cup {running}
    BY <1>3, CompleteEffect DEF IInv
  <2>2. frames' = [frames EXCEPT ![running] = listener.frames]
    BY <1>3, <2>1 DEF CompleteJob
  <2> QED
    BY <2>1, <2>2 DEF TypeOK
<1>4. CASE UNCHANGED ctlVars
  BY <1>4 DEF ctlVars
<1> QED
  BY <1>1, <1>2, <1>3, <1>4, OtherSteps

\* A job that was booked is not booked again.
LEMMA CountsKept ==
  ASSUME TypeOK, IInv, [Next]_vars, NEW j \in Jobs, frames[j] = "all", j \in completed
  PROVE  frames'[j] = "all" /\ j \in completed'
<1>1. ASSUME NEW k \in Jobs, CreateJob(k) PROVE UNCHANGED <<frames, completed>>
  BY <1>1 DEF CreateJob
<1>2. ASSUME NEW i \in Ids, CancelQueued(i) PROVE UNCHANGED <<frames, completed>>
  BY <1>2 DEF CancelQueued
<1>3. CASE CompleteJob
  <2>1. /\ running \in Jobs /\ listener.job = running
        /\ completed' = completed \cup {running}
    BY <1>3, CompleteEffect DEF IInv
  <2>2. j # running
    BY <2>1, IdsAssumption DEF IInv, StatusInv
  <2>3. frames' = [frames EXCEPT ![running] = listener.frames]
    BY <1>3, <2>1 DEF CompleteJob
  <2> QED
    BY <2>1, <2>2, <2>3 DEF TypeOK
<1>4. CASE UNCHANGED ctlVars
  BY <1>4 DEF ctlVars
<1> QED
  BY <1>1, <1>2, <1>3, <1>4, OtherSteps

\* A count of all frames starts with a call that returned it; after that it is
\* only handed on.
LEMMA ClaimsHandedOn ==
  ASSUME TypeOK, IInv, [Next]_vars, NEW j \in Jobs, Claims(j)', ~Claims(j)
  PROVE  ExecReturn("ok") /\ disp.job = j
<1> USE DEF Claims, Booking
<1>1. CASE UNCHANGED <<disp, finished, listener, frames>>
  BY <1>1
<1>2. CASE DispRecv \/ DispSkip \/ DispStart
  <2>0. disp \in [pc : {"recv", "check", "exec", "report", "hung", "dead"},
                  job : Jobs \cup {NoJob},
                  frames : {"unknown", "all", "zero"}]
    BY DEF TypeOK
  <2>1. disp'.pc # "report" /\ UNCHANGED <<finished, listener, frames>>
    <3>1. CASE DispRecv  BY <2>0, <3>1 DEF DispRecv, ctlVars
    <3>2. CASE DispSkip  BY <3>2 DEF DispSkip, DispIdle, ctlVars
    <3>3. CASE DispStart  BY <2>0, <3>3 DEF DispStart, ctlVars
    <3> QED  BY <1>2, <3>1, <3>2, <3>3
  <2> QED
    BY <2>1
<1>3. ASSUME NEW o \in {"ok", "err"}, ExecReturn(o) PROVE o = "ok" /\ disp.job = j
  <2>1. /\ disp'.job = disp.job /\ disp'.frames = (IF o = "ok" THEN "all" ELSE "zero")
        /\ UNCHANGED <<finished, listener, frames>>
    BY <1>3 DEF ExecReturn, TypeOK, ctlVars
  <2> QED
    BY <2>1
<1>4. CASE ExecPanic \/ ExecHang
  <2>1. disp'.pc # "report" /\ UNCHANGED <<finished, listener, frames>>
    BY <1>4 DEF ExecPanic, ExecHang, DispIdle, ctlVars
  <2> QED
    BY <2>1
<1>5. CASE Report
  <2>1. /\ disp'.pc # "report" /\ UNCHANGED <<listener, frames>>
        /\ finished' = Append(finished, [job |-> disp.job, frames |-> disp.frames])
        /\ disp.pc = "report"
    BY <1>5 DEF Report, DispIdle, ctlVars
  <2>2. finished \in Seq(Completion)
    BY DEF TypeOK
  <2>3. /\ Len(finished') = Len(finished) + 1 /\ Len(finished) \in Nat
        /\ \A i \in 1..Len(finished) : finished'[i] = finished[i]
        /\ finished'[Len(finished) + 1] = [job |-> disp.job, frames |-> disp.frames]
    BY <2>1, <2>2
  <2> QED
    BY <2>1, <2>3
<1>6. CASE ListenerRecv
  <2>1. /\ finished # <<>> /\ listener' = Head(finished) /\ finished' = Tail(finished)
        /\ UNCHANGED <<disp, frames>>
    BY <1>6 DEF ListenerRecv, ctlVars
  <2>2. finished \in Seq(Completion)
    BY DEF TypeOK
  <2>3. /\ listener' = finished[1] /\ Len(finished) \in Nat \ {0}
        /\ Len(finished') = Len(finished) - 1
        /\ \A i \in 1..Len(finished') : finished'[i] = finished[i + 1]
    BY <2>1, <2>2
  <2> QED
    BY <2>1, <2>3
<1>7. CASE ListenerExit
  BY <1>7, NotCompletion DEF ListenerExit, ctlVars
<1>8. CASE CompleteJob
  <2>1. running \in Jobs /\ listener.job = running
    BY <1>8, CompleteEffect DEF IInv
  <2>2. /\ frames' = [frames EXCEPT ![running] = listener.frames] /\ listener' = NoDone
        /\ UNCHANGED <<disp, finished>> /\ listener \in Completion
    BY <1>8, <2>1 DEF CompleteJob
  <2>3. frames'[j] = IF j = running THEN listener.frames ELSE frames[j]
    BY <2>1, <2>2 DEF TypeOK
  <2> QED
    BY <2>1, <2>2, <2>3, NotCompletion
<1>9. ASSUME NEW i \in Ids, CancelQueued(i) PROVE UNCHANGED <<disp, finished, listener, frames>>
  BY <1>9 DEF CancelQueued, pipeVars
<1>10. ASSUME NEW k \in Jobs, CreateJob(k) PROVE UNCHANGED <<disp, finished, listener, frames>>
  BY <1>10 DEF CreateJob, pipeVars
<1> QED
  BY <1>1, <1>2, <1>3, <1>4, <1>5, <1>6, <1>7, <1>8, <1>9, <1>10
     DEF Next, Client, Dispatcher, Listener, CreateRejected, SendJob, JobStatus, JobList,
         CancelRunning, vars, ctlVars, pipeVars

\* Nothing is claimed of a job whose call is about to be made.
LEMMA NothingClaimed ==
  ASSUME TypeOK, IInv, CountsInv, disp.pc = "exec"
  PROVE  ~Claims(disp.job)
<1>1. /\ disp.job \in Jobs /\ disp.job = running
      /\ Len(finished) = 0 /\ ~Booking
  BY DEF TypeOK, IInv, FlightInv, DispBusy
<1>2. disp.job \notin completed
  BY <1>1, IdsAssumption DEF IInv, StatusInv
<1> QED
  BY <1>1, <1>2 DEF Claims, CountsInv

LEMMA ClaimStep ==
  ASSUME TypeOK, IInv, CallsInv, [ServiceNext]_serviceVars
  PROVE  ClaimInv'
<1> USE DEF CallsInv, ClaimInv
<1>1. CASE CallStart
  <2>1. /\ disp.pc = "exec" /\ call' = disp.job
        /\ UNCHANGED <<disp, finished, listener, frames>>
    BY <1>1 DEF CallStart, Preparing, vars, pipeVars, ctlVars
  <2>2. Claims(disp.job)' = Claims(disp.job)
    BY <2>1 DEF Claims, Booking
  <2>3. ~Claims(call)'
    BY <2>1, <2>2, NothingClaimed DEF Claims, Booking
  <2> QED
    BY <2>3
<1>2. CASE ~CallStart
  <2>1. call' = call /\ (main = "returned" => main' = "returned")
    BY <1>2, RingSteps, ReturnedStays
  <2> SUFFICES ASSUME call # NoJob, Claims(call)' PROVE main = "returned"
    BY <2>1
  <2>2. CASE Claims(call)
    BY <2>2
  <2>3. CASE ~Claims(call)
    <3>1. ExecReturn("ok") /\ disp.job = call
      <4>1. \A j \in Jobs : j = call /\ Claims(j)' /\ ~Claims(j) => ExecReturn("ok") /\ disp.job = j
        BY ClaimsHandedOn, ControllerSteps
      <4> QED
        BY <2>1, <2>3, <4>1 DEF Claims
    <3>2. CallReturns \/ CallRefused
      <4>1. disp' # disp /\ disp.pc = "exec" /\ disp'.pc = "report"
        BY <3>1 DEF ExecReturn, TypeOK
      <4>2. /\ ~DispRecv /\ ~DispSkip /\ ~DispStart /\ ~Report
            /\ ~CallPanicsEarly /\ ~CallHangs /\ ~CallPanics
        BY <4>1 DEF DispRecv, DispSkip, DispStart, Report, CallPanicsEarly, CallHangs,
           CallPanics, BeforeRing, Alone, ExecPanic, ExecHang, DispIdle
      <4> QED
        BY <4>1, <4>2, DispatcherSteps
    <3>3. ~CallRefused
      BY <3>1 DEF CallRefused, BeforeRing, Preparing
    <3> QED
      BY <3>2, <3>3 DEF CallReturns
  <2> QED
    BY <2>2, <2>3
<1> QED
  BY <1>1, <1>2

-----------------------------------------------------------------------------
(* What is left behind. *)

\* A count of all frames is handed on until it is booked, and stays.
LEMMA ClaimsKept ==
  ASSUME TypeOK, IInv, CountsInv, [Next]_vars, NEW j \in Jobs, Claims(j)
  PROVE  Claims(j)'
<1> USE DEF Claims, Booking
<1>1. CASE disp.pc = "report" /\ disp.job = j /\ disp.frames = "all"
  <2>1. CASE Report
    <3>1. finished \in Seq(Completion)
      BY DEF TypeOK
    <3>2. finished' = Append(finished, [job |-> j, frames |-> "all"])
      BY <1>1, <2>1 DEF Report
    <3>3. /\ Len(finished') = Len(finished) + 1 /\ Len(finished) \in Nat
          /\ finished'[Len(finished) + 1] = [job |-> j, frames |-> "all"]
      BY <3>1, <3>2
    <3>4. \E i \in 1..Len(finished') : finished'[i].job = j /\ finished'[i].frames = "all"
      BY <3>3
    <3> QED
      BY <3>4
  <2>2. CASE ~Report
    <3>1. disp' = disp
      BY <1>1, <2>2 DEF Next, Client, Dispatcher, Listener, CreateRejected, CreateJob, SendJob,
         JobStatus, JobList, CancelRunning, CancelQueued, DispRecv, DispSkip, DispStart,
         ExecReturn, ExecPanic, ExecHang, ListenerRecv, ListenerExit, CompleteJob, vars,
         pipeVars
    <3> QED
      BY <1>1, <3>1
  <2> QED
    BY <2>1, <2>2
<1>2. ASSUME NEW i \in 1..Len(finished), finished[i].job = j, finished[i].frames = "all"
      PROVE  Claims(j)'
  <2>1. finished \in Seq(Completion) /\ Len(finished) = 1 /\ i = 1
    BY <1>2 DEF TypeOK, IInv, FlightInv
  <2>2. CASE ListenerRecv
    <3>1. listener' = finished[1] /\ finished[1] \in Completion
      BY <2>1, <2>2 DEF ListenerRecv
    <3> QED
      BY <1>2, <2>1, <3>1
  <2>3. CASE Report
    BY <2>1, <2>3 DEF Report, IInv, FlightInv, DispBusy
  <2>4. CASE ~ListenerRecv /\ ~Report
    <3>1. finished' = finished
      BY <2>4 DEF Next, Client, Dispatcher, Listener, CreateRejected, CreateJob, SendJob,
         JobStatus, JobList, CancelRunning, CancelQueued, DispRecv, DispSkip, DispStart,
         ExecReturn, ExecPanic, ExecHang, ListenerExit, CompleteJob, vars, pipeVars
    <3> QED
      BY <1>2, <3>1
  <2> QED
    BY <2>2, <2>3, <2>4
<1>3. CASE Booking /\ listener.job = j /\ listener.frames = "all"
  <2>1. CASE CompleteJob
    <3>1. running \in Jobs /\ listener.job = running
      BY <2>1, CompleteEffect DEF IInv
    <3>2. frames' = [frames EXCEPT ![running] = listener.frames]
      BY <2>1, <3>1 DEF CompleteJob
    <3>3. frames'[j] = "all"
      BY <1>3, <3>1, <3>2 DEF TypeOK
    <3> QED
      BY <3>3
  <2>2. CASE ~CompleteJob
    <3>1. listener' = listener
      BY <1>3, <2>2, NotCompletion DEF Next, Client, Dispatcher, Listener, CreateRejected,
         CreateJob, SendJob, JobStatus, JobList, CancelRunning, CancelQueued, DispRecv,
         DispSkip, DispStart, ExecReturn, ExecPanic, ExecHang, Report, ListenerRecv,
         ListenerExit, vars, pipeVars
    <3> QED
      BY <1>3, <3>1
  <2> QED
    BY <2>1, <2>2
<1>4. CASE frames[j] = "all"
  BY <1>4, CountsKept DEF CountsInv
<1> QED
  BY <1>1, <1>2, <1>3, <1>4

LEMMA DoneStep ==
  ASSUME TypeOK, IInv, CallsInv, [ServiceNext]_serviceVars
  PROVE  DoneInv'
<1> SUFFICES ASSUME Between', call' # NoJob PROVE Claims(call)'
  BY DEF DoneInv
<1>1. CASE CallReturns
  <2>1. /\ disp.pc = "exec" /\ disp.job = call /\ main = "returned" /\ call' = call
        /\ call \in Jobs
    BY <1>1 DEF CallReturns, Called, Alone, CallsInv, TypeOK
  <2>2. result = "ok"
    BY <2>1, ReturnedRest DEF RingProofs!ReturnsAtRest, CallsInv
  <2>3. ExecReturn("ok")
    BY <1>1, <2>2 DEF CallReturns, Alone
  <2>4. disp'.pc = "report" /\ disp'.job = call' /\ disp'.frames = "all"
    BY <2>1, <2>3 DEF ExecReturn, TypeOK
  <2> QED
    BY <2>4 DEF Claims
<1>2. CASE ~CallReturns
  <2>1. ~CallStart /\ Between /\ call # NoJob
    BY <1>2, BetweenBefore
  <2>2. call' = call /\ call \in Jobs
    BY <2>1, RingSteps DEF CallsInv
  <2>3. Claims(call)
    BY <2>1 DEF CallsInv, DoneInv
  <2>4. \A j \in Jobs : Claims(j) => Claims(j)'
    BY ClaimsKept, ControllerSteps DEF CallsInv
  <2> QED
    BY <2>2, <2>3, <2>4 DEF Claims
<1> QED
  BY <1>1, <1>2

\* The call before the one about to be made: it was told of as complete.
LEMMA BeforeCall ==
  ASSUME TypeOK, IInv, CallsInv, Preparing, call # NoJob
  PROVE  call \in Jobs /\ call \in completed /\ frames[call] = "all"
<1>1. call \in Jobs /\ Claims(call)
  BY DEF CallsInv, DoneInv, Between, Preparing
<1>2. disp.pc = "exec" /\ Len(finished) = 0 /\ ~Booking
  BY DEF Preparing, IInv, FlightInv, DispBusy
<1>3. frames[call] = "all"
  BY <1>1, <1>2 DEF Claims
<1> QED
  BY <1>1, <1>3 DEF CallsInv, CountsInv

LEMMA LeftStep ==
  ASSUME TypeOK, IInv, CallsInv, [ServiceNext]_serviceVars
  PROVE  LeftInv'
<1>1. unflushed \subseteq Jobs /\ \A j \in unflushed : j \in completed /\ frames[j] = "all"
  BY DEF CallsInv, LeftInv
<1>2. \A j \in unflushed' : j \in Jobs /\ j \in completed /\ frames[j] = "all"
  <2>1. CASE CallStart
    <3>1. disk.pc = "busy" => call # NoJob
      BY NothingInFlight DEF CallsInv
    <3> QED
      BY <1>1, <2>1, <3>1, BeforeCall DEF CallStart
  <2>2. CASE ~CallStart
    <3>1. unflushed' \subseteq unflushed
      BY <2>2 DEF ServiceNext, serviceVars, Alone, BeforeRing, CallRefused, CallPanicsEarly,
         CallHangs, CallReturns, CallPanics, RingCaller, RingWriter, RingDisk, RingWorker,
         Inner, LateWrite
    <3> QED
      BY <1>1, <3>1
  <2> QED
    BY <2>1, <2>2
<1>3. \A j \in Jobs : frames[j] = "all" /\ j \in completed
                     => frames'[j] = "all" /\ j \in completed'
  BY ControllerSteps, CountsKept DEF CallsInv
<1> QED
  BY <1>2, <1>3 DEF LeftInv

-----------------------------------------------------------------------------
(* The theorems. *)

LEMMA CallsInit == ServiceInit => CallsInv
<1> SUFFICES ASSUME ServiceInit PROVE CallsInv
  OBVIOUS
<1>1. call = NoJob /\ Announced = 0
  BY DEF ServiceInit, Announced
<1>2. RingProofs!Init
  BY <1>1 DEF ServiceInit, Ring!Init, RingProofs!Init
<1>3. CountsInv /\ LeftInv
  BY DEF ServiceInit, Init, CountsInv, LeftInv
<1> QED
  BY <1>1, <1>2, <1>3, StartsFresh DEF CallsInv, BetweenInv, ClaimInv, DoneInv

LEMMA CallsStep ==
  ASSUME TypeOK, IInv, CallsInv, [ServiceNext]_serviceVars
  PROVE  CallsInv'
<1>1. RingInv' /\ call' \in Jobs \cup {NoJob}
  <2>1. CASE CallStart
    BY <2>1, CallStartFresh, StartsFreshNext
  <2>2. CASE ~CallStart
    BY <2>2, RingSteps, RingMoves DEF CallsInv
  <2> QED
    BY <2>1, <2>2
<1>2. BetweenInv'
  BY BetweenStep DEF CallsInv
<1>3. ClaimInv'
  BY ClaimStep
<1>4. CountsInv'
  BY CountsStep, ControllerSteps DEF CallsInv
<1>5. DoneInv' /\ LeftInv'
  BY DoneStep, LeftStep
<1> QED
  BY <1>1, <1>2, <1>3, <1>4, <1>5 DEF CallsInv

\* The inductive invariant of the service: the controller's, the ring's, and
\* what joins them.  A step of the service is one the controller allows, so the
\* first part holds of it.
THEOREM ServiceInvariant == ServiceSpec => [](TypeOK /\ IInv /\ CallsInv)
<1>1. ServiceInit => TypeOK /\ IInv /\ CallsInv
  BY TypeInit, InvInit, CallsInit DEF ServiceInit
<1>2. TypeOK /\ IInv /\ CallsInv /\ [ServiceNext]_serviceVars
        => (TypeOK /\ IInv /\ CallsInv)'
  BY ControllerSteps, TypeStep, InvStep, CallsStep
<1> QED
  BY <1>1, <1>2, PTL DEF ServiceSpec

\* So the service keeps what the controller keeps, whatever its engine does:
\* one job in flight, no idle slot with a queue, no send that waits for room.
THEOREM ControllerSafe ==
  ServiceSpec => [](SingleFlight /\ StrandedOnlyByCancel /\ WorkConserving /\ SendNeverWaits)
<1>1. TypeOK /\ IInv =>
        SingleFlight /\ StrandedOnlyByCancel /\ WorkConserving /\ SendNeverWaits
  BY InvImplies
<1> QED
  BY <1>1, ServiceInvariant, PTL

\* And it serves jobs first in, first out.
THEOREM ServesInOrder == ServiceSpec => ImplementsQueue
<1>1. Init => Queue!Init
  BY QueueStart
<1>2. TypeOK /\ IInv /\ [Next]_vars => [Queue!Next]_(Queue!vars)
  BY QueueRefines
<1>3. [ServiceNext]_serviceVars => [Next]_vars
  BY ControllerSteps
<1>4. ServiceInit => Init
  BY DEF ServiceInit
<1> QED
  BY <1>1, <1>2, <1>3, <1>4, ServiceInvariant, PTL
     DEF ServiceSpec, ImplementsQueue, Queue!Spec

LEMMA RingReturned ==
  ASSUME CallsInv, call # NoJob, main = "returned"
  PROVE  /\ Ring!ReturnsAtRest /\ numWritten = Size[call]
         /\ out = [i \in 1..(IF disk.pc = "idle" THEN Size[call] ELSE Size[call] - 1) |-> i - 1]
<1>1. RingProofs!ReturnsAtRest
  BY ReturnedRest DEF CallsInv
<1>2. Ring!ReturnsAtRest
  BY <1>1 DEF RingProofs!ReturnsAtRest, RingProofs!Holders, RingProofs!Frames,
     Ring!ReturnsAtRest, Ring!Holders, Ring!Frames
<1>3. /\ writer = "exited"
      /\ out = [i \in 1..(IF disk.pc = "idle" THEN Announced ELSE Announced - 1) |-> i - 1]
  BY <1>1 DEF RingProofs!ReturnsAtRest
<1>4. numWritten = Announced
  BY <1>3 DEF CallsInv, RingInv, RingProofs!CallInv, RingProofs!RestInv
<1> QED
  BY <1>2, <1>3, <1>4 DEF Announced

\* Outside a call nothing of the last ring is left but its last frame, written
\* or in flight: parallel awaits its writer and joins its workers before it
\* returns, and a call that never makes its ring changes nothing of this.
THEOREM RingAtRestHolds == ServiceSpec => []RingAtRest
<1>1. TypeOK /\ CallsInv => RingAtRest
  <2> SUFFICES ASSUME TypeOK, CallsInv, call # NoJob, ~Called, disp.pc # "dead"
               PROVE  main = "returned" /\ Ring!ReturnsAtRest
    BY DEF RingAtRest
  <2>1. Between
    BY DEF TypeOK, Called, Between
  <2> QED
    BY <2>1, RingReturned DEF CallsInv, BetweenInv
<1> QED
  BY <1>1, ServiceInvariant, PTL

\* A write that outlives its job's place in the dispatcher is that of a job
\* which was booked, and told of, as completed with all its frames.
THEOREM LeftBehindHolds == ServiceSpec => []LeftBehind
<1>1. IInv /\ CallsInv => LeftBehind
  BY DEF IInv, StatusInv, CallsInv, LeftInv, LeftBehind
<1> QED
  BY <1>1, ServiceInvariant, PTL

\* A count of frames a client is shown is that of the frames in the output, the
\* last of them perhaps not flushed.
THEOREM ReportedWrittenHolds == ServiceSpec => []ReportedWritten
<1>1. CallsInv => ReportedWritten
  BY RingReturned DEF CallsInv, ClaimInv, Claims, ReportedWritten
<1> QED
  BY <1>1, ServiceInvariant, PTL
=============================================================================
