---------------------------- MODULE JobController ----------------------------
(***************************************************************************)
(* The job service: ControllerStatus (controller/mod.rs) behind one        *)
(* tokio::sync::Mutex, the dispatcher task (controller/dispatcher/         *)
(* tokio.rs), the completion listener spawned by ControllerStatus::new,    *)
(* and the web handlers that call them (web-server/src/handlers/           *)
(* recompose.rs).                                                          *)
(*                                                                         *)
(* Every handler runs under the mutex.  The only await inside the critical *)
(* section is the send to the dispatcher's bounded channel, so a critical  *)
(* section is one step, or two when it dispatches: `sending' holds the job *)
(* while the lock holder is at that await, and the lock is free exactly    *)
(* when sending = NoJob.                                                   *)
(***************************************************************************)
EXTENDS Naturals, Sequences, FiniteSets

CONSTANTS
    Jobs,           \* job ids (a Ulid is fresh for every request)
    NoJob,          \* Rust's None
    Stranger,       \* a well-formed id the server never issued
    MaxQueued,      \* max_queued_jobs (100 in the code)
    JobChanCap,     \* capacity of the dispatcher's channel (24)
    DoneChanCap,    \* capacity of the completion channel (32)
    Outcomes,       \* how a process_job call may end
    CancelIds       \* the ids clients use the cancel route with

ASSUME IdsAssumption == NoJob \notin Jobs /\ Stranger \notin Jobs
ASSUME BoundsAssumption ==
    /\ MaxQueued \in Nat
    /\ JobChanCap \in Nat \ {0}
    /\ DoneChanCap \in Nat \ {0}
ASSUME EnvAssumption ==
    /\ Outcomes \subseteq {"ok", "err", "panic", "hang"}
    /\ CancelIds \subseteq Jobs \cup {Stranger}

VARIABLES
    queued,       \* queued_jobs : VecDeque<Job>
    running,      \* running_job : Option<Job>
    completed,    \* the keys of completed_jobs
    status,       \* Job.status of the one record kept for the job
    flag,         \* Job.running, the AtomicBool shared by all clones
    frames,       \* (cur_frame, num_frames) once known
    sending,      \* job the lock holder is about to send to the dispatcher
    acking,       \* id that lock holder will answer its client with
    toService,    \* the dispatcher's channel
    disp,         \* the dispatcher task
    finished,     \* the completion channel
    listener,     \* completion taken by the listener, which waits for the lock
    polled,       \* per job: status last told by create, status and list
    cancelReply   \* per id: last answer of the cancel route

ctlVars  == <<queued, running, completed, status, frames>>
lockVars == <<sending, acking>>
pipeVars == <<toService, disp, finished, listener>>
repVars  == <<polled, cancelReply>>
vars == <<ctlVars, flag, lockVars, pipeVars, repVars>>

Ids == Jobs \cup {Stranger}
LockFree == sending = NoJob
NoDone == [job |-> NoJob, frames |-> "unknown"]
Gone   == [job |-> NoJob, frames |-> "gone"]

Completion == [job : Jobs, frames : {"all", "zero"}]
DispIdle == [pc |-> "recv", job |-> NoJob, frames |-> "unknown"]

TypeOK ==
    /\ queued \in Seq(Jobs)
    /\ running \in Jobs \cup {NoJob}
    /\ completed \in SUBSET Jobs
    /\ status \in [Jobs -> {"NONE", "QUEUED", "RUNNING", "COMPLETED"}]
    /\ flag \in [Jobs -> BOOLEAN]
    /\ frames \in [Jobs -> {"unknown", "all", "zero"}]
    /\ sending \in Jobs \cup {NoJob}
    /\ acking \in Jobs \cup {NoJob}
    /\ toService \in Seq(Jobs)
    /\ disp \in [pc : {"recv", "check", "exec", "report", "hung", "dead"},
                 job : Jobs \cup {NoJob},
                 frames : {"unknown", "all", "zero"}]
    /\ disp.pc \in {"check", "exec", "report"} => disp.job \in Jobs
    /\ disp.pc = "report" => disp.frames \in {"all", "zero"}
    /\ finished \in Seq(Completion)
    /\ listener \in Completion \cup {NoDone, Gone}
    /\ polled \in [Jobs -> {"NONE", "REJECTED", "QUEUED", "RUNNING", "COMPLETED"}]
    /\ cancelReply \in [Ids -> {"NONE", "DELETED", "NOTFOUND"}]

Init ==
    /\ queued = <<>>
    /\ running = NoJob
    /\ completed = {}
    /\ status = [j \in Jobs |-> "NONE"]
    /\ flag = [j \in Jobs |-> FALSE]
    /\ frames = [j \in Jobs |-> "unknown"]
    /\ sending = NoJob
    /\ acking = NoJob
    /\ toService = <<>>
    /\ disp = DispIdle
    /\ finished = <<>>
    /\ listener = NoDone
    /\ polled = [j \in Jobs |-> "NONE"]
    /\ cancelReply = [i \in Ids |-> "NONE"]

-----------------------------------------------------------------------------
(* try_dispatch_async: q and r are the queue and running_job as the caller *)
(* left them, st the statuses.  When the slot is empty the oldest job      *)
(* takes it and the caller, still holding the lock, goes on to send it.    *)

\* Mutant: the running_job.is_none() test is dropped.
TryDispatchAlways(q, r, st) ==
    IF q # <<>>
    THEN /\ running' = Head(q)
         /\ queued' = Tail(q)
         /\ status' = [st EXCEPT ![Head(q)] = "RUNNING"]
         /\ sending' = Head(q)
    ELSE /\ running' = r
         /\ queued' = q
         /\ status' = st
         /\ sending' = NoJob

TryDispatch(q, r, st) ==
    IF r = NoJob /\ q # <<>>
    THEN /\ running' = Head(q)
         /\ queued' = Tail(q)
         /\ status' = [st EXCEPT ![Head(q)] = "RUNNING"]
         /\ sending' = Head(q)
    ELSE /\ running' = r
         /\ queued' = q
         /\ status' = st
         /\ sending' = NoJob

(* POST /recompose, create_job_async.  j is the Ulid drawn for the request. *)

Fresh(j) == status[j] = "NONE" /\ polled[j] = "NONE"

CreateRejected(j) ==
    /\ LockFree /\ Fresh(j)
    /\ Len(queued) >= MaxQueued
    /\ polled' = [polled EXCEPT ![j] = "REJECTED"]
    /\ UNCHANGED <<ctlVars, flag, lockVars, pipeVars, cancelReply>>

CreateJob(j) ==
    /\ LockFree /\ Fresh(j)
    /\ Len(queued) < MaxQueued
    /\ flag' = [flag EXCEPT ![j] = TRUE]
    /\ TryDispatch(Append(queued, j), running,
                   [status EXCEPT ![j] = "QUEUED"])
    /\ IF sending' = NoJob
       THEN /\ polled' = [polled EXCEPT ![j] = "QUEUED"]
            /\ acking' = NoJob
       ELSE /\ acking' = j
            /\ UNCHANGED polled
    /\ UNCHANGED <<completed, frames, pipeVars, cancelReply>>

(* send_job_async, dispatch: waits for room in the channel with the lock   *)
(* held; fails when the dispatcher task is gone.  A create then answers    *)
(* its client.                                                             *)

SendJob ==
    /\ ~LockFree
    /\ disp.pc = "dead" \/ Len(toService) < JobChanCap
    /\ toService' = IF disp.pc = "dead" THEN toService
                                        ELSE Append(toService, sending)
    /\ polled' = IF acking = NoJob THEN polled
                 ELSE [polled EXCEPT ![acking] =
                         IF disp.pc = "dead" THEN "REJECTED" ELSE "QUEUED"]
    /\ sending' = NoJob
    /\ acking' = NoJob
    /\ UNCHANGED <<ctlVars, flag, disp, finished, listener, cancelReply>>

(* GET /job/:id and GET /job[/all].  A client knows the ids it was given.  *)

KnownIds == {j \in Jobs : polled[j] \notin {"NONE", "REJECTED"}}

JobStatus(j) ==
    /\ LockFree /\ j \in KnownIds
    /\ j = running \/ j \in completed \/ \E i \in 1..Len(queued) : queued[i] = j
    /\ polled' = [polled EXCEPT ![j] = status[j]]
    /\ UNCHANGED <<ctlVars, flag, lockVars, pipeVars, cancelReply>>

Listed(all) ==
    ({running} \ {NoJob}) \cup {queued[i] : i \in 1..Len(queued)}
                          \cup (IF all THEN completed ELSE {})

JobList(all) ==
    /\ LockFree
    /\ polled' = [j \in Jobs |-> IF j \in Listed(all) THEN status[j]
                                                     ELSE polled[j]]
    /\ UNCHANGED <<ctlVars, flag, lockVars, pipeVars, cancelReply>>

(* The cancel route, cancel_job: while some job runs, its flag is cleared  *)
(* whatever id was asked for; otherwise the id is looked for in the queue. *)

CancelRunning(i) ==
    /\ LockFree
    /\ i \in CancelIds \cap (KnownIds \cup {Stranger})
    /\ running # NoJob
    /\ flag' = [flag EXCEPT ![running] = FALSE]
    /\ cancelReply' = [cancelReply EXCEPT ![i] = "DELETED"]
    /\ UNCHANGED <<ctlVars, lockVars, pipeVars, polled>>

CancelQueued(i) ==
    /\ LockFree
    /\ i \in CancelIds \cap (KnownIds \cup {Stranger})
    /\ running = NoJob
    /\ IF \E k \in 1..Len(queued) : queued[k] = i
       THEN /\ \E k \in 1..Len(queued) :
                 /\ queued[k] = i
                 /\ queued' = SubSeq(queued, 1, k - 1)
                                \o SubSeq(queued, k + 1, Len(queued))
            /\ cancelReply' = [cancelReply EXCEPT ![i] = "DELETED"]
       ELSE /\ cancelReply' = [cancelReply EXCEPT ![i] = "NOTFOUND"]
            /\ UNCHANGED queued
    /\ UNCHANGED <<running, completed, status, frames, flag, lockVars,
                   pipeVars, polled>>

-----------------------------------------------------------------------------
(* The dispatcher task: one job at a time, start to end.                   *)

DispRecv ==
    /\ disp.pc = "recv" /\ toService # <<>>
    /\ disp' = [disp EXCEPT !.pc = "check", !.job = Head(toService)]
    /\ toService' = Tail(toService)
    /\ UNCHANGED <<ctlVars, flag, lockVars, finished, listener, repVars>>

DispSkip ==   \* the flag was cleared meanwhile: `continue'
    /\ disp.pc = "check" /\ ~flag[disp.job]
    /\ disp' = DispIdle
    /\ UNCHANGED <<ctlVars, flag, lockVars, toService, finished, listener,
                   repVars>>

DispStart ==
    /\ disp.pc = "check" /\ flag[disp.job]
    /\ disp' = [disp EXCEPT !.pc = "exec"]
    /\ UNCHANGED <<ctlVars, flag, lockVars, toService, finished, listener,
                   repVars>>

(* process_job returns: the frame counts, or (0,0) for any error (no       *)
(* rules, unsupported locations, a failed transcode).                      *)

ExecReturn(o) ==
    /\ disp.pc = "exec" /\ o \in Outcomes \cap {"ok", "err"}
    /\ disp' = [disp EXCEPT !.pc = "report",
                            !.frames = IF o = "ok" THEN "all" ELSE "zero"]
    /\ UNCHANGED <<ctlVars, flag, lockVars, toService, finished, listener,
                   repVars>>

(* It panics (an unwrap on a truncated input, say): the task unwinds and   *)
(* drops its receiver and its sender.                                      *)

ExecPanic ==
    /\ disp.pc = "exec" /\ "panic" \in Outcomes
    /\ disp' = [DispIdle EXCEPT !.pc = "dead"]
    /\ toService' = <<>>
    /\ UNCHANGED <<ctlVars, flag, lockVars, finished, listener, repVars>>

(* It never returns: TokioParallel shows how that happens.                 *)

ExecHang ==
    /\ disp.pc = "exec" /\ "hang" \in Outcomes
    /\ disp' = [DispIdle EXCEPT !.pc = "hung"]
    /\ UNCHANGED <<ctlVars, flag, lockVars, toService, finished, listener,
                   repVars>>

\* Mutant: only a success is sent to the controller.
ReportSuccess ==
    /\ disp.pc = "report" /\ Len(finished) < DoneChanCap
    /\ finished' = IF disp.frames = "all"
                   THEN Append(finished, [job |-> disp.job, frames |-> disp.frames])
                   ELSE finished
    /\ disp' = DispIdle
    /\ UNCHANGED <<ctlVars, flag, lockVars, toService, listener, repVars>>

Report ==
    /\ disp.pc = "report" /\ Len(finished) < DoneChanCap
    /\ finished' = Append(finished, [job |-> disp.job, frames |-> disp.frames])
    /\ disp' = DispIdle
    /\ UNCHANGED <<ctlVars, flag, lockVars, toService, listener, repVars>>

-----------------------------------------------------------------------------
(* The completion listener.                                                *)

ListenerRecv ==
    /\ listener = NoDone /\ finished # <<>>
    /\ listener' = Head(finished)
    /\ finished' = Tail(finished)
    /\ UNCHANGED <<ctlVars, flag, lockVars, toService, disp, repVars>>

ListenerExit ==   \* recv() returns None: the dispatcher's sender is gone
    /\ listener = NoDone /\ finished = <<>> /\ disp.pc = "dead"
    /\ listener' = Gone
    /\ UNCHANGED <<ctlVars, flag, lockVars, toService, disp, finished,
                   repVars>>

(* complete_job_async, under the lock.  running_job is taken whatever the  *)
(* id; a job that does not match is dropped with a warning.                *)

\* Mutant: the job is booked, the next one is not dispatched.
CompleteNoDispatch ==
    /\ LockFree /\ listener \in Completion
    /\ listener' = NoDone
    /\ LET match == listener.job = running IN
       /\ completed' = IF match THEN completed \cup {running} ELSE completed
       /\ frames' = IF match THEN [frames EXCEPT ![running] = listener.frames]
                             ELSE frames
       /\ status' = IF match THEN [status EXCEPT ![running] = "COMPLETED"]
                             ELSE status
    /\ running' = NoJob
    /\ UNCHANGED <<queued, lockVars, flag, toService, disp, finished, repVars>>

\* Mutant: the booked record gets the default status.
CompleteDefaultStatus ==
    /\ LockFree /\ listener \in Completion
    /\ listener' = NoDone
    /\ acking' = NoJob
    /\ LET match == listener.job = running IN
       /\ completed' = IF match THEN completed \cup {running} ELSE completed
       /\ frames' = IF match THEN [frames EXCEPT ![running] = listener.frames]
                             ELSE frames
       /\ TryDispatch(queued, NoJob,
                      IF match THEN [status EXCEPT ![running] = "QUEUED"]
                               ELSE status)
    /\ UNCHANGED <<flag, toService, disp, finished, repVars>>

CompleteJob ==
    /\ LockFree /\ listener \in Completion
    /\ listener' = NoDone
    /\ acking' = NoJob
    /\ LET match == listener.job = running IN
       /\ completed' = IF match THEN completed \cup {running} ELSE completed
       /\ frames' = IF match THEN [frames EXCEPT ![running] = listener.frames]
                             ELSE frames
       /\ TryDispatch(queued, NoJob,
                      IF match THEN [status EXCEPT ![running] = "COMPLETED"]
                               ELSE status)
    /\ UNCHANGED <<flag, toService, disp, finished, repVars>>

Client ==
    \/ \E j \in Jobs : CreateRejected(j) \/ CreateJob(j) \/ JobStatus(j)
    \/ \E all \in BOOLEAN : JobList(all)
    \/ \E i \in Ids : CancelRunning(i) \/ CancelQueued(i)

Dispatcher ==
    \/ DispRecv \/ DispSkip \/ DispStart
    \/ \E o \in {"ok", "err"} : ExecReturn(o)
    \/ ExecPanic \/ ExecHang \/ Report

Listener == ListenerRecv \/ ListenerExit \/ CompleteJob

Next == Client \/ SendJob \/ Dispatcher \/ Listener

(* Tokio schedules every task that can run, so each task's steps are       *)
(* weakly fair; tokio's mutex queues its waiters first come first served,  *)
(* so the listener gets the lock even if clients keep taking it.  Nothing  *)
(* is assumed of clients, nor that a process_job that may hang returns     *)
(* before it does.                                                         *)
Fairness ==
    /\ WF_vars(SendJob)
    /\ WF_vars(DispRecv) /\ WF_vars(DispSkip) /\ WF_vars(DispStart)
    /\ WF_vars(\E o \in {"ok", "err"} : ExecReturn(o))
    /\ WF_vars(Report)
    /\ WF_vars(ListenerRecv) /\ WF_vars(ListenerExit)
    /\ SF_vars(CompleteJob)

Spec == Init /\ [][Next]_vars /\ Fairness

-----------------------------------------------------------------------------
(* Properties.                                                             *)

\* Everything handed to the dispatcher and not yet booked, newest first.
InFlight ==
    (IF LockFree THEN <<>> ELSE <<sending>>)
    \o toService
    \o (IF disp.pc \in {"check", "exec", "report"} THEN <<disp.job>> ELSE <<>>)
    \o [i \in 1..Len(finished) |-> finished[i].job]
    \o (IF listener \in Completion THEN <<listener.job>> ELSE <<>>)

\* At most one job is between dispatch and its completion being booked, and
\* it is the one in running_job: a completion can never meet another job
\* (the "completing different job" branch of complete_job_async is dead).
SingleFlight == InFlight = <<>> \/ InFlight = <<running>>

\* With the lock free an empty slot means an empty queue: every critical
\* section that empties the slot or fills the queue dispatches.  It is also
\* why cancel_job never finds a queued job to remove.
WorkConserving == LockFree /\ running = NoJob => queued = <<>>

\* The mutex is never held across a send that has to wait: the channel has
\* room whenever the lock holder gets to its await, so no handler can be
\* blocked behind a running transcode.
SendNeverWaits == ~LockFree => Len(toService) < JobChanCap

\* A running_job that nothing will ever complete: the dispatcher skipped it
\* because its flag was cleared before the pickup.
Stranded == running # NoJob /\ InFlight = <<>> /\ disp.pc = "recv"

\* While the dispatcher lives, a job is stranded only by a cancel.
StrandedOnlyByCancel == Stranded => ~flag[running]

Rank == [NONE |-> 0, REJECTED |-> 0, QUEUED |-> 1, RUNNING |-> 2, COMPLETED |-> 3]

\* What polling tells a client about a job never goes backwards, whichever
\* of create, status and list answered, in whatever order.
PolledForward ==
    [][\A j \in Jobs : Rank[polled[j]] <= Rank[polled'[j]]]_polled

\* Implements the abstract queue, whatever panics, hangs or is cancelled.
Queue == INSTANCE JobQueue WITH waiting <- queued, active <- running,
                                done <- completed
ImplementsQueue == Queue!Spec

\* The dispatcher task can make no more progress.
DispatcherLost == disp.pc \in {"dead", "hung"}

\* Every accepted job, also one an idle server runs at once, is completed
\* unless the slot is stranded by a cancel or the dispatcher is lost: no other
\* interleaving of create, cancel, the dispatcher and the listener stops the
\* queue.
AcceptedServed ==
    \A j \in Jobs :
        status[j] \in {"QUEUED", "RUNNING"} ~>
            (status[j] = "COMPLETED" \/ Stranded \/ DispatcherLost)

\* mod.rs:193 logs the requested id as the one cancelled and the route
\* answers DELETED for it: a queued job so answered is not started later.
DeletedNotStarted ==
    [][\A j \in Jobs : (status[j] = "QUEUED" /\ cancelReply[j] = "DELETED")
                          => status'[j] = "QUEUED"]_vars
=============================================================================
