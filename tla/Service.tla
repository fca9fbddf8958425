------------------------------- MODULE Service -------------------------------
(***************************************************************************)
(* The job service with the engine inside it: process_job of the           *)
(* dispatcher (controller/dispatcher/tokio.rs) calls transcode_handles of  *)
(* one TokioTranscoder per job, and the caller of TokioParallel's ring is  *)
(* the dispatcher task itself.  JobController's Exec steps, which leave    *)
(* open how a process_job ends, become the steps of a ring of              *)
(* Size[job] frames: a call that returns is reported, a panic of the       *)
(* caller takes the dispatcher down, a ring that stops moving holds it.    *)
(* Before the ring process_job fetches the rules, builds them and reads    *)
(* the header, each of which may also refuse the job, panic or never end.  *)
(* Both locations are files and there are two workers at least.            *)
(***************************************************************************)
EXTENDS JobController

CONSTANTS
    Workers, Bye, Faults,   \* of every ring
    Size                    \* num_frames of each job's input

ASSUME SizeOfJobs == Size \in [Jobs -> Nat]
ASSUME RingAssumption ==
    /\ IsFiniteSet(Workers) /\ Cardinality(Workers) \in 2..511 /\ Bye \notin Nat
    /\ Faults \subseteq {"read", "process", "write"}

VARIABLES
    call,                   \* the job whose transcode the ring was made for
    main, next, outstanding, ctx, worker, sent, wq, writer, cur, reorder,
    numWritten, numExited, rq, disk, out, result,
    unflushed               \* earlier calls whose last write is still in flight

\* The header of the call's input; before the first call there is no ring, and
\* the variables are those of one that has nothing to do.
Announced == IF call = NoJob THEN 0 ELSE Size[call]

Ring == INSTANCE TokioParallel WITH numFrames <- Announced, Lengths <- Nat

ringVars == <<main, next, outstanding, ctx, worker, sent, wq, writer, cur,
              reorder, numWritten, numExited, rq, disk, out, result>>
serviceVars == <<vars, call, unflushed, ringVars>>

ServiceInit ==
    /\ Init
    /\ call = NoJob /\ unflushed = {}
    /\ Ring!Init

-----------------------------------------------------------------------------
Called == disp.pc = "exec" /\ call = disp.job
Preparing == disp.pc = "exec" /\ call # disp.job

\* A ring as parallel makes it: Ring!Init of the next state.
FreshRing ==
    /\ main' = "buffer" /\ next' = 0 /\ outstanding' = 0 /\ result' = "none"
    /\ ctx' = << >> /\ wq' = << >> /\ rq' = 0
    /\ worker' = [w \in Workers |-> [pc |-> "recv", fr |-> 0]]
    /\ sent' = [w \in Workers |-> FALSE]
    /\ writer' = "recv" /\ cur' = 0 /\ reorder' = {}
    /\ numWritten' = 0 /\ numExited' = 0
    /\ out' = << >> /\ disk' = [pc |-> "idle", fr |-> 0]

\* rules, headers and handles are good: parallel makes its channels and tasks.
\* The last write of the call before may still be in flight: it goes on alone.
CallStart ==
    /\ Preparing
    /\ UNCHANGED vars
    /\ call' = disp.job
    /\ unflushed' = IF disk.pc = "busy" THEN unflushed \cup {call} ELSE unflushed
    /\ FreshRing

BeforeRing(A) == Preparing /\ A /\ UNCHANGED <<call, unflushed, ringVars>>

\* rules, a location or the input's header is refused: an error before any task.
CallRefused == BeforeRing(ExecReturn("err"))

\* The target's size is not bounded: a row (BlitContext::new) or a frame of it
\* (Dim::calc_area) that leaves 32 bits panics in a build that checks.
CallPanicsEarly == BeforeRing(ExecPanic)

\* The GET of the rules has no timeout, nor has a read of a file.
CallHangs == BeforeRing(ExecHang)

\* The tasks of the ring; those a panic of the caller leaves go on as well.
Inside == Called \/ (disp.pc = "dead" /\ call # NoJob)

Inner(A) == UNCHANGED <<vars, call, unflushed>> /\ A

RingCaller == Called /\ Inner(Ring!Caller)
RingWriter == Inside /\ Inner(Ring!Writer)
RingWorker(w) == Inside /\ Inner(Ring!Worker(w))
RingDisk == Inner(Ring!Disk)

\* The last write of an earlier call ends, well or not: nobody looks.
LateWrite(j) ==
    /\ j \in unflushed
    /\ unflushed' = unflushed \ {j}
    /\ UNCHANGED <<vars, call, ringVars>>

Alone(A) == A /\ UNCHANGED <<call, unflushed, ringVars>>

\* parallel has returned; an error becomes (0, 0) frames.
CallReturns ==
    /\ Called /\ main = "returned"
    /\ Alone(ExecReturn(IF result = "ok" THEN "ok" ELSE "err"))

\* An unwrap of parallel: the dispatcher task unwinds.
CallPanics ==
    /\ Called /\ main = "panicked"
    /\ Alone(ExecPanic)

ServiceNext ==
    \/ Alone(Client) \/ Alone(SendJob) \/ Alone(Listener)
    \/ Alone(DispRecv) \/ Alone(DispSkip) \/ Alone(DispStart) \/ Alone(Report)
    \/ CallStart \/ CallRefused \/ CallPanicsEarly \/ CallHangs
    \/ CallReturns \/ CallPanics
    \/ RingCaller \/ RingWriter \/ RingDisk \/ \E w \in Workers : RingWorker(w)
    \/ \E j \in Jobs : LateWrite(j)

\* The fairness of both modules; nothing is assumed of how a call ends, and
\* one that has not made its ring may be held for ever (CallHangs).
ServiceFairness ==
    /\ WF_serviceVars(Alone(SendJob))
    /\ WF_serviceVars(Alone(DispRecv)) /\ WF_serviceVars(Alone(DispSkip))
    /\ WF_serviceVars(Alone(DispStart)) /\ WF_serviceVars(Alone(Report))
    /\ WF_serviceVars(Alone(ListenerRecv)) /\ WF_serviceVars(Alone(ListenerExit))
    /\ SF_serviceVars(Alone(CompleteJob))
    /\ WF_serviceVars(CallStart \/ CallRefused \/ CallPanicsEarly \/ CallHangs)
    /\ WF_serviceVars(CallReturns) /\ WF_serviceVars(CallPanics)
    /\ WF_serviceVars(RingCaller) /\ WF_serviceVars(RingWriter) /\ WF_serviceVars(RingDisk)
    /\ \A w \in Workers : WF_serviceVars(RingWorker(w))

ServiceSpec == ServiceInit /\ [][ServiceNext]_serviceVars /\ ServiceFairness

-----------------------------------------------------------------------------
(* Properties. *)

\* Two jobs' rings overlap in one way only.  When the dispatcher is not in the
\* call the last ring was made for, that call has returned: no thread, no task
\* and no frame of it is left but the write of its last frame, which may be in
\* flight (and hold the file) until the next job runs, and longer.
RingAtRest ==
    call # NoJob /\ ~Called /\ disp.pc # "dead" =>
        main = "returned" /\ Ring!ReturnsAtRest

\* The jobs whose last write is in flight while another job's ring runs were
\* told of as completed, with all their frames: the count is given before the
\* bytes are in the file, and the write of a failed job is never left.
LeftBehind == \A j \in unflushed : status[j] = "COMPLETED" /\ frames[j] = "all"

\* A job the service reports with its frame count has that many frames in its
\* output, the last of them perhaps not flushed.
ReportedWritten ==
    call # NoJob /\ frames[call] = "all" =>
        /\ numWritten = Size[call]
        /\ out = [i \in 1..(IF disk.pc = "idle" THEN Size[call] ELSE Size[call] - 1) |-> i - 1]

\* Every accepted job, also one that runs at once, is completed unless the
\* slot is stranded by a cancel, a panic or an endless wait took the
\* dispatcher, or a worker of the ring ended without an end mark: neither side
\* waits for the other in any other way.
RingStarved == Called /\ Ring!Starved

JobsServed == \A j \in Jobs :
    status[j] \in {"QUEUED", "RUNNING"} ~>
        (status[j] = "COMPLETED" \/ Stranded \/ DispatcherLost \/ RingStarved)
=============================================================================
