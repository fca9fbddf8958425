------------------------ MODULE TokioParallel_proofs ------------------------
(***************************************************************************)
(* What the ring of TokioTranscoder::parallel keeps, for every number of   *)
(* workers and frames and every fault: types, the order of the output, the *)
(* bounds that num_workers buffer pairs put on the channels and on the     *)
(* reorder list, that no frame is lost or doubled, that Ok means a         *)
(* complete output, that a call which returns leaves nothing behind but    *)
(* the write of its last frame, that the threads wait for each other only  *)
(* after a worker ended without an end mark, and that only so many steps   *)
(* are left at any moment.                                                 *)
(*                                                                         *)
(* The bounds need two facts that are not about sizes.  BufferInv: the     *)
(* buffer pairs handed out again, on rq, or about to go there are no more  *)
(* than the frames written.  PlaceInv and UniqueInv: every frame on its    *)
(* way is held once, is not yet written and was taken from ctx, which      *)
(* holds the last consecutive frames sent.  Together they count the frames *)
(* on their way without a sum over the workers.                            *)
(*                                                                         *)
(* KeptInv follows the frames: one that was sent is held somewhere, or it  *)
(* was lost with a worker or a writer that failed.  ByeInv counts the end  *)
(* marks: those taken and those on wq are no more than the workers that    *)
(* exited having sent one.  So when the writer leaves by the last mark     *)
(* every worker is done and every frame was handed over, which is RestInv. *)
(* FlowInv makes the count of buffer pairs exact while nobody is starved:  *)
(* then a frame or a pair is always where somebody is ready to take it.    *)
(***************************************************************************)
EXTENDS TokioParallel, FiniteSetTheorems, Integers, TLAPS

\* Worker w has a frame.
Holding(w) == worker[w].pc \in {"process", "send"}

\* The oldest frame on ctx, or the next one if ctx is empty.
First == next - Len(ctx)

\* Everything but the file.
restVars == <<numFrames, main, next, outstanding, ctx, worker, sent, wq, writer, cur,
              reorder, numWritten, numExited, rq, result>>

TypeInv ==
    /\ TypeOK
    /\ \A w \in Workers : Holding(w) => worker[w].fr \in Frames
    /\ writer = "place" => cur \in Frames
    /\ main \in {"read", "send"} => next < numFrames
    /\ ~WriterGone => numExited < N
    /\ disk.pc = "busy" => disk.fr \in Frames

\* The write in flight, or the one that failed, is that of the last frame
\* counted.
OutInv == InOrder /\ (disk.pc # "idle" => numWritten > 0 /\ disk.fr = numWritten - 1)

BufferInv ==
    next + (IF main \in {"read", "send"} THEN 1 ELSE 0) + rq
         + (IF writer = "back" THEN 1 ELSE 0) <= numWritten + outstanding

\* fr was taken from ctx and is not written yet.
OnItsWay(fr) == numWritten <= fr /\ fr < First

PlaceInv ==
    /\ Len(ctx) <= next /\ numWritten <= First
    /\ \A i \in 1..Len(ctx) : ctx[i] = First + i - 1
    /\ \A w \in Workers : Holding(w) => OnItsWay(worker[w].fr)
    /\ \A i \in 1..Len(wq) : wq[i] # Bye => OnItsWay(wq[i])
    /\ writer = "place" => OnItsWay(cur)
    /\ \A fr \in reorder : OnItsWay(fr)
    /\ writer # "back" => numWritten \notin reorder

UniqueInv ==
    /\ \A v, w \in Workers :
         Holding(v) /\ Holding(w) /\ v # w => worker[v].fr # worker[w].fr
    /\ \A w \in Workers, i \in 1..Len(wq) : Holding(w) => wq[i] # worker[w].fr
    /\ \A i, j \in 1..Len(wq) : i # j /\ wq[i] # Bye => wq[i] # wq[j]
    /\ \A w \in Workers : Holding(w) => worker[w].fr \notin reorder
    /\ \A i \in 1..Len(wq) : wq[i] \notin reorder
    /\ writer = "place" =>
         /\ cur \notin reorder
         /\ \A w \in Workers : Holding(w) => worker[w].fr # cur
         /\ \A i \in 1..Len(wq) : wq[i] # cur

-----------------------------------------------------------------------------
(* Types. *)

LEMMA Constants == N \in Nat /\ N >= 2 /\ Bye \notin Nat
<1>1. N \in Nat
  BY SizeAssumption, FS_CardinalityType DEF N
<1> QED
  BY <1>1, SizeAssumption, ByeAssumption

\* The frames of one call are always the same.
LEMMA SameFrames ==
    ASSUME [Next]_vars
    PROVE  numFrames' = numFrames /\ Frames' = Frames
  BY DEF Next, Caller, Worker, Writer, Disk, vars, Frames

\* The thread with the write in flight touches nothing but the file.
LEMMA DiskAlone == ASSUME Disk \/ UNCHANGED vars PROVE UNCHANGED restVars
  BY DEF Disk, DiskWrites, DiskFails, vars, mainVars, workerVars, writerVars, restVars

LEMMA FramesAre ==
    ASSUME TypeInv
    PROVE  numFrames \in Nat /\ Frames \subseteq Nat /\ Bye \notin Frames
  BY ByeAssumption DEF TypeInv, TypeOK, Frames

LEMMA TypeInit == Init => TypeInv
<1> SUFFICES ASSUME Init PROVE TypeInv
  OBVIOUS
<1>1. worker \in [Workers -> [pc : {"recv", "process", "send", "bye", "exited",
                                  "failed", "panicked"}, fr : Nat]]
  BY DEF Init
<1>2. sent \in [Workers -> BOOLEAN]
  BY DEF Init
<1>3. ctx \in Seq(Frames) /\ wq \in Seq(Frames \cup {Bye}) /\ out \in Seq(Frames)
  BY DEF Init
<1>0. numFrames \in Nat
  BY SizeAssumption DEF Init
<1>4. /\ next \in 0..numFrames /\ outstanding \in 0..N /\ numWritten \in 0..numFrames
      /\ numExited \in 0..N /\ rq \in 0..N /\ cur \in Nat
      /\ reorder \in SUBSET Frames
  BY <1>0, Constants, SMT DEF Init
<1>6. main = "buffer" /\ writer = "recv" /\ result = "none"
      /\ disk = [pc |-> "idle", fr |-> 0]
  BY DEF Init
<1>7. TypeOK
  BY <1>0, <1>1, <1>2, <1>3, <1>4, <1>6 DEF TypeOK
<1>5. \A w \in Workers : ~Holding(w)
  BY DEF Init, Holding
<1> QED
  BY <1>5, <1>7, Constants DEF Init, TypeInv, WriterGone

LEMMA CallerTypes == ASSUME TypeInv, Caller PROVE TypeInv'
<1> numFrames' = numFrames /\ Frames' = Frames /\ numFrames \in Nat /\ Frames \subseteq Nat
  BY SameFrames, FramesAre DEF Next
<1> USE Constants
<1>1. CASE MainFresh
  BY <1>1 DEF MainFresh, TypeInv, TypeOK, workerVars, writerVars, fileVars, Holding, WriterGone
<1>2. CASE MainRecycle
  BY <1>2 DEF MainRecycle, TypeInv, TypeOK, workerVars, writerVars, fileVars, Holding, WriterGone
<1>3. CASE MainOrphaned
  BY <1>3 DEF MainOrphaned, Panic, TypeInv, TypeOK, workerVars, writerVars, fileVars, Holding, WriterGone
<1>4. CASE MainRead
  BY <1>4 DEF MainRead, TypeInv, TypeOK, workerVars, writerVars, fileVars, Holding, WriterGone
<1>5. CASE MainReadFails
  BY <1>5 DEF MainReadFails, Panic, TypeInv, TypeOK, workerVars, writerVars, fileVars, Holding, WriterGone
<1>6. CASE MainSend
  <2>1. next \in Frames /\ ctx' \in Seq(Frames) /\ next' \in 0..numFrames
    BY <1>6 DEF MainSend, TypeInv, TypeOK, Frames
  <2> QED
    BY <1>6, <2>1 DEF MainSend, TypeInv, TypeOK, workerVars, writerVars, fileVars, Holding, WriterGone
<1>7. CASE MainEof
  BY <1>7 DEF MainEof, TypeInv, TypeOK, workerVars, writerVars, fileVars, Holding, WriterGone
<1>8. CASE MainJoinWriter
  BY <1>8 DEF MainJoinWriter, Panic, TypeInv, TypeOK, workerVars, writerVars, fileVars, Holding, WriterGone
<1>9. CASE MainJoinWorkers
  BY <1>9 DEF MainJoinWorkers, Panic, TypeInv, TypeOK, workerVars, writerVars, fileVars, Holding, WriterGone
<1> QED
  BY <1>1, <1>2, <1>3, <1>4, <1>5, <1>6, <1>7, <1>8, <1>9 DEF Caller

LEMMA WorkerTypes == ASSUME TypeInv, NEW w \in Workers, Worker(w) PROVE TypeInv'
<1> numFrames' = numFrames /\ Frames' = Frames /\ numFrames \in Nat /\ Frames \subseteq Nat
  BY SameFrames, FramesAre DEF Next
<1> USE Constants
<1>1. CASE WorkerRecv(w)
  <2>1. Head(ctx) \in Frames /\ ctx' \in Seq(Frames)
    BY <1>1 DEF WorkerRecv, TypeInv, TypeOK
  <2> QED
    BY <1>1, <2>1 DEF WorkerRecv, TypeInv, TypeOK, mainVars, writerVars, fileVars, Holding, WriterGone
<1>2. CASE WorkerClosed(w)
  BY <1>2 DEF WorkerClosed, Go, TypeInv, TypeOK, mainVars, writerVars, fileVars, Holding, WriterGone
<1>3. CASE WorkerProcess(w)
  BY <1>3 DEF WorkerProcess, Go, TypeInv, TypeOK, mainVars, writerVars, fileVars, Holding, WriterGone
<1>4. CASE WorkerFails(w)
  BY <1>4 DEF WorkerFails, Go, TypeInv, TypeOK, mainVars, writerVars, fileVars, Holding, WriterGone
<1>5. CASE WorkerSend(w)
  <2>1. worker[w].fr \in Frames
    BY <1>5 DEF WorkerSend, TypeInv, Holding
  <2>2. wq \in Seq(Frames \cup {Bye}) /\ sent \in [Workers -> BOOLEAN]
    BY DEF TypeInv, TypeOK
  <2>3. ASSUME NEW pc \in {"failed", "recv"}, worker' = [worker EXCEPT ![w].pc = pc],
               UNCHANGED <<mainVars, ctx, writerVars, fileVars, rq, result>>,
               wq' \in Seq(Frames \cup {Bye}), sent' \in [Workers -> BOOLEAN]
        PROVE  TypeInv'
    <3>1. worker' \in [Workers -> [pc : {"recv", "process", "send", "bye", "exited",
                                        "failed", "panicked"}, fr : Nat]]
      BY <2>3 DEF TypeInv, TypeOK
    <3>2. TypeOK /\ UNCHANGED <<main, next, outstanding, ctx, writer, cur, reorder,
                               numWritten, numExited, disk, out, rq, result>>
      BY <2>3 DEF TypeInv, mainVars, writerVars, fileVars
    <3>3. TypeOK'
      BY <2>3, <3>1, <3>2 DEF TypeOK
    <3>4. \A v \in Workers : Holding(v)' => Holding(v) /\ worker'[v].fr = worker[v].fr
      BY <2>3, <3>2 DEF Holding, TypeOK
    <3> QED
      BY <3>2, <3>3, <3>4 DEF TypeInv, WriterGone
  <2>4. CASE WriterGone
    <3>1. /\ worker' = [worker EXCEPT ![w].pc = "failed"]
          /\ UNCHANGED <<mainVars, ctx, sent, wq, writerVars, fileVars, rq, result>>
      BY <1>5, <2>4 DEF WorkerSend, Go
    <3> QED
      BY <2>2, <2>3, <3>1
  <2>5. CASE ~WriterGone
    <3>1. /\ worker' = [worker EXCEPT ![w].pc = "recv"]
          /\ sent' = [sent EXCEPT ![w] = TRUE] /\ wq' = Append(wq, worker[w].fr)
          /\ UNCHANGED <<mainVars, ctx, writerVars, fileVars, rq, result>>
      BY <1>5, <2>5 DEF WorkerSend, Go
    <3>2. wq' \in Seq(Frames \cup {Bye}) /\ sent' \in [Workers -> BOOLEAN]
      BY <2>1, <2>2, <3>1
    <3> QED
      BY <2>3, <3>1, <3>2
  <2> QED
    BY <2>4, <2>5
<1>6. CASE WorkerBye(w)
  <2>1. wq' \in Seq(Frames \cup {Bye})
    BY <1>6 DEF WorkerBye, TypeInv, TypeOK
  <2> QED
    BY <1>6, <2>1 DEF WorkerBye, Go, TypeInv, TypeOK, mainVars, writerVars, fileVars, Holding, WriterGone
<1> QED
  BY <1>1, <1>2, <1>3, <1>4, <1>5, <1>6 DEF Worker

LEMMA WriterTypes == ASSUME TypeInv, Writer PROVE TypeInv'
<1> numFrames' = numFrames /\ Frames' = Frames /\ numFrames \in Nat /\ Frames \subseteq Nat
  BY SameFrames, FramesAre DEF Next
<1> USE Constants
<1>1. CASE WriterRecv
  <2>1. Head(wq) \in Frames /\ wq' \in Seq(Frames \cup {Bye})
    BY <1>1 DEF WriterRecv, TypeInv, TypeOK
  <2> QED
    BY <1>1, <2>1 DEF WriterRecv, TypeInv, TypeOK, mainVars, workerVars, fileVars, Holding, WriterGone
<1>2. CASE WriterBye
  <2>1. wq' \in Seq(Frames \cup {Bye})
    BY <1>2 DEF WriterBye, TypeInv, TypeOK
  <2>2. numExited < N /\ numExited' = numExited + 1
    BY <1>2 DEF WriterBye, TypeInv, WriterGone
  <2> QED
    BY <1>2, <2>1, <2>2 DEF WriterBye, TypeInv, TypeOK, mainVars, workerVars, fileVars, Holding, WriterGone
<1>3. CASE WriterClosed
  BY <1>3 DEF WriterClosed, TypeInv, TypeOK, mainVars, workerVars, fileVars, Holding, WriterGone
<1>4. CASE WriterStash
  BY <1>4 DEF WriterStash, TypeInv, TypeOK, mainVars, workerVars, fileVars, Holding, WriterGone
<1>5. CASE WriterWrite
  <2>1. cur \in Frames /\ numWritten' \in 0..numFrames
    BY <1>5 DEF WriterWrite, TypeInv, Frames
  <2>2. /\ disk' \in [pc : {"idle", "busy", "failed"}, fr : Nat] /\ disk'.fr \in Frames
        /\ out' = out
    BY <1>5, <2>1 DEF WriterWrite
  <2> QED
    BY <1>5, <2>1, <2>2 DEF WriterWrite, TypeInv, TypeOK, mainVars, workerVars, fileVars, Holding, WriterGone
<1>6. CASE WriterFails
  BY <1>6 DEF WriterFails, TypeInv, TypeOK, mainVars, workerVars, fileVars, Holding, WriterGone
<1>7. CASE WriterBack
  <2>1. rq' \in 0..N
    BY <1>7 DEF WriterBack, TypeInv, TypeOK
  <2>2. /\ cur' \in Nat /\ reorder' \in SUBSET Frames
        /\ writer' \in {"recv", "place", "exited"}
        /\ writer' = "place" => cur' \in Frames
    BY <1>7 DEF WriterBack, TypeInv, TypeOK
  <2>3. writer = "back" /\ UNCHANGED <<mainVars, ctx, workerVars, wq, numWritten,
                                      numExited, disk, out, result>>
    BY <1>7 DEF WriterBack, fileVars
  <2> QED
    BY <2>1, <2>2, <2>3 DEF TypeInv, TypeOK, mainVars, workerVars, fileVars, Holding, WriterGone
<1> QED
  BY <1>1, <1>2, <1>3, <1>4, <1>5, <1>6, <1>7 DEF Writer

LEMMA DiskTypes == ASSUME TypeInv, Disk PROVE TypeInv'
<1>1. UNCHANGED restVars
  BY DiskAlone
<1>2. numFrames' = numFrames /\ Frames' = Frames
  BY SameFrames DEF Next
<1>3. disk' \in [pc : {"idle", "busy", "failed"}, fr : Nat] /\ disk'.pc # "busy"
  BY DEF Disk, DiskWrites, DiskFails, TypeInv, TypeOK
<1>4. out' \in Seq(Frames)
  <2>1. out \in Seq(Frames) /\ (disk.pc = "busy" => disk.fr \in Frames)
    BY DEF TypeInv, TypeOK
  <2>2. CASE DiskWrites
    BY <2>1, <2>2 DEF DiskWrites
  <2>3. CASE DiskFails
    BY <2>1, <2>3 DEF DiskFails
  <2> QED  BY <2>2, <2>3 DEF Disk
<1> QED
  BY <1>1, <1>2, <1>3, <1>4 DEF restVars, TypeInv, TypeOK, Holding, WriterGone

LEMMA TypeStep == TypeInv /\ [Next]_vars => TypeInv'
<1> SUFFICES ASSUME TypeInv, [Next]_vars PROVE TypeInv'
  OBVIOUS
<1>1. CASE UNCHANGED vars
  BY <1>1, SameFrames DEF vars, mainVars, workerVars, writerVars, fileVars, TypeInv, TypeOK, Holding, WriterGone
<1> QED
  BY <1>1, CallerTypes, WorkerTypes, WriterTypes, DiskTypes DEF Next

LEMMA TypeInvHolds == Spec => []TypeInv
  BY TypeInit, TypeStep, PTL DEF Spec

\* Every variable keeps its type and its bound.
THEOREM TypeCorrect == Spec => []TypeOK
<1>1. TypeInv => TypeOK
  BY DEF TypeInv
<1> QED
  BY <1>1, TypeInvHolds, PTL

-----------------------------------------------------------------------------
(* The order of the output. *)

LEMMA OutStep == TypeInv /\ OutInv /\ [Next]_vars => OutInv'
<1> SUFFICES ASSUME TypeInv, OutInv, [Next]_vars PROVE OutInv'
  OBVIOUS
<1>0. numWritten \in Nat /\ disk \in [pc : {"idle", "busy", "failed"}, fr : Nat]
  BY Constants DEF TypeInv, TypeOK
<1>1. CASE WriterWrite
  <2>1. /\ disk.pc = "idle" /\ disk' = [pc |-> "busy", fr |-> numWritten]
        /\ numWritten' = numWritten + 1 /\ out' = out
    BY <1>1 DEF WriterWrite
  <2>4. out = [i \in 1..numWritten |-> i - 1]
    BY <2>1 DEF OutInv, InOrder
  <2>2. disk'.pc = "busy" /\ disk'.fr = numWritten
    BY <2>1
  <2>3. numWritten' - 1 = numWritten /\ numWritten' > 0
    BY <1>0, <2>1
  <2> QED  BY <2>1, <2>2, <2>3, <2>4 DEF OutInv, InOrder
<1>2. CASE DiskWrites
  <2>1. /\ disk.fr = numWritten - 1 /\ numWritten - 1 \in Nat
        /\ out = [i \in 1..(numWritten - 1) |-> i - 1]
    BY <1>0, <1>2 DEF DiskWrites, OutInv, InOrder
  <2>2. disk'.pc = "idle" /\ out' = Append(out, disk.fr) /\ numWritten' = numWritten
    BY <1>0, <1>2 DEF DiskWrites, writerVars
  <2>3. out' = [i \in 1..numWritten |-> i - 1]
    BY <1>0, <2>1, <2>2
  <2> QED  BY <2>2, <2>3 DEF OutInv, InOrder
<1>3. CASE DiskFails
  <2>1. /\ disk.pc = "busy" /\ disk'.pc = "failed" /\ disk'.fr = disk.fr
        /\ out' = out /\ numWritten' = numWritten
    BY <1>0, <1>3 DEF DiskFails, writerVars
  <2> QED  BY <2>1 DEF OutInv, InOrder
<1>4. CASE UNCHANGED <<disk, out, numWritten>>
  BY <1>4 DEF OutInv, InOrder
<1>5. WriterWrite \/ DiskWrites \/ DiskFails \/ UNCHANGED <<disk, out, numWritten>>
  <2>1. CASE Caller
    BY <2>1 DEF Caller, MainFresh, MainRecycle, MainOrphaned, MainRead,
         MainReadFails, MainSend, MainEof, MainJoinWriter, MainJoinWorkers, writerVars, fileVars
  <2>2. CASE Writer
    BY <2>2 DEF Writer, WriterRecv, WriterBye, WriterClosed, WriterStash,
         WriterFails, WriterBack, fileVars
  <2>3. ASSUME NEW w \in Workers, Worker(w) PROVE UNCHANGED <<disk, out, numWritten>>
    BY <2>3 DEF Worker, WorkerRecv, WorkerClosed, WorkerProcess, WorkerFails,
         WorkerSend, WorkerBye, writerVars, fileVars
  <2>4. CASE UNCHANGED vars
    BY <2>4 DEF vars, writerVars, fileVars
  <2> QED  BY <2>1, <2>2, <2>3, <2>4 DEF Next, Disk
<1> QED
  BY <1>1, <1>2, <1>3, <1>4, <1>5

LEMMA OutInvHolds == Spec => []OutInv
<1>1. Init => OutInv
  BY DEF Init, OutInv, InOrder
<1> QED
  BY <1>1, OutStep, TypeInvHolds, PTL DEF Spec

\* The output is frames 0, 1, 2, ..., for every order the workers finish in
\* (the writer's task of parallel, tokioworker.rs).
THEOREM InOrderHolds == Spec => []InOrder
<1>1. OutInv => InOrder
  BY DEF OutInv
<1> QED
  BY <1>1, OutInvHolds, PTL

-----------------------------------------------------------------------------
(* The buffers. *)

LEMMA BufferStep == TypeInv /\ BufferInv /\ [Next]_vars => BufferInv'
<1> SUFFICES ASSUME TypeInv, BufferInv, [Next]_vars PROVE BufferInv'
  OBVIOUS
<1>0. /\ next \in Nat /\ outstanding \in Nat /\ rq \in Nat /\ numWritten \in Nat
      /\ N \in Nat
  BY Constants DEF TypeInv, TypeOK
<1>1. CASE MainFresh \/ MainRecycle \/ MainSend
  BY <1>0, <1>1 DEF MainFresh, MainRecycle, MainSend, BufferInv, writerVars
<1>2. CASE MainOrphaned \/ MainRead \/ MainReadFails \/ MainEof \/ MainJoinWriter
           \/ MainJoinWorkers
  BY <1>0, <1>2 DEF MainOrphaned, MainRead, MainReadFails, MainEof, MainJoinWriter,
                    MainJoinWorkers, Panic, BufferInv, writerVars
<1>3. CASE WriterWrite \/ WriterBack
  BY <1>0, <1>3 DEF WriterWrite, WriterBack, BufferInv, mainVars
<1>4. CASE WriterRecv \/ WriterBye \/ WriterClosed \/ WriterStash \/ WriterFails
  BY <1>0, <1>4 DEF WriterRecv, WriterBye, WriterClosed, WriterStash, WriterFails,
                    BufferInv, mainVars
<1>5. ASSUME NEW w \in Workers, Worker(w) PROVE BufferInv'
  BY <1>5 DEF Worker, WorkerRecv, WorkerClosed, WorkerProcess, WorkerFails,
       WorkerSend, WorkerBye, BufferInv, mainVars, writerVars
<1>6. CASE Disk \/ UNCHANGED vars
  BY <1>6, DiskAlone DEF restVars, BufferInv
<1> QED
  BY <1>1, <1>2, <1>3, <1>4, <1>5, <1>6 DEF Next, Caller, Writer

-----------------------------------------------------------------------------
(* Where the frames are. *)

PathInv == PlaceInv /\ UniqueInv

\* A step that moves no frame, or only lets a worker drop one.
LEMMA NothingMoves ==
    ASSUME PathInv, UNCHANGED <<next, ctx, wq, writer, cur, reorder, numWritten>>,
           \A w \in Workers : Holding(w)' => Holding(w) /\ worker'[w].fr = worker[w].fr
    PROVE  PathInv'
<1>1. First' = First /\ \A fr : OnItsWay(fr)' = OnItsWay(fr)
  BY DEF First, OnItsWay
<1>2. PlaceInv'
  BY <1>1 DEF PathInv, PlaceInv
<1>3. UniqueInv'
  BY DEF PathInv, UniqueInv
<1> QED
  BY <1>2, <1>3 DEF PathInv

\* The facts about types the steps below need.
LEMMA Types ==
    ASSUME TypeInv
    PROVE  /\ next \in Nat /\ numWritten \in Nat /\ cur \in Nat
           /\ ctx \in Seq(Frames) /\ wq \in Seq(Frames \cup {Bye})
           /\ Len(ctx) \in Nat /\ Len(wq) \in Nat /\ First \in Int
           /\ reorder \subseteq Frames /\ Frames \subseteq Nat /\ Bye \notin Frames
           /\ \A w \in Workers : worker[w].fr \in Nat
<1>1. /\ next \in Nat /\ numWritten \in Nat /\ cur \in Nat
      /\ ctx \in Seq(Frames) /\ wq \in Seq(Frames \cup {Bye})
      /\ reorder \subseteq Frames
      /\ \A w \in Workers : worker[w].fr \in Nat
  BY Constants DEF TypeInv, TypeOK
<1> QED
  BY <1>1, FramesAre DEF First

LEMMA MainSendPath == ASSUME TypeInv, PathInv, MainSend PROVE PathInv'
<1>1. /\ ctx' = Append(ctx, next) /\ next' = next + 1
      /\ UNCHANGED <<worker, wq, writer, cur, reorder, numWritten>>
  BY DEF MainSend, workerVars, writerVars
<1>2. Len(ctx') = Len(ctx) + 1 /\ First' = First
  BY <1>1, Types DEF First
<1>3. \A fr : OnItsWay(fr)' = OnItsWay(fr)
  BY <1>1, <1>2 DEF OnItsWay
<1>4. ASSUME NEW i \in 1..Len(ctx') PROVE ctx'[i] = First' + i - 1
  <2>1. CASE i <= Len(ctx)
    BY <1>1, <1>2, <2>1, Types DEF PathInv, PlaceInv
  <2>2. CASE i = Len(ctx) + 1
    BY <1>1, <1>2, <2>2, Types DEF First
  <2> QED  BY <1>2, <2>1, <2>2, Types
<1>5. Len(ctx') <= next' /\ numWritten' <= First'
  BY <1>1, <1>2, Types DEF PathInv, PlaceInv
<1>6. PlaceInv'
  BY <1>1, <1>3, <1>4, <1>5 DEF PathInv, PlaceInv, Holding
<1>7. UniqueInv'
  BY <1>1 DEF PathInv, UniqueInv, Holding
<1> QED
  BY <1>6, <1>7 DEF PathInv

LEMMA WorkerRecvPath ==
    ASSUME TypeInv, PathInv, NEW w \in Workers, WorkerRecv(w)
    PROVE  PathInv'
<1>1. /\ worker' = [worker EXCEPT ![w] = [pc |-> "process", fr |-> Head(ctx)]]
      /\ ctx' = Tail(ctx) /\ ctx # <<>> /\ ~Holding(w)
      /\ UNCHANGED <<next, wq, writer, cur, reorder, numWritten>>
  BY DEF WorkerRecv, Holding, mainVars, writerVars
<1>2. /\ Len(ctx') = Len(ctx) - 1 /\ First' = First + 1 /\ Len(ctx) >= 1
      /\ Head(ctx) = First
      /\ \A i \in 1..Len(ctx') : ctx'[i] = ctx[i + 1]
  BY <1>1, Types DEF First, PathInv, PlaceInv
<1>3. numWritten <= First /\ numWritten' = numWritten /\ First \in Int /\ numWritten \in Nat
  BY <1>1, Types DEF PathInv, PlaceInv
<1>4. \A fr \in Nat : OnItsWay(fr) => fr # First /\ numWritten' <= fr /\ fr < First'
  BY <1>2, <1>3 DEF OnItsWay
<1>5. /\ Holding(w)' /\ worker'[w].fr = First
      /\ \A v \in Workers \ {w} : Holding(v)' = Holding(v) /\ worker'[v] = worker[v]
  BY <1>1, <1>2 DEF Holding, TypeInv, TypeOK
<1>6. \A i \in 1..Len(ctx') : ctx'[i] = First' + i - 1
  <2>1. \A i \in 1..Len(ctx') : i + 1 \in 1..Len(ctx)
    BY <1>2, Types
  <2>2. \A i \in 1..Len(ctx) : ctx[i] = First + i - 1
    BY DEF PathInv, PlaceInv
  <2>3. ASSUME NEW i \in 1..Len(ctx') PROVE ctx'[i] = First' + i - 1
    <3>1. ctx'[i] = ctx[i + 1] /\ ctx[i + 1] = First + (i + 1) - 1
      BY <1>2, <2>1, <2>2
    <3>2. i \in Int
      OBVIOUS
    <3>3. First + (i + 1) - 1 = First' + i - 1
      BY <1>2, <1>3, <3>2
    <3> QED  BY <3>1, <3>3
  <2> QED  BY <2>3
<1>7. \A i \in 1..Len(wq) : wq[i] # Bye => wq[i] \in Nat
  BY Types
<1>8. PlaceInv'
  <2>1. Len(ctx') <= next' /\ numWritten' <= First'
    <3>1. Len(ctx) <= next
      BY DEF PathInv, PlaceInv
    <3> QED  BY <1>1, <1>2, <1>3, <3>1, Types
  <2>2. ASSUME NEW v \in Workers, Holding(v)'
        PROVE  numWritten' <= worker'[v].fr /\ worker'[v].fr < First'
    <3>1. CASE v = w
      BY <1>2, <1>3, <1>5, <3>1
    <3>2. CASE v # w
      <4>1. Holding(v) /\ worker'[v] = worker[v]
        BY <1>5, <2>2, <3>2
      <4>2. OnItsWay(worker[v].fr) /\ worker[v].fr \in Nat
        BY <4>1, Types DEF PathInv, PlaceInv
      <4> QED  BY <1>4, <4>1, <4>2
    <3> QED  BY <3>1, <3>2
  <2>3. ASSUME NEW i \in 1..Len(wq), wq[i] # Bye
        PROVE  numWritten' <= wq[i] /\ wq[i] < First'
    BY <1>4, <1>7, <2>3 DEF PathInv, PlaceInv
  <2>4. writer = "place" => numWritten' <= cur /\ cur < First'
    BY <1>4, Types DEF PathInv, PlaceInv
  <2>5. \A fr \in reorder : numWritten' <= fr /\ fr < First'
    <3>1. \A fr \in reorder : fr \in Nat /\ OnItsWay(fr)
      BY Types DEF PathInv, PlaceInv
    <3> QED  BY <1>4, <3>1
  <2>6. writer # "back" => numWritten \notin reorder
    BY DEF PathInv, PlaceInv
  <2> QED
    BY <1>1, <1>6, <2>1, <2>2, <2>3, <2>4, <2>5, <2>6 DEF PlaceInv, OnItsWay
<1>9. UniqueInv'
  <2>1. \A v \in Workers : Holding(v) => worker[v].fr # First
    BY <1>4, Types DEF PathInv, PlaceInv
  <2>2. \A i \in 1..Len(wq) : wq[i] # First
    <3>1. First # Bye
      BY <1>3, ByeAssumption
    <3>2. \A i \in 1..Len(wq) : wq[i] # Bye => OnItsWay(wq[i])
      BY DEF PathInv, PlaceInv
    <3> QED  BY <1>4, <1>7, <3>1, <3>2
  <2>3. First \notin reorder /\ (writer = "place" => cur # First)
    <3>1. \A fr \in reorder : fr \in Nat /\ OnItsWay(fr)
      BY Types DEF PathInv, PlaceInv
    <3>2. writer = "place" => OnItsWay(cur)
      BY DEF PathInv, PlaceInv
    <3> QED  BY <1>4, <3>1, <3>2, Types
  <2> QED
    BY <1>1, <1>5, <2>1, <2>2, <2>3 DEF PathInv, UniqueInv
<1> QED
  BY <1>8, <1>9 DEF PathInv

LEMMA WorkerSendPath ==
    ASSUME TypeInv, PathInv, NEW w \in Workers, WorkerSend(w)
    PROVE  PathInv'
<1>1. CASE WriterGone
  <2>1. /\ UNCHANGED <<next, ctx, wq, writer, cur, reorder, numWritten>>
        /\ worker' = [worker EXCEPT ![w].pc = "failed"]
    BY <1>1 DEF WorkerSend, Go, mainVars, writerVars
  <2>2. \A v \in Workers : Holding(v)' => Holding(v) /\ worker'[v].fr = worker[v].fr
    BY <2>1 DEF Holding, TypeInv, TypeOK
  <2> QED  BY <2>1, <2>2, NothingMoves
<1>2. CASE ~WriterGone
  <2> DEFINE fr == worker[w].fr
  <2>1. /\ UNCHANGED <<next, ctx, writer, cur, reorder, numWritten>>
        /\ worker' = [worker EXCEPT ![w].pc = "recv"]
        /\ wq' = Append(wq, fr) /\ Holding(w)
    BY <1>2 DEF WorkerSend, Go, Holding, mainVars, writerVars
  <2>2. /\ ~Holding(w)'
        /\ \A v \in Workers \ {w} : Holding(v)' = Holding(v) /\ worker'[v] = worker[v]
    BY <2>1 DEF Holding, TypeInv, TypeOK
  <2>3. /\ Len(wq') = Len(wq) + 1 /\ wq'[Len(wq) + 1] = fr
        /\ \A i \in 1..Len(wq) : wq'[i] = wq[i]
        /\ \A i \in 1..Len(wq') : i \in 1..Len(wq) \/ i = Len(wq) + 1
    BY <2>1, Types
  <2>4. First' = First /\ \A k : OnItsWay(k)' = OnItsWay(k)
    BY <2>1 DEF First, OnItsWay
  <2>5. PlaceInv'
    BY <2>1, <2>2, <2>3, <2>4 DEF PathInv, PlaceInv
  <2>6. UniqueInv'
    BY <2>1, <2>2, <2>3 DEF PathInv, UniqueInv
  <2> QED  BY <2>5, <2>6 DEF PathInv
<1> QED
  BY <1>1, <1>2

LEMMA WorkerPath ==
    ASSUME TypeInv, PathInv, NEW w \in Workers, Worker(w)
    PROVE  PathInv'
<1>1. CASE WorkerClosed(w) \/ WorkerProcess(w) \/ WorkerFails(w)
  <2>1. UNCHANGED <<next, ctx, wq, writer, cur, reorder, numWritten>>
    BY <1>1 DEF WorkerClosed, WorkerProcess, WorkerFails, mainVars, writerVars
  <2>2. \A v \in Workers : Holding(v)' => Holding(v) /\ worker'[v].fr = worker[v].fr
    <3>1. \E pc \in {"bye", "exited", "send", "panicked"} :
            /\ worker' = [worker EXCEPT ![w].pc = pc]
            /\ pc = "send" => Holding(w)
      BY <1>1 DEF WorkerClosed, WorkerProcess, WorkerFails, Go, Holding
    <3> QED  BY <3>1 DEF Holding, TypeInv, TypeOK
  <2> QED  BY <2>1, <2>2, NothingMoves
<1>2. CASE WorkerBye(w)
  <2>1. /\ UNCHANGED <<next, ctx, writer, cur, reorder, numWritten>>
        /\ worker' = [worker EXCEPT ![w].pc = "exited"]
        /\ wq' = wq \/ wq' = Append(wq, Bye)
    BY <1>2 DEF WorkerBye, Go, mainVars, writerVars
  <2>2. \A v \in Workers : Holding(v)' => Holding(v) /\ worker'[v].fr = worker[v].fr
    BY <2>1 DEF Holding, TypeInv, TypeOK
  <2>3. CASE wq' = wq
    BY <2>1, <2>2, <2>3, NothingMoves
  <2>4. CASE wq' = Append(wq, Bye)
    <3>1. /\ Len(wq') = Len(wq) + 1 /\ wq'[Len(wq) + 1] = Bye
          /\ \A i \in 1..Len(wq) : wq'[i] = wq[i]
          /\ \A i \in 1..Len(wq') : i \in 1..Len(wq) \/ i = Len(wq) + 1
      BY <2>4, Types
    <3>2. First' = First /\ \A k : OnItsWay(k)' = OnItsWay(k)
      BY <2>1 DEF First, OnItsWay
    <3>3. Bye \notin reorder /\ Bye # cur /\ \A v \in Workers : worker[v].fr # Bye
      BY Types, ByeAssumption
    <3>4. PlaceInv'
      BY <2>1, <2>2, <3>1, <3>2 DEF PathInv, PlaceInv
    <3>5. UniqueInv'
      <4>1. \A v, u \in Workers :
              Holding(v)' /\ Holding(u)' /\ v # u => worker'[v].fr # worker'[u].fr
        BY <2>2 DEF PathInv, UniqueInv
      <4>2. \A v \in Workers, i \in 1..Len(wq') : Holding(v)' => wq'[i] # worker'[v].fr
        BY <2>2, <3>1, <3>3 DEF PathInv, UniqueInv
      <4>3. \A i, j \in 1..Len(wq') : i # j /\ wq'[i] # Bye => wq'[i] # wq'[j]
        BY <3>1 DEF PathInv, UniqueInv
      <4>4. /\ \A v \in Workers : Holding(v)' => worker'[v].fr \notin reorder'
            /\ \A i \in 1..Len(wq') : wq'[i] \notin reorder'
        BY <2>1, <2>2, <3>1, <3>3 DEF PathInv, UniqueInv
      <4>5. writer' = "place" =>
              /\ cur' \notin reorder'
              /\ \A v \in Workers : Holding(v)' => worker'[v].fr # cur'
              /\ \A i \in 1..Len(wq') : wq'[i] # cur'
        BY <2>1, <2>2, <3>1, <3>3 DEF PathInv, UniqueInv
      <4> QED  BY <4>1, <4>2, <4>3, <4>4, <4>5 DEF UniqueInv
    <3> QED  BY <3>4, <3>5 DEF PathInv
  <2> QED  BY <2>1, <2>3, <2>4
<1> QED
  BY <1>1, <1>2, WorkerRecvPath, WorkerSendPath DEF Worker

LEMMA CallerPath == ASSUME TypeInv, PathInv, Caller PROVE PathInv'
<1>1. CASE MainSend
  BY <1>1, MainSendPath
<1>2. CASE ~MainSend
  <2>1. UNCHANGED <<next, ctx, wq, writer, cur, reorder, numWritten, worker>>
    BY <1>2 DEF Caller, MainFresh, MainRecycle, MainOrphaned, MainRead, MainReadFails,
         MainEof, MainJoinWriter, MainJoinWorkers, workerVars, writerVars
  <2> QED  BY <2>1, NothingMoves DEF Holding
<1> QED
  BY <1>1, <1>2

\* The frame in the writer's hand came off wq.
LEMMA WriterRecvPath == ASSUME TypeInv, PathInv, WriterRecv PROVE PathInv'
<1>1. /\ writer = "recv" /\ wq # <<>> /\ Head(wq) # Bye
      /\ wq' = Tail(wq) /\ cur' = Head(wq) /\ writer' = "place"
      /\ UNCHANGED <<next, ctx, worker, reorder, numWritten>>
  BY DEF WriterRecv, mainVars, workerVars
<1>2. /\ Len(wq) >= 1 /\ Len(wq') = Len(wq) - 1 /\ cur' = wq[1] /\ wq[1] # Bye
      /\ \A i \in 1..Len(wq') : wq'[i] = wq[i + 1]
      /\ \A i \in 1..Len(wq') : i + 1 \in 1..Len(wq) /\ i + 1 # 1
      /\ 1 \in 1..Len(wq)
  BY SMTT(30), <1>1, Types
<1>3. First' = First /\ \A k : OnItsWay(k)' = OnItsWay(k)
  BY <1>1 DEF First, OnItsWay
<1>4. OnItsWay(wq[1])
  BY <1>2 DEF PathInv, PlaceInv
<1>5. PlaceInv'
  <2>1. numWritten <= cur' /\ cur' < First
    BY <1>2, <1>4 DEF OnItsWay
  <2>2. \A i \in 1..Len(wq') : wq'[i] # Bye => OnItsWay(wq'[i])
    BY <1>2 DEF PathInv, PlaceInv
  <2>3. \A i \in 1..Len(wq') : wq'[i] # Bye => numWritten' <= wq'[i] /\ wq'[i] < First'
    BY <1>1, <1>3, <2>2 DEF OnItsWay
  <2>4. \A w \in Workers : Holding(w)' => numWritten' <= worker'[w].fr /\ worker'[w].fr < First'
    BY <1>1, <1>3 DEF PathInv, PlaceInv, OnItsWay, Holding
  <2>5. \A fr \in reorder' : numWritten' <= fr /\ fr < First'
    BY <1>1, <1>3 DEF PathInv, PlaceInv, OnItsWay
  <2>6. /\ Len(ctx') <= next' /\ numWritten' <= First' /\ numWritten' \notin reorder'
        /\ \A i \in 1..Len(ctx') : ctx'[i] = First' + i - 1
    BY <1>1, <1>3 DEF PathInv, PlaceInv
  <2> QED
    BY <1>1, <1>3, <2>1, <2>3, <2>4, <2>5, <2>6 DEF PlaceInv, OnItsWay
<1>6. UniqueInv'
  <2>1. \A w \in Workers : Holding(w) => worker[w].fr # cur'
    BY <1>2 DEF PathInv, UniqueInv
  <2>2. \A i \in 1..Len(wq') : wq'[i] # cur'
    BY <1>2 DEF PathInv, UniqueInv
  <2>3. \A i, j \in 1..Len(wq') : i # j /\ wq'[i] # Bye => wq'[i] # wq'[j]
    <3>1. \A i, j \in 1..Len(wq') : i # j => i + 1 # j + 1
      BY <1>2
    <3> QED  BY SMTT(30), <1>2, <3>1 DEF PathInv, UniqueInv
  <2>4. /\ \A w \in Workers, i \in 1..Len(wq') : Holding(w) => wq'[i] # worker[w].fr
        /\ \A i \in 1..Len(wq') : wq'[i] \notin reorder
        /\ cur' \notin reorder
    BY <1>2 DEF PathInv, UniqueInv
  <2> QED
    BY <1>1, <2>1, <2>2, <2>3, <2>4 DEF PathInv, UniqueInv, Holding
<1> QED
  BY <1>5, <1>6 DEF PathInv

LEMMA WriterByePath == ASSUME TypeInv, PathInv, WriterBye PROVE PathInv'
<1>1. /\ writer = "recv" /\ wq # <<>> /\ wq' = Tail(wq) /\ writer' \in {"recv", "exited"}
      /\ UNCHANGED <<next, ctx, worker, cur, reorder, numWritten>>
  BY DEF WriterBye, mainVars, workerVars
<1>2. /\ \A i \in 1..Len(wq') : wq'[i] = wq[i + 1] /\ i + 1 \in 1..Len(wq)
      /\ \A i, j \in 1..Len(wq') : i # j => i + 1 # j + 1
  BY <1>1, Types
<1>3. First' = First /\ \A k : OnItsWay(k)' = OnItsWay(k)
  BY <1>1 DEF First, OnItsWay
<1>4. PlaceInv'
  <2>1. \A i \in 1..Len(wq') : wq'[i] # Bye => OnItsWay(wq'[i])
    BY <1>2 DEF PathInv, PlaceInv
  <2>2. \A i \in 1..Len(wq') : wq'[i] # Bye => numWritten' <= wq'[i] /\ wq'[i] < First'
    BY <1>1, <1>3, <2>1 DEF OnItsWay
  <2> QED  BY <1>1, <1>3, <2>2 DEF PathInv, PlaceInv, OnItsWay, Holding
<1>5. UniqueInv'
  <2>1. \A i, j \in 1..Len(wq') : i # j /\ wq'[i] # Bye => wq'[i] # wq'[j]
    BY SMTT(30), <1>2 DEF PathInv, UniqueInv
  <2>2. /\ \A w \in Workers, i \in 1..Len(wq') : Holding(w) => wq'[i] # worker[w].fr
        /\ \A i \in 1..Len(wq') : wq'[i] \notin reorder
    BY <1>2 DEF PathInv, UniqueInv
  <2> QED
    BY <1>1, <2>1, <2>2 DEF PathInv, UniqueInv, Holding
<1> QED
  BY <1>4, <1>5 DEF PathInv

LEMMA WriterStashPath == ASSUME TypeInv, PathInv, WriterStash PROVE PathInv'
<1>1. /\ writer = "place" /\ cur # numWritten /\ reorder' = reorder \cup {cur}
      /\ writer' = "recv" /\ UNCHANGED <<next, ctx, worker, wq, cur, numWritten>>
  BY DEF WriterStash, mainVars, workerVars
<1>2. First' = First /\ \A k : OnItsWay(k)' = OnItsWay(k)
  BY <1>1 DEF First, OnItsWay
<1>3. PlaceInv'
  <2>1. /\ \A fr \in reorder' : OnItsWay(fr)
        /\ numWritten' \notin reorder'
    BY <1>1 DEF PathInv, PlaceInv
  <2>2. \A fr \in reorder' : numWritten' <= fr /\ fr < First'
    BY <1>1, <1>2, <2>1 DEF OnItsWay
  <2> QED  BY <1>1, <1>2, <2>1, <2>2 DEF PathInv, PlaceInv, OnItsWay, Holding
<1>4. UniqueInv'
  BY <1>1 DEF PathInv, UniqueInv, Holding
<1> QED
  BY <1>3, <1>4 DEF PathInv

\* The frame written is the only one with its number: the others are later.
LEMMA WriterWritePath == ASSUME TypeInv, PathInv, WriterWrite PROVE PathInv'
<1>1. /\ writer = "place" /\ cur = numWritten /\ numWritten' = numWritten + 1
      /\ writer' = "back" /\ UNCHANGED <<next, ctx, worker, wq, cur, reorder>>
  BY DEF WriterWrite, mainVars, workerVars
<1>2. First' = First /\ First \in Int /\ numWritten \in Nat
  BY <1>1, Types DEF First
<1>3. \A fr \in Nat : OnItsWay(fr) /\ fr # cur => numWritten' <= fr /\ fr < First'
  BY <1>1, <1>2 DEF OnItsWay
<1>4. numWritten' <= First'
  BY <1>1, <1>2 DEF PathInv, PlaceInv, OnItsWay
<1>5. \A w \in Workers : Holding(w) => numWritten' <= worker[w].fr /\ worker[w].fr < First'
  <2>1. \A w \in Workers : Holding(w) => OnItsWay(worker[w].fr) /\ worker[w].fr # cur
    BY <1>1 DEF PathInv, PlaceInv, UniqueInv
  <2> QED  BY <1>3, <2>1, Types
<1>6. \A i \in 1..Len(wq) : wq[i] # Bye => numWritten' <= wq[i] /\ wq[i] < First'
  <2>1. \A i \in 1..Len(wq) : wq[i] # Bye => OnItsWay(wq[i]) /\ wq[i] # cur /\ wq[i] \in Nat
    BY <1>1, Types DEF PathInv, PlaceInv, UniqueInv
  <2> QED  BY <1>3, <2>1
<1>7. \A fr \in reorder : numWritten' <= fr /\ fr < First'
  <2>1. \A fr \in reorder : OnItsWay(fr) /\ fr # cur /\ fr \in Nat
    BY <1>1, Types DEF PathInv, PlaceInv, UniqueInv
  <2> QED  BY <1>3, <2>1
<1>8. PlaceInv'
  BY <1>1, <1>2, <1>4, <1>5, <1>6, <1>7 DEF PathInv, PlaceInv, OnItsWay, Holding
<1>9. UniqueInv'
  BY <1>1 DEF PathInv, UniqueInv, Holding
<1> QED
  BY <1>8, <1>9 DEF PathInv

LEMMA WriterBackPath == ASSUME TypeInv, PathInv, WriterBack PROVE PathInv'
<1>1. writer = "back" /\ UNCHANGED <<next, ctx, worker, wq, numWritten>>
  BY DEF WriterBack, mainVars, workerVars
<1>2. First' = First /\ \A k : OnItsWay(k)' = OnItsWay(k)
  BY <1>1 DEF First, OnItsWay
<1>3. CASE numWritten \in reorder
  <2>1. \A fr \in reorder : numWritten <= fr
    BY DEF PathInv, PlaceInv, OnItsWay
  <2>2. /\ cur' = numWritten /\ reorder' = reorder \ {numWritten}
        /\ writer' \in {"place", "exited"}
    BY <1>3, <2>1 DEF WriterBack
  <2>3. PlaceInv'
    <3>1. OnItsWay(numWritten)
      BY <1>3 DEF PathInv, PlaceInv
    <3>2. numWritten' <= cur' /\ cur' < First'
      BY <1>1, <1>2, <2>2, <3>1 DEF OnItsWay
    <3>3. \A fr \in reorder' : numWritten' <= fr /\ fr < First'
      BY <1>1, <1>2, <2>2 DEF PathInv, PlaceInv, OnItsWay
    <3>4. numWritten' \notin reorder'
      BY <1>1, <2>2
    <3> QED
      BY <1>1, <1>2, <2>2, <3>2, <3>3, <3>4 DEF PathInv, PlaceInv, OnItsWay, Holding
  <2>4. UniqueInv'
    BY <1>1, <1>3, <2>2 DEF PathInv, UniqueInv, Holding
  <2> QED  BY <2>3, <2>4 DEF PathInv
<1>4. CASE numWritten \notin reorder
  <2>1. writer' = "recv" /\ UNCHANGED <<cur, reorder>>
    BY <1>4 DEF WriterBack
  <2>2. PlaceInv'
    BY <1>1, <1>2, <1>4, <2>1 DEF PathInv, PlaceInv, OnItsWay, Holding
  <2>3. UniqueInv'
    BY <1>1, <2>1 DEF PathInv, UniqueInv, Holding
  <2> QED  BY <2>2, <2>3 DEF PathInv
<1> QED
  BY <1>3, <1>4

LEMMA WriterPath == ASSUME TypeInv, PathInv, Writer PROVE PathInv'
<1>1. CASE WriterClosed \/ WriterFails
  <2>1. /\ UNCHANGED <<next, ctx, worker, wq, cur, reorder, numWritten>>
        /\ writer \in {"recv", "place"} /\ writer' \in {"exited", "panicked"}
    BY <1>1 DEF WriterClosed, WriterFails, mainVars, workerVars
  <2>2. First' = First
    BY <2>1 DEF First
  <2>3. PlaceInv' /\ UniqueInv'
    BY <2>1, <2>2 DEF PathInv, PlaceInv, UniqueInv, OnItsWay, Holding
  <2> QED  BY <2>3 DEF PathInv
<1> QED
  BY <1>1, WriterRecvPath, WriterByePath, WriterStashPath, WriterWritePath,
     WriterBackPath DEF Writer

LEMMA PathInit == Init => PathInv
  BY Constants DEF Init, PathInv, PlaceInv, UniqueInv, Holding, OnItsWay, First

LEMMA PathStep == TypeInv /\ PathInv /\ [Next]_vars => PathInv'
<1>1. ASSUME PathInv, Disk \/ UNCHANGED vars PROVE PathInv'
  BY <1>1, DiskAlone, NothingMoves DEF restVars, Holding
<1> QED
  BY <1>1, CallerPath, WorkerPath, WriterPath DEF Next

RingInv == TypeInv /\ OutInv /\ BufferInv /\ PathInv

LEMMA RingInit == Init => RingInv
<1>1. Init => BufferInv
  BY Constants DEF Init, BufferInv
<1>2. Init => OutInv
  BY DEF Init, OutInv, InOrder
<1> QED
  BY <1>1, <1>2, TypeInit, PathInit DEF RingInv

LEMMA RingStep == RingInv /\ [Next]_vars => RingInv'
  BY TypeStep, OutStep, BufferStep, PathStep DEF RingInv

THEOREM RingInvHolds == Spec => []RingInv
  BY RingInit, RingStep, PTL DEF Spec

LEMMA SmallSet ==
    ASSUME NEW S, NEW a \in Int, NEW b \in Int, NEW n \in Nat, n > 0,
           S \subseteq a..b, b - a + 1 < n
    PROVE  Cardinality(S) < n
<1>1. IsFiniteSet(a..b) /\ Cardinality(a..b) = IF a > b THEN 0 ELSE b - a + 1
  BY FS_Interval
<1>2. IsFiniteSet(S) /\ Cardinality(S) <= Cardinality(a..b)
  BY <1>1, FS_Subset
<1>3. Cardinality(S) \in Nat /\ Cardinality(a..b) \in Nat
  BY <1>1, <1>2, FS_CardinalityType
<1>4. Cardinality(a..b) < n
  BY <1>1
<1> QED
  BY <1>2, <1>3, <1>4

\* The frames on their way are numbered numWritten to First - 1, and there
\* are no more of them than buffer pairs: so the two sends have room, and
\* fewer than num_workers frames wait in the reorder list.
LEMMA RingBoundedFromInv == RingInv => RingBounded
<1> SUFFICES ASSUME RingInv PROVE RingBounded
  OBVIOUS
<1>1. /\ next \in Nat /\ numWritten \in Nat /\ rq \in Nat /\ N \in Nat /\ N >= 2
      /\ outstanding \in Nat /\ outstanding <= N /\ Len(ctx) \in Nat /\ First \in Int
      /\ reorder \subseteq Nat
  BY Types, Constants DEF RingInv, TypeInv, TypeOK
<1>2. numWritten <= First /\ First = next - Len(ctx)
  BY DEF RingInv, PathInv, PlaceInv, First
<1>3. SendsHaveRoom
  BY <1>1, <1>2 DEF RingInv, BufferInv, SendsHaveRoom
<1>4. \A fr \in reorder : numWritten <= fr /\ fr <= First - 1
  <2>1. \A fr \in reorder : fr \in Nat /\ numWritten <= fr /\ fr < First
    BY <1>1 DEF RingInv, PathInv, PlaceInv, OnItsWay
  <2> QED  BY <1>1, <2>1
<1>5. ReorderBounded
  <2>1. CASE writer = "back"
    <3>1. (First - 1) - numWritten + 1 < N
      BY <1>1, <1>2, <2>1 DEF RingInv, BufferInv
    <3>2. reorder \subseteq numWritten..(First - 1)
      BY <1>1, <1>4
    <3>3. First - 1 \in Int /\ numWritten \in Int /\ N > 0
      BY <1>1
    <3> QED  BY <1>1, <3>1, <3>2, <3>3, SmallSet DEF ReorderBounded
  <2>2. CASE writer # "back"
    <3>1. numWritten \notin reorder
      BY <2>2 DEF RingInv, PathInv, PlaceInv
    <3>2. reorder \subseteq (numWritten + 1)..(First - 1)
      BY <1>1, <1>4, <3>1
    <3>3. (First - 1) - (numWritten + 1) + 1 < N
      BY <1>1, <1>2 DEF RingInv, BufferInv
    <3>4. First - 1 \in Int /\ numWritten + 1 \in Int /\ N > 0
      BY <1>1
    <3> QED  BY <1>1, <3>2, <3>3, <3>4, SmallSet DEF ReorderBounded
  <2> QED  BY <2>1, <2>2
<1> QED
  BY <1>3, <1>5 DEF RingBounded

\* The caller's blocking send never finds ctx full, the writer's never finds
\* rq full, and fewer than num_workers frames wait in the reorder list.
THEOREM RingBoundedHolds == Spec => []RingBounded
  BY RingInvHolds, RingBoundedFromInv, PTL

-----------------------------------------------------------------------------
(* No frame is lost. *)

InRing(fr) ==
    \/ \E w \in Workers : Holding(w) /\ worker[w].fr = fr
    \/ \E i \in 1..Len(wq) : wq[i] = fr
    \/ writer = "place" /\ cur = fr
    \/ fr \in reorder

\* A frame may have been dropped on its way.
Lost == writer = "panicked" \/ \E w \in Workers : worker[w].pc \in {"failed", "panicked"}

\* Until then every frame on its way is somewhere.
KeptInv == Lost \/ \A fr \in Frames : OnItsWay(fr) => InRing(fr)

LEMMA LostStays == ASSUME TypeInv, [Next]_vars, Lost PROVE Lost'
<1>1. ASSUME NEW w \in Workers, Worker(w) PROVE Lost'
  <2>1. /\ writer' = writer
        /\ worker[w].pc \notin {"failed", "panicked"}
        /\ \A v \in Workers : v # w => worker'[v] = worker[v]
    BY <1>1 DEF TypeInv, TypeOK, Worker, WorkerRecv, WorkerClosed, WorkerProcess, WorkerFails,
       WorkerSend, WorkerBye, Go, writerVars
  <2> QED  BY <2>1 DEF Lost
<1>2. CASE Caller \/ Disk \/ UNCHANGED vars
  <2>1. writer' = writer /\ worker' = worker
    BY <1>2, DiskAlone DEF restVars, Caller, MainFresh, MainRecycle, MainOrphaned, MainRead, MainReadFails, MainSend,
       MainEof, MainJoinWriter, MainJoinWorkers, workerVars, writerVars
  <2> QED  BY <2>1 DEF Lost
<1>3. CASE Writer
  <2>1. writer # "panicked" /\ worker' = worker
    BY <1>3 DEF Writer, WriterRecv, WriterBye, WriterClosed, WriterStash, WriterWrite,
                WriterFails, WriterBack, workerVars
  <2> QED  BY <2>1 DEF Lost
<1> QED
  BY <1>1, <1>2, <1>3 DEF Next

\* A step that takes nothing off the ring but what it writes.
LEMMA StillInRing ==
    ASSUME TypeInv, [Next]_vars, KeptInv,
           \/ Lost'
           \/ \A fr \in Frames : OnItsWay(fr)' /\ (OnItsWay(fr) => InRing(fr)) => InRing(fr)'
    PROVE  KeptInv'
  BY LostStays, SameFrames DEF KeptInv

LEMMA CallerKeeps == ASSUME TypeInv, KeptInv, Caller PROVE KeptInv'
<1>1. UNCHANGED <<worker, wq, writer, cur, reorder, numWritten>>
  BY DEF Caller, MainFresh, MainRecycle, MainOrphaned, MainRead, MainReadFails, MainSend,
     MainEof, MainJoinWriter, MainJoinWorkers, workerVars, writerVars
<1>2. First' = First
  <2>1. CASE MainSend
    BY <2>1, Types DEF MainSend, First
  <2> QED
    BY <2>1 DEF Caller, MainFresh, MainRecycle, MainOrphaned, MainRead, MainReadFails,
       MainEof, MainJoinWriter, MainJoinWorkers, First
<1>3. \A fr : (OnItsWay(fr)' <=> OnItsWay(fr)) /\ (InRing(fr) => InRing(fr)')
  BY <1>1, <1>2 DEF OnItsWay, InRing, Holding
<1> QED
  BY <1>3, StillInRing DEF Next

LEMMA WorkerKeeps ==
    ASSUME TypeInv, PathInv, KeptInv, NEW w \in Workers, Worker(w) PROVE KeptInv'
<1>1. UNCHANGED <<next, writer, cur, reorder, numWritten>>
  BY DEF Worker, WorkerRecv, WorkerClosed, WorkerProcess, WorkerFails, WorkerSend, WorkerBye,
     mainVars, writerVars
<1>2. \A v \in Workers : v # w => worker'[v] = worker[v]
  BY DEF TypeInv, TypeOK, Worker, WorkerRecv, WorkerClosed, WorkerProcess, WorkerFails,
     WorkerSend, WorkerBye, Go
<1>3. \A fr : (\E v \in Workers \ {w} : Holding(v) /\ worker[v].fr = fr) => InRing(fr)'
  BY <1>2 DEF InRing, Holding
<1>4. \A fr : (writer = "place" /\ cur = fr) \/ fr \in reorder => InRing(fr)'
  BY <1>1 DEF InRing
<1>5. CASE WorkerRecv(w)
  <2>1. /\ ~Holding(w) /\ worker'[w] = [pc |-> "process", fr |-> First]
        /\ wq' = wq /\ First' = First + 1 /\ First \in Int
    <3>1. ctx # <<>> /\ ctx' = Tail(ctx) /\ wq' = wq /\ ~Holding(w)
          /\ worker' = [worker EXCEPT ![w] = [pc |-> "process", fr |-> Head(ctx)]]
      BY <1>5 DEF WorkerRecv, Holding
    <3>2. Len(ctx) >= 1 /\ Len(ctx') = Len(ctx) - 1 /\ Head(ctx) = First
      BY <3>1, Types DEF PathInv, PlaceInv
    <3> QED  BY SMTT(30), <1>1, <3>1, <3>2, Types DEF First, TypeInv, TypeOK
  <2>2. \A fr : fr = First => InRing(fr)'
    BY <2>1 DEF InRing, Holding
  <2>3. \A fr : InRing(fr) => InRing(fr)'
    <3>1. \A fr : (\E i \in 1..Len(wq) : wq[i] = fr) => InRing(fr)'
      BY <2>1 DEF InRing
    <3> QED  BY <1>3, <1>4, <2>1, <3>1 DEF InRing
  <2>4. \A fr \in Frames : OnItsWay(fr)' => OnItsWay(fr) \/ fr = First
    BY <1>1, <2>1, Types DEF OnItsWay
  <2> QED  BY <2>2, <2>3, <2>4, StillInRing DEF Next
<1>6. CASE WorkerClosed(w) \/ WorkerProcess(w)
  <2>1. /\ Holding(w) => worker'[w].pc = "send" /\ worker'[w].fr = worker[w].fr
        /\ wq' = wq /\ ctx' = ctx
    BY <1>6 DEF WorkerClosed, WorkerProcess, Go, Holding, TypeInv, TypeOK
  <2>2. \A fr : InRing(fr) => InRing(fr)'
    <3>1. \A fr : (\E i \in 1..Len(wq) : wq[i] = fr) => InRing(fr)'
      BY <2>1 DEF InRing
    <3>2. \A fr : Holding(w) /\ worker[w].fr = fr => InRing(fr)'
      BY <2>1 DEF InRing, Holding
    <3> QED  BY <1>3, <1>4, <3>1, <3>2 DEF InRing
  <2>3. \A fr : OnItsWay(fr)' <=> OnItsWay(fr)
    BY <1>1, <2>1 DEF OnItsWay, First
  <2> QED  BY <2>2, <2>3, StillInRing DEF Next
<1>7. CASE WorkerFails(w) \/ (WorkerSend(w) /\ WriterGone)
  <2>1. \E pc \in {"failed", "panicked"} : worker' = [worker EXCEPT ![w].pc = pc]
    BY <1>7 DEF WorkerFails, WorkerSend, Go
  <2>2. worker'[w].pc \in {"failed", "panicked"}
    BY <2>1 DEF TypeInv, TypeOK
  <2>3. Lost'
    BY <2>2 DEF Lost
  <2> QED  BY <2>3, StillInRing DEF Next
<1>8. CASE (WorkerSend(w) /\ ~WriterGone) \/ WorkerBye(w)
  <2>1. /\ ctx' = ctx
        /\ Holding(w) => wq' = Append(wq, worker[w].fr)
        /\ wq' = wq \/ wq' = Append(wq, worker[w].fr) \/ wq' = Append(wq, Bye)
    BY <1>8 DEF WorkerSend, WorkerBye, Holding
  <2>2. \A fr : (\E i \in 1..Len(wq) : wq[i] = fr) => (\E i \in 1..Len(wq') : wq'[i] = fr)
    <3>1. /\ Len(wq) \in Nat /\ Len(wq') \in Nat /\ Len(wq') >= Len(wq)
          /\ \A i \in 1..Len(wq) : wq'[i] = wq[i]
      <4>1. wq \in Seq(Frames \cup {Bye}) /\ Len(wq) \in Nat
        BY Types
      <4>2. CASE wq' = wq
        BY <4>1, <4>2
      <4>3. ASSUME NEW x, wq' = Append(wq, x)
            PROVE  /\ Len(wq') = Len(wq) + 1
                   /\ \A i \in 1..Len(wq) : wq'[i] = wq[i]
        BY <4>1, <4>3
      <4> QED
        BY <2>1, <4>1, <4>2, <4>3
    <3>2. 1..Len(wq) \subseteq 1..Len(wq')
      BY <3>1
    <3> QED  BY <3>1, <3>2
  <2>3. Holding(w) => \E i \in 1..Len(wq') : wq'[i] = worker[w].fr
    <3>1. Holding(w) => Len(wq) + 1 \in 1..Len(wq') /\ wq'[Len(wq) + 1] = worker[w].fr
      BY <2>1, Types
    <3> QED  BY <3>1
  <2>4. \A fr : InRing(fr) => InRing(fr)'
    BY <1>3, <1>4, <2>2, <2>3 DEF InRing
  <2>5. \A fr : OnItsWay(fr)' <=> OnItsWay(fr)
    BY <1>1, <2>1 DEF OnItsWay, First
  <2> QED  BY <2>4, <2>5, StillInRing DEF Next
<1> QED
  BY <1>5, <1>6, <1>7, <1>8 DEF Worker

LEMMA WriterKeeps == ASSUME TypeInv, PathInv, KeptInv, Writer PROVE KeptInv'
<1>1. UNCHANGED <<next, ctx, worker>>
  BY DEF Writer, WriterRecv, WriterBye, WriterClosed, WriterStash, WriterWrite, WriterFails,
     WriterBack, mainVars, workerVars
<1>2. First' = First
  BY <1>1 DEF First
<1>3. \A fr : (\E w \in Workers : Holding(w) /\ worker[w].fr = fr) => InRing(fr)'
  BY <1>1 DEF InRing, Holding
<1>4. CASE WriterRecv \/ WriterBye
  <2>1. /\ writer = "recv" /\ wq # <<>> /\ wq' = Tail(wq)
        /\ Head(wq) = Bye \/ (writer' = "place" /\ cur' = Head(wq))
        /\ UNCHANGED <<reorder, numWritten>>
    BY <1>4 DEF WriterRecv, WriterBye
  <2>2. /\ Head(wq) = wq[1] /\ Len(wq) \in Nat /\ Len(wq') = Len(wq) - 1
        /\ \A i \in 1..Len(wq') : wq'[i] = wq[i + 1]
    BY <2>1, Types
  <2>3. ASSUME NEW fr \in Frames, NEW i \in 1..Len(wq), wq[i] = fr PROVE InRing(fr)'
    <3>1. CASE i = 1
      BY <2>1, <2>2, <2>3, <3>1, Types DEF InRing
    <3>2. CASE i # 1
      <4>1. i - 1 \in 1..Len(wq') /\ wq'[i - 1] = fr
        BY <2>2, <2>3, <3>2
      <4> QED  BY <4>1 DEF InRing
    <3> QED  BY <3>1, <3>2
  <2>4. \A fr \in Frames : InRing(fr) => InRing(fr)'
    BY <1>3, <2>1, <2>3 DEF InRing
  <2>5. \A fr : OnItsWay(fr)' <=> OnItsWay(fr)
    BY <1>2, <2>1 DEF OnItsWay
  <2> QED  BY <2>4, <2>5, StillInRing DEF Next
<1>5. CASE WriterClosed \/ WriterStash
  <2>1. /\ UNCHANGED <<wq, numWritten>> /\ reorder \subseteq reorder'
        /\ writer = "place" => cur \in reorder'
    BY <1>5 DEF WriterClosed, WriterStash
  <2>2. \A fr : InRing(fr) => InRing(fr)'
    BY <1>3, <2>1 DEF InRing
  <2>3. \A fr : OnItsWay(fr)' <=> OnItsWay(fr)
    BY <1>2, <2>1 DEF OnItsWay
  <2> QED  BY <2>2, <2>3, StillInRing DEF Next
<1>6. CASE WriterWrite
  <2>1. /\ UNCHANGED <<wq, reorder>> /\ writer = "place" /\ cur = numWritten
        /\ numWritten' = numWritten + 1 /\ numWritten \in Nat
    BY <1>6, Types DEF WriterWrite
  <2>2. \A fr : InRing(fr) => InRing(fr)' \/ fr = numWritten
    BY <1>3, <2>1 DEF InRing
  <2>3. \A fr \in Frames : OnItsWay(fr)' => OnItsWay(fr) /\ fr # numWritten
    BY <1>2, <2>1, Types DEF OnItsWay
  <2> QED  BY <2>2, <2>3, StillInRing DEF Next
<1>7. CASE WriterFails
  <2>1. Lost'
    BY <1>7 DEF WriterFails, Lost
  <2> QED  BY <2>1, StillInRing DEF Next
<1>8. CASE WriterBack
  <2>1. writer = "back" /\ UNCHANGED <<wq, numWritten>>
    BY <1>8 DEF WriterBack
  <2>2. \A fr \in reorder : fr \in reorder' \/ (writer' = "place" /\ cur' = fr)
    <3>1. \A fr \in reorder : fr # numFrames
      BY Types, Constants DEF Frames
    <3> QED  BY <1>8, <3>1 DEF WriterBack
  <2>3. \A fr : InRing(fr) => InRing(fr)'
    BY <1>3, <2>1, <2>2 DEF InRing
  <2>4. \A fr : OnItsWay(fr)' <=> OnItsWay(fr)
    BY <1>2, <2>1 DEF OnItsWay
  <2> QED  BY <2>3, <2>4, StillInRing DEF Next
<1> QED
  BY <1>4, <1>5, <1>6, <1>7, <1>8 DEF Writer

LEMMA KeptInit == Init => KeptInv
  BY FramesAre, TypeInit DEF Init, KeptInv, OnItsWay, First

LEMMA KeptStep == RingInv /\ KeptInv /\ [Next]_vars => KeptInv'
<1>1. ASSUME KeptInv, Disk \/ UNCHANGED vars PROVE KeptInv'
  <2>1. UNCHANGED restVars /\ Frames' = Frames
    BY <1>1, DiskAlone DEF restVars, Frames
  <2> QED  BY <1>1, <2>1 DEF restVars, KeptInv, Lost, OnItsWay, First, InRing, Holding
<1> QED
  BY <1>1, CallerKeeps, WorkerKeeps, WriterKeeps DEF Next, RingInv

\* z tells the holder of frame fr in place p.
Seat(fr, p, z) ==
    \/ p = "ctx"     /\ z \in 1..Len(ctx) /\ ctx[z] = fr
    \/ p = "worker"  /\ z \in Workers /\ Holding(z) /\ worker[z].fr = fr
    \/ p = "wq"      /\ z \in 1..Len(wq) /\ wq[z] = fr
    \/ p = "writer"  /\ z = fr /\ writer = "place" /\ cur = fr
    \/ p = "reorder" /\ z = fr /\ fr \in reorder
    \/ p = "disk"    /\ z = fr /\ disk.pc = "busy" /\ disk.fr = fr
    \/ p = "out"     /\ z \in 1..Len(out) /\ out[z] = fr

LEMMA HoldersAre ==
    ASSUME NEW fr
    PROVE  \A x : x \in Holders(fr) <=> \E p, z : x = <<p, z>> /\ Seat(fr, p, z)
<1> SUFFICES ASSUME NEW x
             PROVE  x \in Holders(fr) <=> \E p, z : x = <<p, z>> /\ Seat(fr, p, z)
  OBVIOUS
<1>1. x \in Holders(fr) => \E p, z : x = <<p, z>> /\ Seat(fr, p, z)
  BY DEF Holders, Seat, Holding
<1>2. ASSUME NEW p, NEW z, x = <<p, z>>, Seat(fr, p, z) PROVE x \in Holders(fr)
  BY <1>2 DEF Holders, Seat, Holding
<1> QED
  BY <1>1, <1>2

\* The frames on ctx come after those on their way, and these after the output.
LEMMA SeatStage ==
    ASSUME RingInv, NEW fr \in Frames, NEW p, NEW z, Seat(fr, p, z)
    PROVE  /\ p = "ctx" => First <= fr
           /\ p \in {"worker", "wq", "writer", "reorder"} => OnItsWay(fr)
           /\ p = "disk" => fr = numWritten - 1 /\ disk.pc # "idle"
           /\ p = "out" => fr < (IF disk.pc = "idle" THEN numWritten ELSE numWritten - 1)
<1>1. /\ First \in Int /\ numWritten \in Nat /\ fr \in Nat /\ fr # Bye
      /\ TypeInv /\ PathInv /\ OutInv
  BY Types DEF RingInv
<1>2. CASE p = "ctx"
  <2>1. z \in 1..Len(ctx) /\ fr = First + z - 1
    BY <1>1, <1>2 DEF Seat, PathInv, PlaceInv
  <2> QED  BY <1>1, <1>2, <2>1
<1>3. CASE p \in {"worker", "wq", "writer", "reorder"}
  BY <1>1, <1>3 DEF Seat, PathInv, PlaceInv
<1>4. CASE p = "out"
  <2>1. z \in 1..Len(out) /\ out[z] = fr
    BY <1>4 DEF Seat
  <2> DEFINE m == IF disk.pc = "idle" THEN numWritten ELSE numWritten - 1
  <2>2. m \in Nat
    BY <1>1 DEF OutInv
  <2>3. out = [i \in 1..m |-> i - 1]
    BY <1>1 DEF OutInv, InOrder
  <2> HIDE DEF m
  <2>4. z \in 1..m /\ fr = z - 1
    BY <2>1, <2>2, <2>3
  <2>5. fr < m
    BY <2>2, <2>4
  <2> QED  BY <1>4, <2>5 DEF m
<1>5. CASE p = "disk"
  BY <1>1, <1>5 DEF Seat, OutInv
<1> QED
  BY <1>2, <1>3, <1>4, <1>5

LEMMA OneSeat ==
    ASSUME RingInv, NEW fr \in Frames, NEW p, NEW y, Seat(fr, p, y),
           NEW q, NEW z, Seat(fr, q, z)
    PROVE  p = q /\ y = z
<1>1. /\ First \in Int /\ numWritten \in Nat /\ fr \in Nat /\ fr # Bye
      /\ TypeInv /\ PathInv /\ OutInv /\ numWritten <= First
  BY Types DEF RingInv, PathInv, PlaceInv
<1>2. /\ p \in {"ctx", "worker", "wq", "writer", "reorder", "disk", "out"}
      /\ q \in {"ctx", "worker", "wq", "writer", "reorder", "disk", "out"}
  BY DEF Seat
<1> DEFINE Mid == {"worker", "wq", "writer", "reorder"}
<1>3. /\ p = "ctx" => First <= fr
      /\ p \in Mid => numWritten <= fr /\ fr < First
      /\ p = "disk" => fr = numWritten - 1 /\ disk.pc # "idle"
      /\ p = "out" => fr < (IF disk.pc = "idle" THEN numWritten ELSE numWritten - 1)
      /\ q = "ctx" => First <= fr
      /\ q \in Mid => numWritten <= fr /\ fr < First
      /\ q = "disk" => fr = numWritten - 1 /\ disk.pc # "idle"
      /\ q = "out" => fr < (IF disk.pc = "idle" THEN numWritten ELSE numWritten - 1)
  BY SeatStage DEF OnItsWay
<1>4. /\ (p = "ctx" <=> q = "ctx") /\ (p = "out" <=> q = "out")
      /\ (p = "disk" <=> q = "disk") /\ (p \in Mid <=> q \in Mid)
  BY <1>1, <1>2, <1>3
<1>5. CASE p = "ctx"
  <2>1. y \in 1..Len(ctx) /\ z \in 1..Len(ctx) /\ fr = First + y - 1 /\ fr = First + z - 1
    BY <1>1, <1>4, <1>5 DEF Seat, PathInv, PlaceInv
  <2> QED  BY <1>1, <1>4, <1>5, <2>1
<1>6. CASE p = "out"
  <2> DEFINE m == IF disk.pc = "idle" THEN numWritten ELSE numWritten - 1
  <2>1. out = [i \in 1..m |-> i - 1] /\ m \in Nat
    BY <1>1 DEF OutInv, InOrder
  <2> HIDE DEF m
  <2>2. y \in 1..m /\ z \in 1..m /\ fr = y - 1 /\ fr = z - 1
    BY <1>4, <1>6, <2>1 DEF Seat
  <2> QED  BY <1>4, <1>6, <2>2
<1>7. CASE p \in Mid
  <2>1. q \in Mid
    BY <1>4, <1>7
  <2> QED  BY <1>1, <1>7, <2>1 DEF Seat, PathInv, UniqueInv
<1>8. CASE p = "disk"
  BY <1>4, <1>8 DEF Seat
<1> QED
  BY <1>2, <1>5, <1>6, <1>7, <1>8

LEMMA HeldUnlessLost ==
    ASSUME RingInv, KeptInv, ~Failed, NEW fr \in Frames, fr < next
    PROVE  Holders(fr) # {}
<1>1. /\ First \in Int /\ numWritten \in Nat /\ fr \in Nat /\ Len(ctx) \in Nat
      /\ TypeInv /\ PathInv /\ OutInv /\ First = next - Len(ctx) /\ next \in Nat
      /\ numWritten <= First
  BY Types DEF RingInv, PathInv, PlaceInv, First
<1>2. CASE First <= fr
  <2> DEFINE k == fr - First + 1
  <2>1. k \in 1..Len(ctx) /\ First + k - 1 = fr
    BY <1>1, <1>2
  <2> HIDE DEF k
  <2>2. ctx[k] = fr
    BY <1>1, <2>1 DEF PathInv, PlaceInv
  <2>3. <<"ctx", k>> \in Holders(fr)
    BY <2>1, <2>2, HoldersAre DEF Seat
  <2> QED  BY <2>3
<1>3. CASE numWritten <= fr /\ fr < First
  <2>1. InRing(fr)
    BY <1>3 DEF KeptInv, OnItsWay, Lost, Failed
  <2>2. \E p, z : Seat(fr, p, z)
    BY <2>1 DEF InRing, Seat
  <2> QED  BY <2>2, HoldersAre
<1>4. CASE fr < (IF disk.pc = "idle" THEN numWritten ELSE numWritten - 1)
  <2> DEFINE m == IF disk.pc = "idle" THEN numWritten ELSE numWritten - 1
  <2>1. out = [i \in 1..m |-> i - 1] /\ m \in Nat /\ fr < m
    BY <1>1, <1>4 DEF OutInv, InOrder
  <2> HIDE DEF m
  <2>2. fr + 1 \in 1..Len(out) /\ out[fr + 1] = fr
    BY <1>1, <2>1
  <2>3. <<"out", fr + 1>> \in Holders(fr)
    BY <2>2, HoldersAre DEF Seat
  <2> QED  BY <2>3
<1>5. CASE disk.pc # "idle" /\ fr = numWritten - 1
  <2>1. disk.pc = "busy" /\ disk.fr = fr
    BY <1>1, <1>5 DEF OutInv, Failed, TypeInv, TypeOK
  <2>2. <<"disk", fr>> \in Holders(fr)
    BY <2>1, HoldersAre DEF Seat
  <2> QED  BY <2>2
<1> QED
  BY <1>1, <1>2, <1>3, <1>4, <1>5

LEMMA ConservedFromInv == ASSUME RingInv, KeptInv PROVE Conserved
<1> SUFFICES ASSUME NEW fr \in Frames
             PROVE  /\ Cardinality(Holders(fr)) <= 1
                    /\ Cardinality(Holders(fr)) = 0 => fr >= next \/ Failed
  BY DEF Conserved
<1>1. Holders(fr) = {} \/ \E x : Holders(fr) = {x}
  <2>1. \A x, y \in Holders(fr) : x = y
    <3> SUFFICES ASSUME NEW x \in Holders(fr), NEW y \in Holders(fr) PROVE x = y
      OBVIOUS
    <3>1. PICK p, s : x = <<p, s>> /\ Seat(fr, p, s)
      BY HoldersAre
    <3>2. PICK q, t : y = <<q, t>> /\ Seat(fr, q, t)
      BY HoldersAre
    <3> QED  BY <3>1, <3>2, OneSeat
  <2> QED  BY <2>1
<1>2. IsFiniteSet(Holders(fr)) /\ Cardinality(Holders(fr)) \in {0, 1}
  <2>1. CASE Holders(fr) = {}
    BY <2>1, FS_EmptySet
  <2>2. ASSUME NEW x, Holders(fr) = {x}
        PROVE  IsFiniteSet(Holders(fr)) /\ Cardinality(Holders(fr)) \in {0, 1}
    BY <2>2, FS_Singleton
  <2> QED  BY <1>1, <2>1, <2>2
<1>3. next \in Nat /\ fr \in Nat
  BY Types DEF RingInv
<1>4. Holders(fr) = {} => fr >= next \/ Failed
  BY <1>3, HeldUnlessLost
<1> QED
  BY <1>2, <1>4, FS_EmptySet

\* A frame sent to the workers is in one place of the ring until it is in the
\* output; only a failure loses one (parallel, tokioworker.rs).
THEOREM ConservedHolds == Spec => []Conserved
  BY RingInvHolds, KeptInit, KeptStep, ConservedFromInv, PTL DEF Spec

-----------------------------------------------------------------------------
(* The promise of the engines. *)

\* How the call ends: after the writer, which then writes no more.
EndInv ==
    /\ main \in {"join", "returned"} => writer = "exited"
    /\ result = "none" <=> main \notin {"returned", "panicked"}
    /\ result = "ok" => main = "returned"
    /\ main = "returned" =>
         result = IF numWritten = numFrames THEN "ok" ELSE "OutputTruncated"

LEMMA EndStep == TypeInv /\ EndInv /\ [Next]_vars => EndInv'
<1> SUFFICES ASSUME TypeInv, EndInv, [Next]_vars PROVE EndInv'
  OBVIOUS
<1>0. numFrames' = numFrames
  BY SameFrames
<1>1. CASE Caller
  <2>1. CASE MainJoinWriter
    BY <1>0, <2>1 DEF MainJoinWriter, Panic, EndInv, WriterGone, writerVars
  <2>2. CASE MainJoinWorkers
    BY <1>0, <2>2 DEF MainJoinWorkers, Panic, EndInv, writerVars
  <2>3. CASE ~MainJoinWriter /\ ~MainJoinWorkers
    BY <1>0, <1>1, <2>3 DEF Caller, MainFresh, MainRecycle, MainOrphaned, MainRead, MainReadFails,
         MainSend, MainEof, Panic, EndInv, writerVars
  <2> QED  BY <2>1, <2>2, <2>3
<1>2. CASE Writer
  BY <1>0, <1>2 DEF Writer, WriterRecv, WriterBye, WriterClosed, WriterStash, WriterWrite,
       WriterFails, WriterBack, EndInv, mainVars
<1>3. ASSUME NEW w \in Workers, Worker(w) PROVE EndInv'
  BY <1>0, <1>3 DEF Worker, WorkerRecv, WorkerClosed, WorkerProcess, WorkerFails,
       WorkerSend, WorkerBye, EndInv, mainVars, writerVars
<1>4. CASE Disk \/ UNCHANGED vars
  BY <1>4, DiskAlone DEF restVars, EndInv
<1> QED
  BY <1>1, <1>2, <1>3, <1>4 DEF Next

LEMMA EndInvHolds == Spec => []EndInv
<1>1. Init => EndInv
  BY DEF Init, EndInv
<1> QED
  BY <1>1, EndStep, TypeInvHolds, PTL DEF Spec

\* The frames in the output, and what the abstract engine shows as result.
Output == {out[i] : i \in 1..Len(out)}
Shown == IF result = "none" \/ (result = "ok" /\ disk.pc = "busy") THEN "none"
         ELSE IF result = "ok" /\ disk.pc = "idle" THEN "ok" ELSE "err"

LEMMA WholeOutput ==
    ASSUME TypeInv, OutInv
    PROVE  Output = 0..(IF disk.pc = "idle" THEN numWritten - 1 ELSE numWritten - 2)
<1> DEFINE m == IF disk.pc = "idle" THEN numWritten ELSE numWritten - 1
<1>1. m \in Nat /\ out = [i \in 1..m |-> i - 1]
  BY Types DEF OutInv, InOrder
<1>2. m - 1 = IF disk.pc = "idle" THEN numWritten - 1 ELSE numWritten - 2
  BY Types
<1> HIDE DEF m
<1>3. Output = {i - 1 : i \in 1..m}
  BY <1>1 DEF Output
<1>4. ASSUME NEW k \in 0..(m - 1) PROVE k \in {i - 1 : i \in 1..m}
  <2>1. k + 1 \in 1..m /\ k = (k + 1) - 1
    BY <1>1
  <2> QED  BY <2>1
<1>5. ASSUME NEW i \in 1..m PROVE i - 1 \in 0..(m - 1)
  BY <1>1
<1>6. Output = 0..(m - 1)
  BY <1>3, <1>4, <1>5
<1> QED
  BY <1>2, <1>6

\* A write that is over is a frame more in the output, or the end of the call.
LEMMA WriteRefines ==
    ASSUME TypeInv, OutInv, EndInv, Disk, DiskWrites
    PROVE  Engine!Next
<1>0. numFrames' = numFrames /\ result' = result
  BY DEF Disk, DiskWrites
<1>1. /\ disk.pc = "busy" /\ disk'.pc = "idle" /\ out' = Append(out, disk.fr)
      /\ disk.fr = numWritten - 1 /\ numWritten \in Nat /\ disk.fr \in Frames
  BY Types DEF DiskWrites, OutInv, TypeInv, TypeOK
<1>2. Output = 0..(numWritten - 2) /\ disk.fr \notin Output
  BY <1>1, WholeOutput
<1>3. Output' = Output \cup {disk.fr}
  <2>1. /\ Len(out') = Len(out) + 1 /\ out'[Len(out) + 1] = disk.fr
        /\ \A i \in 1..Len(out) : out'[i] = out[i]
        /\ Len(out) \in Nat
    BY <1>1 DEF TypeInv, TypeOK
  <2>2. \A i \in 1..Len(out') : i \in 1..Len(out) \/ i = Len(out) + 1
    BY <2>1
  <2>3. 1..Len(out) \subseteq 1..Len(out') /\ Len(out) + 1 \in 1..Len(out')
    BY <2>1
  <2> QED  BY <2>1, <2>2, <2>3 DEF Output
<1>4. CASE result # "ok"
  <2>1. Shown' = Shown /\ Shown # "ok"
    BY <1>0, <1>4 DEF Shown
  <2>2. Engine!Emit(disk.fr)
    BY <1>0, <1>2, <1>3, <2>1 DEF Engine!Emit, Output, Shown
  <2>3. disk.fr \in Engine!Frames
    BY <1>1 DEF Engine!Frames, Frames
  <2>4. \E fr \in Engine!Frames : Engine!Emit(fr)
    BY <2>2, <2>3 DEF Engine!Emit
  <2> QED  BY <2>4 DEF Engine!Next
<1>5. CASE result = "ok"
  <2>1. numWritten = numFrames
    BY <1>5 DEF EndInv
  <2>2. Shown = "none" /\ Shown' = "ok"
    BY <1>0, <1>1, <1>5 DEF Shown
  <2>3. Output' = Frames
    BY <1>1, <1>2, <1>3, <2>1 DEF Frames
  <2>4. Engine!EndOk
    BY <1>0, <1>1, <1>3, <2>2, <2>3 DEF Engine!EndOk, Engine!Frames, Frames, Output, Shown
  <2> QED  BY <2>4 DEF Engine!Next
<1> QED
  BY <1>4, <1>5

LEMMA FailRefines ==
    ASSUME TypeInv, Disk, DiskFails
    PROVE  [Engine!Next]_(Engine!vars)
<1>1. /\ numFrames' = numFrames /\ result' = result /\ out' = out
      /\ disk.pc = "busy" /\ disk'.pc = "failed"
  BY DEF Disk, DiskFails, TypeInv, TypeOK
<1>2. CASE result = "ok"
  <2>1. Shown = "none" /\ Shown' = "err"
    BY <1>1, <1>2 DEF Shown
  <2>2. Engine!EndErr
    BY <1>1, <2>1 DEF Engine!EndErr, Shown
  <2> QED  BY <2>2 DEF Engine!Next
<1>3. CASE result # "ok"
  <2>1. Shown' = Shown
    BY <1>1, <1>3 DEF Shown
  <2> QED  BY <1>1, <2>1 DEF Engine!vars, Shown
<1> QED
  BY <1>2, <1>3

LEMMA JoinRefines ==
    ASSUME TypeInv, OutInv, EndInv, Caller
    PROVE  [Engine!Next]_(Engine!vars)
<1>0. numFrames' = numFrames
  BY SameFrames DEF Next, Writer
<1>1. out' = out /\ disk' = disk
  BY DEF Caller, MainFresh, MainRecycle, MainOrphaned, MainRead, MainReadFails,
     MainSend, MainEof, MainJoinWriter, MainJoinWorkers, fileVars
<1>2. CASE result' = result
  BY <1>0, <1>1, <1>2 DEF Engine!vars
<1>3. CASE result' # result
  <2>1. result = "none" /\ result' \in {"ok", "OutputTruncated", "panic"}
    BY <1>3 DEF Caller, MainFresh, MainRecycle, MainOrphaned, MainRead, MainReadFails,
       MainSend, MainEof, MainJoinWriter, MainJoinWorkers, Panic, EndInv
  <2>2. result' = "ok" => numWritten = numFrames
    BY <1>3 DEF Caller, MainFresh, MainRecycle, MainOrphaned, MainRead, MainReadFails,
       MainSend, MainEof, MainJoinWriter, MainJoinWorkers, Panic
  <2>3. CASE result' = "ok" /\ disk.pc = "idle"
    <3>1. Output = 0..(numFrames - 1)
      BY <2>2, <2>3, WholeOutput
    <3> QED
      BY <1>0, <1>1, <2>1, <2>3, <3>1 DEF Engine!Next, Engine!EndOk, Engine!Frames, Output
  <2>4. CASE result' = "ok" /\ disk.pc = "busy"
    BY <1>0, <1>1, <2>1, <2>4 DEF Engine!vars
  <2>5. CASE result' # "ok" \/ disk.pc \notin {"idle", "busy"}
    BY <1>0, <1>1, <2>1, <2>5 DEF Engine!Next, Engine!EndErr
  <2> QED  BY <2>3, <2>4, <2>5
<1> QED
  BY <1>2, <1>3

\* The writer hands a frame over: nothing is written yet, and no Ok is out.
LEMMA HandOverRefines ==
    ASSUME EndInv, Writer
    PROVE  UNCHANGED Engine!vars
<1>1. /\ UNCHANGED <<numFrames, out, result>> /\ writer # "exited"
      /\ disk' = disk \/ WriterWrite
  BY DEF Writer, WriterRecv, WriterBye, WriterClosed, WriterStash, WriterWrite,
     WriterFails, WriterBack, fileVars
<1>2. result # "ok"
  BY <1>1 DEF EndInv
<1>3. Shown' = Shown
  BY <1>1, <1>2 DEF Shown
<1> QED
  BY <1>1, <1>3 DEF Engine!vars, Shown

\* parallel implements the promise of the engines: it answers Ok only when
\* every frame is in the output, and no frame goes there twice.  The Ok counts
\* from the end of the write in flight, and is taken for an error if that
\* write fails unseen.
THEOREM ImplementsTranscodeHolds == Spec => ImplementsTranscode
<1>1. Init => Engine!Init
  BY SizeAssumption DEF Init, Engine!Init
<1>2. TypeInv /\ OutInv /\ EndInv /\ [Next]_vars => [Engine!Next]_(Engine!vars)
  <2> SUFFICES ASSUME TypeInv, OutInv, EndInv, [Next]_vars
               PROVE  [Engine!Next]_(Engine!vars)
    OBVIOUS
  <2>1. CASE Disk
    BY <2>1, WriteRefines, FailRefines DEF Disk
  <2>2. CASE Writer
    BY <2>2, HandOverRefines
  <2>3. ASSUME NEW w \in Workers, Worker(w) PROVE UNCHANGED Engine!vars
    BY <2>3 DEF Worker, WorkerRecv, WorkerClosed, WorkerProcess, WorkerFails,
       WorkerSend, WorkerBye, fileVars, Engine!vars
  <2>4. CASE UNCHANGED vars
    BY <2>4 DEF vars, fileVars, Engine!vars
  <2> QED
    BY <2>1, <2>2, <2>3, <2>4, JoinRefines DEF Next
<1> QED
  BY <1>1, <1>2, TypeInvHolds, OutInvHolds, EndInvHolds, PTL
     DEF Spec, ImplementsTranscode, Engine!Spec

-----------------------------------------------------------------------------
(* When the call returns. *)

\* The end marks on wq, and the workers that have sent theirs.
Byes == {i \in 1..Len(wq) : wq[i] = Bye}
Done == {w \in Workers : worker[w].pc = "exited" /\ sent[w]}

\* A worker sends one end mark, after its last frame and the caller's.
ByeInv ==
    /\ ~WriterGone => Cardinality(Byes) + numExited = Cardinality(Done)
    /\ ~WriterGone /\ wq # <<>> /\ wq[Len(wq)] # Bye =>
         \E w \in Workers : sent[w] /\ worker[w].pc # "exited"
    /\ \A w \in Workers : worker[w].pc \in {"bye", "exited"} => ctx = <<>> /\ ~CtxOpen
    /\ \A w \in Workers : worker[w].pc = "bye" => sent[w]
    /\ main \in {"await", "join", "returned"} => next = numFrames

\* Unless the caller panicked, the writer ends after the last frame and after
\* every worker.
RestInv ==
    writer = "exited" /\ main # "panicked" =>
        /\ reorder = {} /\ numWritten = numFrames /\ ~CtxOpen
        /\ \A w \in Workers : worker[w].pc = "exited"

LEMMA CountTypes ==
    ASSUME TypeInv
    PROVE  /\ IsFiniteSet(Byes) /\ Cardinality(Byes) \in Nat
           /\ IsFiniteSet(Done) /\ Cardinality(Done) \in Nat /\ Cardinality(Done) <= N
           /\ Cardinality(Done) = N => Done = Workers
           /\ numExited \in Nat /\ N \in Nat
<1>1. IsFiniteSet(1..Len(wq))
  <2>1. 1 \in Int /\ Len(wq) \in Int
    BY Types
  <2> QED  BY ONLY <2>1, FS_Interval
<1>2. IsFiniteSet(Byes)
  <2>1. Byes \subseteq 1..Len(wq)
    BY DEF Byes
  <2> QED  BY <1>1, <2>1, FS_Subset
<1>3. IsFiniteSet(Done) /\ Cardinality(Done) <= Cardinality(Workers)
      /\ (Cardinality(Workers) = Cardinality(Done) => Workers = Done)
  <2>1. Done \in SUBSET Workers
    BY DEF Done
  <2> QED  BY <2>1, SizeAssumption, FS_Subset
<1>4. numExited \in Nat /\ N \in Nat
  BY Constants DEF TypeInv, TypeOK
<1> QED
  BY <1>2, <1>3, <1>4, FS_CardinalityType DEF N

\* The end marks of wq without its first message.
LEMMA ByesOfTail ==
    ASSUME TypeInv, wq # <<>>, wq' = Tail(wq)
    PROVE  /\ Cardinality(Byes') \in Nat
           /\ Cardinality(Byes') = IF Head(wq) = Bye THEN Cardinality(Byes) - 1
                                                    ELSE Cardinality(Byes)
<1>1. /\ Len(wq) \in Nat /\ Len(wq') = Len(wq) - 1 /\ Len(wq) >= 1 /\ Head(wq) = wq[1]
      /\ \A i \in 1..Len(wq') : wq'[i] = wq[i + 1] /\ i + 1 \in 1..Len(wq)
  BY Types
<1> DEFINE rest  == Byes \ {1}
           shift == [i \in rest |-> i - 1]
<1>2. IsFiniteSet(Byes) /\ Cardinality(Byes) \in Nat
  BY CountTypes
<1>3. /\ IsFiniteSet(rest)
      /\ Cardinality(rest) = IF 1 \in Byes THEN Cardinality(Byes) - 1 ELSE Cardinality(Byes)
  BY <1>2, FS_RemoveElement
<1>4. shift \in Bijection(rest, Byes')
  <2>1. \A i \in rest : i \in Nat /\ i - 1 \in Byes'
    <3>1. ASSUME NEW i \in rest PROVE i \in Nat /\ i - 1 \in 1..Len(wq') /\ wq[i] = Bye
      BY <1>1 DEF Byes
    <3>2. ASSUME NEW i \in rest PROVE wq'[i - 1] = wq[(i - 1) + 1] /\ (i - 1) + 1 = i
      BY <1>1, <3>1
    <3> QED  BY <3>1, <3>2 DEF Byes
  <2>2. \A i \in Byes' : i \in Nat /\ i + 1 \in rest /\ (i + 1) - 1 = i
    BY <1>1 DEF Byes
  <2> HIDE DEF rest
  <2>3. shift \in [rest -> Byes']
    BY <2>1
  <2>4. \A i, j \in rest : shift[i] = shift[j] => i = j
    BY <2>1
  <2>5. \A i \in Byes' : \E k \in rest : shift[k] = i
    BY <2>2
  <2>6. shift \in Injection(rest, Byes')
    BY <2>3, <2>4 DEF Injection, IsInjective
  <2>7. shift \in Surjection(rest, Byes')
    BY <2>3, <2>5 DEF Surjection
  <2> QED  BY <2>6, <2>7 DEF Bijection
<1>5. IsFiniteSet(Byes') /\ Cardinality(Byes') = Cardinality(rest)
  <2>1. ExistsBijection(rest, Byes')
    BY <1>4 DEF ExistsBijection
  <2> HIDE DEF shift, rest
  <2> QED  BY <1>3, <2>1, FS_Bijection
<1>6. Cardinality(Byes') \in Nat
  BY <1>5, FS_CardinalityType
<1>7. Head(wq) = Bye <=> 1 \in Byes
  BY <1>1 DEF Byes
<1> HIDE DEF rest
<1> QED
  BY <1>3, <1>5, <1>6, <1>7

\* The end marks when a message is added.
LEMMA ByesOfAppend ==
    ASSUME TypeInv, NEW m \in Frames \cup {Bye}, wq' = Append(wq, m)
    PROVE  Byes' = IF m = Bye THEN Byes \cup {Len(wq) + 1} ELSE Byes
<1>1. /\ Len(wq) \in Nat /\ Len(wq') = Len(wq) + 1 /\ wq'[Len(wq) + 1] = m
      /\ \A i \in 1..Len(wq) : wq'[i] = wq[i]
  BY Types
<1>2. 1..Len(wq') = 1..Len(wq) \cup {Len(wq) + 1}
  BY <1>1
<1> QED
  BY <1>1, <1>2 DEF Byes

\* A step of worker w that sends nothing.
LEMMA QuietWorkerByes ==
    ASSUME TypeInv, ByeInv, NEW w \in Workers,
           UNCHANGED <<wq, writer, numExited, main, next, numFrames>>,
           \A v \in Workers \ {w} : worker'[v] = worker[v],
           sent' = sent, worker[w].pc # "exited",
           worker'[w].pc \in {"bye", "exited"} => ctx' = <<>> /\ ~CtxOpen,
           worker'[w].pc = "bye" => sent[w], worker'[w].pc = "exited" => ~sent[w],
           ctx' = ctx \/ (ctx # <<>> /\ worker'[w].pc = "process")
    PROVE  ByeInv'
<1>1. Done' = Done
  BY DEF Done
<1>2. Byes' = Byes /\ WriterGone' = WriterGone /\ CtxOpen' = CtxOpen
  BY DEF Byes, WriterGone, CtxOpen, Reading
<1>3. \A v \in Workers : sent[v] /\ worker[v].pc # "exited" => worker'[v].pc # "exited"
  OBVIOUS
<1>4. \A v \in Workers : worker'[v].pc \in {"bye", "exited"} => ctx' = <<>> /\ ~CtxOpen'
  BY <1>2 DEF ByeInv
<1>5. \A v \in Workers : worker'[v].pc = "bye" => sent'[v]
  BY DEF ByeInv
<1> QED
  BY <1>1, <1>2, <1>3, <1>4, <1>5 DEF ByeInv

LEMMA WorkerByes == ASSUME TypeInv, ByeInv, NEW w \in Workers, Worker(w) PROVE ByeInv'
<1>1. /\ UNCHANGED <<writer, numExited, main, next, numFrames>>
      /\ \A v \in Workers \ {w} : worker'[v] = worker[v]
  BY DEF TypeInv, TypeOK, Worker, WorkerRecv, WorkerClosed, WorkerProcess, WorkerFails,
     WorkerSend, WorkerBye, Go, mainVars, writerVars
<1>2. CASE WorkerRecv(w)
  <2>1. worker'[w].pc = "process" /\ ctx # <<>> /\ sent' = sent /\ wq' = wq
        /\ worker[w].pc = "recv"
    BY <1>2 DEF WorkerRecv, TypeInv, TypeOK
  <2> QED  BY <1>1, <2>1, QuietWorkerByes
<1>3. CASE WorkerClosed(w)
  <2>1. /\ worker'[w].pc = (IF sent[w] THEN "bye" ELSE "exited")
        /\ ctx = <<>> /\ ~CtxOpen /\ sent' = sent /\ wq' = wq /\ ctx' = ctx
        /\ worker[w].pc = "recv" /\ sent[w] \in BOOLEAN
    BY <1>3 DEF WorkerClosed, Go, TypeInv, TypeOK
  <2> QED  BY <1>1, <2>1, QuietWorkerByes
<1>4. CASE WorkerProcess(w) \/ WorkerFails(w)
  <2>1. worker'[w].pc \in {"send", "panicked"} /\ sent' = sent /\ wq' = wq /\ ctx' = ctx
        /\ worker[w].pc = "process"
    BY <1>4 DEF WorkerProcess, WorkerFails, Go, TypeInv, TypeOK
  <2> QED  BY <1>1, <2>1, QuietWorkerByes
<1>5. CASE WorkerSend(w) /\ WriterGone
  <2>1. worker'[w].pc = "failed" /\ sent' = sent /\ wq' = wq /\ ctx' = ctx
        /\ worker[w].pc = "send"
    BY <1>5 DEF WorkerSend, Go, TypeInv, TypeOK
  <2> QED  BY <1>1, <2>1, QuietWorkerByes
<1>6. CASE WorkerSend(w) /\ ~WriterGone
  <2>1. /\ worker'[w].pc = "recv" /\ sent' = [sent EXCEPT ![w] = TRUE]
        /\ wq' = Append(wq, worker[w].fr) /\ ctx' = ctx /\ worker[w].pc = "send"
    BY <1>6 DEF WorkerSend, Go, TypeInv, TypeOK
  <2>2. sent'[w] /\ \A v \in Workers \ {w} : sent'[v] = sent[v]
    BY <2>1 DEF TypeInv, TypeOK
  <2>3. worker[w].fr \in Frames /\ worker[w].fr # Bye
    BY <2>1, FramesAre DEF TypeInv, Holding
  <2>4. Byes' = Byes
    BY <2>1, <2>3, ByesOfAppend
  <2>5. Done' = Done
    BY <1>1, <2>1, <2>2 DEF Done
  <2>6. WriterGone' = WriterGone /\ CtxOpen' = CtxOpen
    BY <1>1 DEF WriterGone, CtxOpen, Reading
  <2>7. \E v \in Workers : sent'[v] /\ worker'[v].pc # "exited"
    BY <2>1, <2>2
  <2>8. \A v \in Workers : worker'[v].pc \in {"bye", "exited"} => ctx' = <<>> /\ ~CtxOpen'
    BY <1>1, <2>1, <2>6 DEF ByeInv
  <2>9. \A v \in Workers : worker'[v].pc = "bye" => sent'[v]
    BY <1>1, <2>1, <2>2 DEF ByeInv
  <2> QED
    BY <1>1, <2>4, <2>5, <2>6, <2>7, <2>8, <2>9 DEF ByeInv
<1>7. CASE WorkerBye(w)
  <2>1. /\ worker'[w].pc = "exited" /\ sent' = sent /\ ctx' = ctx /\ worker[w].pc = "bye"
        /\ ~WriterGone => wq' = Append(wq, Bye)
    BY <1>7 DEF WorkerBye, Go, TypeInv, TypeOK
  <2>2. sent[w] /\ ctx = <<>> /\ ~CtxOpen
    BY <2>1 DEF ByeInv
  <2>3. WriterGone' = WriterGone /\ CtxOpen' = CtxOpen
    BY <1>1 DEF WriterGone, CtxOpen, Reading
  <2>4. ~WriterGone => Cardinality(Byes') + numExited' = Cardinality(Done')
    <3> SUFFICES ASSUME ~WriterGone
                 PROVE  Cardinality(Byes') + numExited' = Cardinality(Done')
      OBVIOUS
    <3>1. Done' = Done \cup {w} /\ w \notin Done
      BY <1>1, <2>1, <2>2 DEF Done
    <3>2. Byes' = Byes \cup {Len(wq) + 1}
      BY <2>1, ByesOfAppend
    <3>3. Len(wq) + 1 \notin Byes
      BY Types DEF Byes
    <3>4. Cardinality(Done') = Cardinality(Done) + 1
      BY <3>1, CountTypes, FS_AddElement
    <3>5. Cardinality(Byes') = Cardinality(Byes) + 1
      BY <3>2, <3>3, CountTypes, FS_AddElement
    <3>6. Cardinality(Byes) + numExited = Cardinality(Done)
      BY DEF ByeInv
    <3> QED  BY <1>1, <3>4, <3>5, <3>6, CountTypes
  <2>5. ~WriterGone => wq'[Len(wq')] = Bye
    BY <2>1, Types
  <2>6. \A v \in Workers : worker'[v].pc \in {"bye", "exited"} => ctx' = <<>> /\ ~CtxOpen'
    BY <1>1, <2>1, <2>2, <2>3
  <2>7. \A v \in Workers : worker'[v].pc = "bye" => sent'[v]
    BY <1>1, <2>1, <2>2 DEF ByeInv
  <2> QED
    BY <1>1, <2>3, <2>4, <2>5, <2>6, <2>7 DEF ByeInv
<1> QED
  BY <1>2, <1>3, <1>4, <1>5, <1>6, <1>7 DEF Worker

LEMMA CallerByes == ASSUME TypeInv, ByeInv, Caller PROVE ByeInv'
<1>1. UNCHANGED <<worker, sent, wq, writer, numExited, numFrames>>
  BY DEF Caller, MainFresh, MainRecycle, MainOrphaned, MainRead, MainReadFails, MainSend,
     MainEof, MainJoinWriter, MainJoinWorkers, workerVars, writerVars
<1>2. Done' = Done /\ Byes' = Byes /\ WriterGone' = WriterGone
  BY <1>1 DEF Done, Byes, WriterGone
<1>3. ctx = <<>> /\ ~CtxOpen => ctx' = <<>> /\ ~CtxOpen'
  BY DEF Caller, MainFresh, MainRecycle, MainOrphaned, MainRead, MainReadFails, MainSend,
     MainEof, MainJoinWriter, MainJoinWorkers, Panic, CtxOpen, Reading
<1>4. main' \in {"await", "join", "returned"} => next' = numFrames
  BY DEF Caller, MainFresh, MainRecycle, MainOrphaned, MainRead, MainReadFails, MainSend,
     MainEof, MainJoinWriter, MainJoinWorkers, Panic, ByeInv
<1> QED
  BY <1>1, <1>2, <1>3, <1>4 DEF ByeInv

LEMMA WriterByes == ASSUME TypeInv, ByeInv, Writer PROVE ByeInv'
<1>1. UNCHANGED <<worker, sent, ctx, main, next, numFrames>>
  BY DEF Writer, WriterRecv, WriterBye, WriterClosed, WriterStash, WriterWrite, WriterFails,
     WriterBack, mainVars, workerVars
<1>2. Done' = Done /\ CtxOpen' = CtxOpen
  BY <1>1 DEF Done, CtxOpen, Reading
<1>3. CASE WriterRecv \/ WriterBye
  <2>1. ~WriterGone /\ wq # <<>> /\ wq' = Tail(wq)
    BY <1>3 DEF WriterRecv, WriterBye, WriterGone
  <2>2. Head(wq) = Bye => numExited' = numExited + 1
    BY <1>3 DEF WriterRecv, WriterBye
  <2>3. Head(wq) # Bye => numExited' = numExited
    BY <1>3 DEF WriterRecv, WriterBye
  <2>4. Cardinality(Byes') + numExited' = Cardinality(Done)
    <3>1. Cardinality(Byes) + numExited = Cardinality(Done)
      BY <2>1 DEF ByeInv
    <3> QED  BY <2>1, <2>2, <2>3, <3>1, ByesOfTail, CountTypes
  <2>5. wq' # <<>> => wq'[Len(wq')] = wq[Len(wq)]
    BY <2>1, Types
  <2> QED
    BY <1>1, <1>2, <2>1, <2>4, <2>5 DEF ByeInv
<1>4. CASE ~WriterRecv /\ ~WriterBye
  <2>1. UNCHANGED <<wq, numExited>> /\ (WriterGone => WriterGone')
    BY <1>4 DEF Writer, WriterClosed, WriterStash, WriterWrite, WriterFails, WriterBack,
                WriterGone
  <2>2. Byes' = Byes
    BY <2>1 DEF Byes
  <2> QED
    BY <1>1, <1>2, <2>1, <2>2 DEF ByeInv
<1> QED
  BY <1>3, <1>4

LEMMA ByeInit == Init => ByeInv
<1> SUFFICES ASSUME Init PROVE ByeInv
  OBVIOUS
<1>1. Byes = {} /\ Done = {} /\ numExited = 0 /\ wq = <<>> /\ main = "buffer"
      /\ \A w \in Workers : worker[w].pc = "recv"
  BY DEF Init, Byes, Done
<1> QED
  BY <1>1, FS_EmptySet DEF ByeInv

LEMMA ByeStep == TypeInv /\ ByeInv /\ [Next]_vars => ByeInv'
<1>1. ASSUME ByeInv, Disk \/ UNCHANGED vars PROVE ByeInv'
  BY <1>1, DiskAlone DEF restVars, ByeInv, Byes, Done, WriterGone, CtxOpen, Reading
<1> QED
  BY <1>1, CallerByes, WorkerByes, WriterByes DEF Next

\* All that the ring keeps.
CallInv == RingInv /\ KeptInv /\ EndInv /\ ByeInv /\ RestInv

\* The last end mark: every worker sent one, so no frame follows it on wq, and
\* none is missing from the list below the ones written.
LEMMA LastBye ==
    ASSUME CallInv, WriterBye, writer' = "exited", main # "panicked"
    PROVE  /\ reorder = {} /\ numWritten = numFrames /\ ~CtxOpen
           /\ \A w \in Workers : worker[w].pc = "exited"
<1>1. /\ TypeInv /\ PathInv /\ KeptInv /\ ByeInv
      /\ writer = "recv" /\ wq # <<>> /\ Head(wq) = Bye /\ numExited + 1 = N
  BY DEF CallInv, RingInv, WriterBye
<1>2. Done = Workers /\ Byes = {1}
  <2>1. 1 \in Byes
    BY <1>1, Types DEF Byes
  <2>2. Cardinality(Byes) + numExited = Cardinality(Done)
    BY <1>1 DEF ByeInv, WriterGone
  <2>3. Cardinality(Byes) # 0
    BY <1>1, <2>1, CountTypes, FS_EmptySet
  <2>4. Cardinality(Byes) = 1 /\ Cardinality(Done) = N
    BY <1>1, <2>2, <2>3, CountTypes
  <2>5. \E x : Byes = {x}
    BY <1>1, <2>4, CountTypes, FS_Singleton
  <2> QED  BY <1>1, <2>1, <2>4, <2>5, CountTypes
<1>3. \A w \in Workers : worker[w].pc = "exited" /\ sent[w]
  BY <1>2 DEF Done
<1>4. wq[Len(wq)] = Bye
  BY <1>1, <1>3 DEF ByeInv, WriterGone
<1>5. Len(wq) = 1
  <2>1. Len(wq) \in 1..Len(wq)
    BY <1>1, Types
  <2> QED  BY <1>2, <1>4, <2>1 DEF Byes
<1>6. ctx = <<>> /\ ~CtxOpen
  <2>1. \E w \in Workers : TRUE
    BY SizeAssumption, FS_EmptySet DEF N
  <2> QED  BY <1>1, <1>3, <2>1 DEF ByeInv
<1>7. next = numFrames /\ First = next
  <2>1. main \in {"await", "join", "returned"}
    BY <1>1, <1>6 DEF TypeInv, TypeOK, CtxOpen, Reading
  <2> QED  BY <1>1, <1>6, <2>1, Types DEF ByeInv, First
<1>8. ~Lost
  BY <1>1, <1>3 DEF Lost
<1>9. \A fr : InRing(fr) => fr \in reorder \/ fr = Bye
  BY <1>1, <1>3, <1>4, <1>5 DEF InRing, Holding
<1>10. numWritten = First
  <2>1. numWritten <= First /\ numWritten \notin reorder /\ numWritten \in Nat /\ First \in Nat
        /\ numFrames \in Nat /\ First = numFrames
    BY <1>1, <1>7, Types, FramesAre DEF PathInv, PlaceInv
  <2>2. CASE numWritten < First
    <3>1. numWritten \in Frames /\ numWritten # Bye
      BY <2>1, <2>2, <1>1, FramesAre DEF Frames
    <3>2. OnItsWay(numWritten)
      BY <2>1, <2>2 DEF OnItsWay
    <3>3. InRing(numWritten)
      BY <1>1, <1>8, <3>1, <3>2 DEF KeptInv
    <3> QED  BY <1>9, <2>1, <3>1, <3>3
  <2> QED  BY <2>1, <2>2
<1>11. reorder = {}
  <2>1. \A fr \in reorder : fr \in Nat /\ numWritten <= fr /\ fr < First
    BY <1>1, Types DEF PathInv, PlaceInv, OnItsWay
  <2> QED  BY <1>1, <1>10, <2>1, Types
<1> QED
  BY <1>3, <1>6, <1>7, <1>10, <1>11

LEMMA RestStep == CallInv /\ [Next]_vars => RestInv'
<1> SUFFICES ASSUME CallInv, [Next]_vars, writer' = "exited", main' # "panicked"
             PROVE  /\ reorder' = {} /\ numWritten' = numFrames' /\ ~CtxOpen'
                    /\ \A w \in Workers : worker'[w].pc = "exited"
  BY DEF RestInv
<1>0. numFrames' = numFrames
  BY SameFrames
<1>1. CASE Caller
  <2>1. UNCHANGED <<writer, reorder, numWritten, worker>> /\ main # "panicked"
        /\ (~CtxOpen => ~CtxOpen')
    BY <1>1 DEF Caller, MainFresh, MainRecycle, MainOrphaned, MainRead, MainReadFails, MainSend,
         MainEof, MainJoinWriter, MainJoinWorkers, Panic, CtxOpen, Reading, workerVars, writerVars
  <2> QED  BY <1>0, <2>1 DEF CallInv, RestInv
<1>2. ASSUME NEW w \in Workers, Worker(w) PROVE FALSE
  <2>1. writer' = writer /\ main' = main /\ worker[w].pc # "exited"
    BY <1>2 DEF Worker, WorkerRecv, WorkerClosed, WorkerProcess, WorkerFails, WorkerSend,
                WorkerBye, mainVars, writerVars
  <2> QED  BY <2>1 DEF CallInv, RestInv
<1>3. CASE Writer
  <2>1. UNCHANGED <<main, worker>> /\ writer # "exited" /\ CtxOpen' = CtxOpen
    BY <1>3 DEF Writer, WriterRecv, WriterBye, WriterClosed, WriterStash, WriterWrite,
                WriterFails, WriterBack, mainVars, workerVars, CtxOpen, Reading
  <2>2. CASE WriterBye
    <3>1. UNCHANGED <<reorder, numWritten>>
      BY <2>2 DEF WriterBye
    <3> QED  BY <1>0, <2>1, <2>2, <3>1, LastBye
  <2>3. CASE WriterClosed
    BY <2>1, <2>3 DEF WriterClosed, WqClosed, CallInv, EndInv
  <2>4. CASE WriterBack
    <3>1. numWritten \in reorder /\ numWritten = numFrames
      BY <2>4 DEF WriterBack
    <3>2. numFrames \notin Frames /\ reorder \subseteq Frames
      <4>1. TypeInv
        BY DEF CallInv, RingInv
      <4> QED  BY <4>1, FramesAre, Types DEF Frames
    <3> QED  BY <3>1, <3>2
  <2> QED
    BY <1>3, <2>2, <2>3, <2>4 DEF Writer, WriterRecv, WriterStash, WriterWrite, WriterFails
<1>4. CASE Disk \/ UNCHANGED vars
  BY <1>0, <1>4, DiskAlone DEF restVars, CallInv, RestInv, CtxOpen, Reading
<1> QED
  BY <1>1, <1>2, <1>3, <1>4 DEF Next

LEMMA CallInit == Init => CallInv
<1>1. Init => EndInv /\ RestInv
  BY DEF Init, EndInv, RestInv
<1> QED
  BY <1>1, RingInit, KeptInit, ByeInit DEF CallInv

LEMMA CallStep == CallInv /\ [Next]_vars => CallInv'
<1>1. CallInv => RingInv /\ TypeInv /\ KeptInv /\ EndInv /\ ByeInv
  BY DEF CallInv, RingInv
<1>2. CallInv /\ [Next]_vars => RingInv' /\ KeptInv' /\ EndInv' /\ ByeInv'
  BY <1>1, RingStep, KeptStep, EndStep, ByeStep
<1> QED
  BY <1>2, RestStep DEF CallInv

LEMMA RestFromInv == CallInv => ReturnsAtRest
<1> SUFFICES ASSUME CallInv, main = "returned"
             PROVE  /\ writer = "exited" /\ \A w \in Workers : worker[w].pc = "exited"
                    /\ \A fr \in Frames :
                          Holders(fr) \subseteq {<<"out", fr + 1>>, <<"disk", numFrames - 1>>}
                    /\ out = [i \in 1..(IF disk.pc = "idle" THEN numFrames ELSE numFrames - 1)
                                |-> i - 1]
                    /\ result = "ok"
  BY DEF ReturnsAtRest
<1>1. RingInv /\ TypeInv /\ OutInv /\ EndInv /\ RestInv /\ ByeInv
  BY DEF CallInv, RingInv
<1>2. /\ writer = "exited" /\ numWritten = numFrames /\ result = "ok"
      /\ \A w \in Workers : worker[w].pc = "exited"
  BY <1>1 DEF EndInv, RestInv
<1>3. out = [i \in 1..(IF disk.pc = "idle" THEN numFrames ELSE numFrames - 1) |-> i - 1]
  BY <1>1, <1>2 DEF OutInv, InOrder
<1>4. ctx = <<>>
  <2>1. \E w \in Workers : TRUE
    BY SizeAssumption, FS_EmptySet DEF N
  <2> QED  BY <1>1, <1>2, <2>1 DEF ByeInv
<1>5. ASSUME NEW fr \in Frames, NEW p, NEW z, Seat(fr, p, z)
      PROVE  <<p, z>> \in {<<"out", fr + 1>>, <<"disk", numFrames - 1>>}
  <2>1. fr \in Nat /\ fr < numFrames /\ numFrames \in Nat
    BY <1>1, FramesAre DEF Frames
  <2>2. p \in {"ctx", "worker", "wq", "writer", "reorder", "disk", "out"}
    BY <1>5 DEF Seat
  <2>3. p # "ctx"
    BY <1>4, <1>5 DEF Seat
  <2>4. p \notin {"worker", "wq", "writer", "reorder"}
    <3>1. ~OnItsWay(fr)
      BY <1>2, <2>1 DEF OnItsWay
    <3> QED  BY <1>1, <1>5, <3>1, SeatStage
  <2>5. CASE p = "disk"
    BY <1>1, <1>2, <1>5, <2>5, SeatStage DEF Seat
  <2>6. CASE p = "out"
    <3> DEFINE m == IF disk.pc = "idle" THEN numFrames ELSE numFrames - 1
    <3>1. z \in 1..Len(out) /\ out[z] = fr /\ out = [i \in 1..m |-> i - 1] /\ m \in Nat
      BY <1>1, <1>2, <1>3, <1>5, <2>1, <2>6 DEF Seat, OutInv
    <3> HIDE DEF m
    <3>2. z = fr + 1
      BY <2>1, <3>1
    <3> QED  BY <2>6, <3>2
  <2> QED  BY <2>2, <2>3, <2>4, <2>5, <2>6
<1>6. \A fr \in Frames :
        Holders(fr) \subseteq {<<"out", fr + 1>>, <<"disk", numFrames - 1>>}
  BY <1>5, HoldersAre
<1> QED
  BY <1>2, <1>3, <1>6

\* parallel returns only with the writer and the workers done, no frame left in
\* the ring, and the whole output in the file but the last frame, whose write may
\* be in flight or have failed unseen; its answer is then Ok (tokioworker.rs,
\* from the awaits to the answer).
THEOREM ReturnsAtRestHolds == Spec => []ReturnsAtRest
  BY CallInit, CallStep, RestFromInv, PTL DEF Spec
-----------------------------------------------------------------------------
(* No thread waits for ever.  There is always one that can move, and there *)
(* are only so many moves.                                                 *)

\* As long as the caller reads, every buffer pair it made is accounted for; and
\* a write in flight fails only if writes can fail.
FlowInv ==
    /\ Reading => next + (IF main \in {"read", "send"} THEN 1 ELSE 0) + rq
                      + (IF writer = "back" THEN 1 ELSE 0) = numWritten + outstanding
    /\ disk.pc = "failed" => "write" \in Faults

LEMMA FlowStep == TypeInv /\ FlowInv /\ [Next]_vars => FlowInv'
<1> SUFFICES ASSUME TypeInv, FlowInv, [Next]_vars PROVE FlowInv'
  OBVIOUS
<1>0. /\ next \in Nat /\ outstanding \in Nat /\ rq \in Nat /\ numWritten \in Nat
      /\ N \in Nat
  BY Constants DEF TypeInv, TypeOK
<1>1. CASE MainFresh \/ MainRecycle \/ MainSend
  BY <1>0, <1>1 DEF MainFresh, MainRecycle, MainSend, FlowInv, Reading, writerVars, fileVars
<1>2. CASE MainOrphaned \/ MainRead \/ MainReadFails \/ MainEof \/ MainJoinWriter
           \/ MainJoinWorkers
  BY <1>0, <1>2 DEF MainOrphaned, MainRead, MainReadFails, MainEof, MainJoinWriter,
                    MainJoinWorkers, Panic, FlowInv, Reading, writerVars, fileVars
<1>3. CASE WriterWrite \/ WriterBack
  BY <1>0, <1>3 DEF WriterWrite, WriterBack, FlowInv, Reading, RrxOpen, mainVars, fileVars
<1>4. CASE WriterRecv \/ WriterBye \/ WriterClosed \/ WriterStash \/ WriterFails
  BY <1>0, <1>4 DEF WriterRecv, WriterBye, WriterClosed, WriterStash, WriterFails,
                    FlowInv, Reading, mainVars, fileVars
<1>5. ASSUME NEW w \in Workers, Worker(w) PROVE FlowInv'
  BY <1>5 DEF Worker, WorkerRecv, WorkerClosed, WorkerProcess, WorkerFails,
       WorkerSend, WorkerBye, FlowInv, Reading, mainVars, writerVars, fileVars
<1>6. CASE Disk \/ UNCHANGED vars
  <2>1. disk'.pc = "failed" => disk.pc = "failed" \/ "write" \in Faults
    BY <1>6 DEF Disk, DiskWrites, DiskFails, vars, fileVars, TypeInv, TypeOK
  <2> QED  BY <1>6, <2>1, DiskAlone DEF restVars, FlowInv, Reading
<1> QED
  BY <1>1, <1>2, <1>3, <1>4, <1>5, <1>6 DEF Next, Caller, Writer

\* Where no worker can move and none ended without an end mark, wq being empty,
\* each waits for a frame while the caller reads, and is done after that.
LEMMA WorkersWait ==
    ASSUME CallInv, ~Starved, wq = <<>>, \A w \in Workers : ~WorkerReady(w)
    PROVE  IF Reading THEN ctx = <<>> /\ \A w \in Workers : worker[w].pc = "recv"
                      ELSE Done = Workers
<1>1. TypeInv /\ ByeInv
  BY DEF CallInv, RingInv
<1>2. Len(wq) < N
  BY Constants
<1>3. ASSUME NEW w \in Workers
      PROVE  \/ worker[w].pc = "recv" /\ ctx = <<>> /\ Reading
             \/ worker[w].pc = "exited" /\ sent[w] /\ ~Reading
  <2>1. worker[w].pc \in {"recv", "process", "send", "bye", "exited", "failed", "panicked"}
    BY <1>1 DEF TypeInv, TypeOK
  <2>2. worker[w].pc \notin {"process", "send", "bye"}
    BY <1>2 DEF WorkerReady
  <2>3. worker[w].pc \notin {"failed", "panicked"} /\ (worker[w].pc = "exited" => sent[w])
    BY DEF Starved
  <2>4. worker[w].pc = "recv" => ctx = <<>> /\ Reading
    BY DEF WorkerReady, CtxOpen
  <2>5. worker[w].pc = "exited" => ~Reading
    BY <1>1 DEF ByeInv, CtxOpen
  <2> QED  BY <2>1, <2>2, <2>3, <2>4, <2>5
<1>4. \E w \in Workers : TRUE
  BY SizeAssumption, FS_EmptySet DEF N
<1> QED
  BY <1>3, <1>4 DEF Done

\* All buffers are out, and nobody has the frame the writer needs: it would
\* have to be in the list, from which the writer takes it at once.
LEMMA BufferComes ==
    ASSUME CallInv, FlowInv, main = "buffer", ~CallerReady, writer = "recv", wq = <<>>,
           ctx = <<>>, \A w \in Workers : worker[w].pc = "recv"
    PROVE  FALSE
<1>1. TypeInv /\ PathInv /\ KeptInv
  BY DEF CallInv, RingInv
<1>2. next < numFrames /\ outstanding = N /\ rq = 0
  BY <1>1, Constants DEF CallerReady, TypeInv, TypeOK
<1>3. numWritten < next /\ First = next
  BY <1>1, <1>2, Types, Constants DEF FlowInv, Reading, First
<1>4. numWritten \in Frames /\ OnItsWay(numWritten)
  BY <1>1, <1>2, <1>3, Types, FramesAre DEF OnItsWay, Frames
<1>5. ~Lost
  BY DEF Lost
<1>6. InRing(numWritten)
  BY <1>1, <1>4, <1>5 DEF KeptInv
<1>7. numWritten \in reorder
  BY <1>6 DEF InRing, Holding
<1> QED
  BY <1>1, <1>7 DEF PathInv, PlaceInv

\* All workers are done, so the writer has taken its last end mark.
LEMMA WriterLeaves ==
    ASSUME CallInv, ~WriterGone, wq = <<>>, Done = Workers
    PROVE  FALSE
<1>1. TypeInv /\ ByeInv
  BY DEF CallInv, RingInv
<1>2. Cardinality(Byes) = 0
  <2>1. Byes = {}
    BY DEF Byes
  <2> QED  BY <2>1, FS_EmptySet
<1>3. Cardinality(Byes) + numExited = N
  BY <1>1 DEF ByeInv, N
<1> QED
  BY <1>1, <1>2, <1>3, CountTypes DEF TypeInv

LEMMA NeverStuckFromInv == CallInv /\ FlowInv => NeverStuck
<1> SUFFICES ASSUME CallInv, FlowInv, main \notin {"returned", "panicked"}, ~Starved,
                    ~CallerReady, ~WriterReady, ~DiskReady, \A w \in Workers : ~WorkerReady(w)
             PROVE  FALSE
  BY DEF NeverStuck
<1>1. TypeInv /\ RingInv /\ EndInv /\ RestInv
  BY DEF CallInv, RingInv
<1>2. SendsHaveRoom
  BY <1>1, RingBoundedFromInv DEF RingBounded
<1>3. main \in {"buffer", "await", "join"}
  <2>1. main \in {"buffer", "read", "send", "await", "join"}
    BY <1>1 DEF TypeInv, TypeOK
  <2>2. main # "read" /\ main # "send"
    BY <1>2 DEF CallerReady, SendsHaveRoom
  <2> QED  BY <2>1, <2>2
<1>4. main # "join"
  <2>1. main = "join" => \A w \in Workers : worker[w].pc = "exited"
    BY <1>1 DEF EndInv, RestInv
  <2> QED  BY <2>1 DEF CallerReady, WorkerEnds
<1>5. ~WriterGone
  BY <1>3, <1>4 DEF CallerReady
<1>6. writer = "recv" /\ wq = <<>>
  <2>1. writer \in {"recv", "place", "back"}
    BY <1>1, <1>5 DEF TypeInv, TypeOK, WriterGone
  <2>2. writer # "place"
    BY <1>1 DEF WriterReady, DiskReady, FlowInv, TypeInv, TypeOK
  <2>3. writer # "back"
    BY <1>2 DEF WriterReady, SendsHaveRoom
  <2> QED  BY <2>1, <2>2, <2>3 DEF WriterReady
<1>7. CASE main = "buffer"
  <2>1. ctx = <<>> /\ \A w \in Workers : worker[w].pc = "recv"
    BY <1>6, <1>7, WorkersWait DEF Reading
  <2> QED  BY <1>6, <1>7, <2>1, BufferComes
<1>8. CASE main = "await"
  <2>1. Done = Workers
    BY <1>6, <1>8, WorkersWait DEF Reading
  <2> QED  BY <1>5, <1>6, <2>1, WriterLeaves
<1> QED
  BY <1>3, <1>4, <1>7, <1>8

\* The caller, the workers and the writer of parallel never all wait for each
\* other, unless a worker ended without an end mark.
THEOREM NeverStuckHolds == Spec => []NeverStuck
<1>1. Init => FlowInv
  BY Constants DEF Init, FlowInv, Reading
<1>2. CallInv => TypeInv
  BY DEF CallInv, RingInv
<1> QED
  BY <1>1, <1>2, CallInit, CallStep, FlowStep, NeverStuckFromInv, PTL DEF Spec

\* How many steps are left at most.  A frame not yet sent costs eleven: three of
\* the caller, three of a worker, four of the writer if it goes on the list, and
\* the write itself.  A frame (or end mark) pays for the steps after the place it
\* is in.
CallerAt(pc) == CASE pc = "buffer" -> 3
                  [] pc = "read"   -> 2
                  [] pc = "send"   -> 1
                  [] pc = "await"  -> 2
                  [] pc = "join"   -> 1
                  [] OTHER         -> 0
WorkerAt(pc) == CASE pc = "recv"    -> 7
                  [] pc = "process" -> 14
                  [] pc = "send"    -> 13
                  [] pc = "bye"     -> 6
                  [] OTHER          -> 0
WriterAt(pc) == CASE pc = "recv"  -> 1
                  [] pc = "place" -> 5
                  [] pc = "back"  -> 3
                  [] OTHER        -> 0

At(pc) == Cardinality({w \in Workers : worker[w].pc = pc})

CallerLeft  == 11 * (numFrames - next) + CallerAt(main)
WorkersLeft == 7 * At("recv") + 14 * At("process") + 13 * At("send") + 6 * At("bye")
WriterLeft  == 3 * Cardinality(reorder) + WriterAt(writer)
QueuesLeft  == 8 * Len(ctx) + 5 * Len(wq)
DiskLeft    == IF disk.pc = "busy" THEN 1 ELSE 0

Left == CallerLeft + WorkersLeft + WriterLeft + QueuesLeft + DiskLeft

LEMMA AtIs == ASSUME NEW pc PROVE At(pc) \in Nat
<1>1. {w \in Workers : worker[w].pc = pc} \subseteq Workers
  OBVIOUS
<1> QED
  BY <1>1, FS_Subset, FS_CardinalityType, SizeAssumption DEF At

\* One worker goes from a place in the code to another.
LEMMA AtMoves ==
    ASSUME NEW w \in Workers, NEW pc,
           \A v \in Workers : v # w => worker'[v] = worker[v]
    PROVE  At(pc)' = At(pc) + (IF worker'[w].pc = pc THEN 1 ELSE 0)
                            - (IF worker[w].pc = pc THEN 1 ELSE 0)
<1> DEFINE A == {v \in Workers : worker[v].pc = pc}
           B == {v \in Workers : worker'[v].pc = pc}
<1>1. IsFiniteSet(A) /\ IsFiniteSet(B)
  <2>1. A \subseteq Workers /\ B \subseteq Workers
    OBVIOUS
  <2> QED  BY <2>1, FS_Subset, SizeAssumption
<1>2. (w \in A <=> worker[w].pc = pc) /\ (w \in B <=> worker'[w].pc = pc)
  OBVIOUS
<1>3. At(pc) = Cardinality(A) /\ At(pc)' = Cardinality(B)
  BY DEF At
<1>4. A \cup {w} = B \cup {w}
  OBVIOUS
<1> HIDE DEF A, B
<1>5. Cardinality(A) \in Nat /\ Cardinality(B) \in Nat
  BY <1>1, FS_CardinalityType
<1>6. Cardinality(A \cup {w}) = IF w \in A THEN Cardinality(A) ELSE Cardinality(A) + 1
  BY <1>1, FS_AddElement
<1>7. Cardinality(B \cup {w}) = IF w \in B THEN Cardinality(B) ELSE Cardinality(B) + 1
  BY <1>1, FS_AddElement
<1> DEFINE a == Cardinality(A)  b == Cardinality(B)
<1>8. a \in Nat /\ b \in Nat /\ At(pc) = a /\ At(pc)' = b
  BY <1>3, <1>5
<1>9. (IF w \in A THEN a ELSE a + 1) = (IF w \in B THEN b ELSE b + 1)
  BY <1>4, <1>6, <1>7
<1> HIDE DEF a, b
<1> QED
  BY <1>2, <1>8, <1>9

LEMMA AtsAre ==
    /\ \A pc : CallerAt(pc) \in 0..3 /\ WorkerAt(pc) \in 0..14 /\ WriterAt(pc) \in 0..5
    /\ CallerAt("buffer") = 3 /\ CallerAt("read") = 2 /\ CallerAt("send") = 1
    /\ CallerAt("await") = 2 /\ CallerAt("join") = 1
    /\ CallerAt("returned") = 0 /\ CallerAt("panicked") = 0
    /\ WorkerAt("recv") = 7 /\ WorkerAt("process") = 14 /\ WorkerAt("send") = 13
    /\ WorkerAt("bye") = 6 /\ WorkerAt("exited") = 0 /\ WorkerAt("failed") = 0
    /\ WorkerAt("panicked") = 0
    /\ WriterAt("recv") = 1 /\ WriterAt("place") = 5 /\ WriterAt("back") = 3
    /\ WriterAt("exited") = 0 /\ WriterAt("panicked") = 0
  BY DEF CallerAt, WorkerAt, WriterAt

LEMMA WorkersLeftMoves ==
    ASSUME TypeInv, NEW w \in Workers, \A v \in Workers : v # w => worker'[v] = worker[v]
    PROVE  WorkersLeft' = WorkersLeft + WorkerAt(worker'[w].pc) - WorkerAt(worker[w].pc)
<1> DEFINE was == worker[w].pc  is == worker'[w].pc
           In(x, pc) == IF x = pc THEN 1 ELSE 0
<1>1. \A pc : At(pc) \in Nat /\ At(pc)' = At(pc) + In(is, pc) - In(was, pc)
  BY AtIs, AtMoves
<1>2. /\ At("recv") \in Nat /\ At("recv")' = At("recv") + In(is, "recv") - In(was, "recv")
      /\ At("process") \in Nat
      /\ At("process")' = At("process") + In(is, "process") - In(was, "process")
      /\ At("send") \in Nat /\ At("send")' = At("send") + In(is, "send") - In(was, "send")
      /\ At("bye") \in Nat /\ At("bye")' = At("bye") + In(is, "bye") - In(was, "bye")
  BY <1>1
<1> HIDE DEF was, is
<1>3. \A x : /\ In(x, "recv") \in Nat /\ In(x, "process") \in Nat
             /\ In(x, "send") \in Nat /\ In(x, "bye") \in Nat
             /\ WorkerAt(x) = 7 * In(x, "recv") + 14 * In(x, "process")
                              + 13 * In(x, "send") + 6 * In(x, "bye")
  BY DEF WorkerAt
<1> HIDE DEF In
<1>4. WorkersLeft' = WorkersLeft + WorkerAt(is) - WorkerAt(was)
  BY <1>2, <1>3 DEF WorkersLeft
<1> QED
  BY <1>4 DEF was, is

\* What is left of each part is a number.
LEMMA LeftIs ==
    ASSUME TypeInv
    PROVE  /\ CallerLeft \in Nat /\ WorkersLeft \in Nat /\ WriterLeft \in Nat
           /\ QueuesLeft \in Nat /\ DiskLeft \in Nat /\ Left \in Nat
<1>1. numFrames - next \in Nat /\ numFrames \in Nat
  BY DEF TypeInv, TypeOK
<1>2. Cardinality(reorder) \in Nat
  <2>1. 0 \in Int /\ numFrames - 1 \in Int
    BY <1>1
  <2>2. IsFiniteSet(Frames)
    BY ONLY <2>1, FS_Interval DEF Frames
  <2> QED  BY <2>2, Types, FS_Subset, FS_CardinalityType
<1>3. CallerLeft \in Nat
  BY <1>1, AtsAre DEF CallerLeft
<1>4. WriterLeft \in Nat
  BY <1>2, AtsAre DEF WriterLeft
<1>5. WorkersLeft \in Nat
  <2>1. At("recv") \in Nat /\ At("process") \in Nat /\ At("send") \in Nat /\ At("bye") \in Nat
    BY AtIs
  <2> QED  BY <2>1 DEF WorkersLeft
<1>6. QueuesLeft \in Nat
  BY Types DEF QueuesLeft
<1>7. DiskLeft \in Nat
  BY DEF DiskLeft
<1> QED
  BY <1>3, <1>4, <1>5, <1>6, <1>7 DEF Left

\* A frame enters or leaves a queue.
LEMMA QueuesMove ==
    ASSUME TypeInv
    PROVE  /\ ctx' = ctx /\ wq' = wq => QueuesLeft' = QueuesLeft
           /\ ctx' = Append(ctx, next) /\ wq' = wq => QueuesLeft' = QueuesLeft + 8
           /\ ctx # <<>> /\ ctx' = Tail(ctx) /\ wq' = wq => QueuesLeft' = QueuesLeft - 8
           /\ ctx' = ctx /\ (\E m : wq' = Append(wq, m)) => QueuesLeft' = QueuesLeft + 5
           /\ ctx' = ctx /\ wq # <<>> /\ wq' = Tail(wq) => QueuesLeft' = QueuesLeft - 5
<1>1. Len(ctx) \in Nat /\ Len(wq) \in Nat
  BY Types
<1>2. ctx' = Append(ctx, next) => Len(ctx') = Len(ctx) + 1
  BY Types
<1>3. ctx # <<>> /\ ctx' = Tail(ctx) => Len(ctx') = Len(ctx) - 1
  BY Types
<1>4. (\E m : wq' = Append(wq, m)) => Len(wq') = Len(wq) + 1
  BY Types
<1>5. wq # <<>> /\ wq' = Tail(wq) => Len(wq') = Len(wq) - 1
  BY Types
<1> DEFINE c == Len(ctx)  q == Len(wq)  c1 == Len(ctx')  q1 == Len(wq')
<1>6. QueuesLeft = 8 * c + 5 * q /\ QueuesLeft' = 8 * c1 + 5 * q1 /\ c \in Nat /\ q \in Nat
  BY <1>1 DEF QueuesLeft
<1>7. /\ ctx' = ctx => c1 = c
      /\ wq' = wq => q1 = q
      /\ ctx' = Append(ctx, next) => c1 = c + 1
      /\ ctx # <<>> /\ ctx' = Tail(ctx) => c1 = c - 1
      /\ (\E m : wq' = Append(wq, m)) => q1 = q + 1
      /\ wq # <<>> /\ wq' = Tail(wq) => q1 = q - 1
  BY <1>2, <1>3, <1>4, <1>5
<1> HIDE DEF c, q, c1, q1
<1>8. /\ c1 = c /\ q1 = q => QueuesLeft' = QueuesLeft
      /\ c1 = c + 1 /\ q1 = q => QueuesLeft' = QueuesLeft + 8
      /\ c1 = c - 1 /\ q1 = q => QueuesLeft' = QueuesLeft - 8
      /\ c1 = c /\ q1 = q + 1 => QueuesLeft' = QueuesLeft + 5
      /\ c1 = c /\ q1 = q - 1 => QueuesLeft' = QueuesLeft - 5
  BY <1>6
<1> QED
  BY <1>7, <1>8

LEMMA CallerSpends == ASSUME TypeInv, Caller PROVE Left' < Left
<1>1. UNCHANGED <<numFrames, worker, wq, writer, reorder, disk>>
  BY DEF Caller, MainFresh, MainRecycle, MainOrphaned, MainRead, MainReadFails, MainSend,
     MainEof, MainJoinWriter, MainJoinWorkers, workerVars, writerVars, fileVars
<1>2. WorkersLeft' = WorkersLeft /\ WriterLeft' = WriterLeft /\ DiskLeft' = DiskLeft
  BY <1>1 DEF WorkersLeft, At, WriterLeft, DiskLeft
<1>3. next \in Nat /\ numFrames \in Nat
  BY DEF TypeInv, TypeOK
<1>4. CASE MainSend
  <2>1. QueuesLeft' = QueuesLeft + 8
    BY <1>1, <1>4, QueuesMove DEF MainSend
  <2>2. CallerLeft' = CallerLeft - 9
    BY <1>1, <1>3, <1>4, AtsAre DEF MainSend, CallerLeft
  <2> QED  BY <1>2, <2>1, <2>2, LeftIs DEF Left
<1>5. CASE ~MainSend
  <2>1. ctx' = ctx /\ next' = next
    BY <1>5 DEF Caller, MainFresh, MainRecycle, MainOrphaned, MainRead, MainReadFails,
       MainEof, MainJoinWriter, MainJoinWorkers
  <2>2. QueuesLeft' = QueuesLeft
    BY <1>1, <2>1, QueuesMove
  <2>3. CallerAt(main') < CallerAt(main)
    BY <1>5, AtsAre DEF Caller, MainFresh, MainRecycle, MainOrphaned, MainRead,
       MainReadFails, MainEof, MainJoinWriter, MainJoinWorkers, Panic
  <2>4. CallerLeft' < CallerLeft /\ CallerLeft' \in Int
    BY <1>1, <1>3, <2>1, <2>3, AtsAre DEF CallerLeft
  <2> QED  BY <1>2, <2>2, <2>4, LeftIs DEF Left
<1> QED
  BY <1>4, <1>5

LEMMA WorkerSpends == ASSUME TypeInv, NEW w \in Workers, Worker(w) PROVE Left' < Left
<1>1. /\ UNCHANGED <<numFrames, main, next, writer, reorder, disk>>
      /\ \A v \in Workers : v # w => worker'[v] = worker[v]
  BY DEF TypeInv, TypeOK, Worker, WorkerRecv, WorkerClosed, WorkerProcess, WorkerFails,
     WorkerSend, WorkerBye, Go, mainVars, writerVars, fileVars
<1>2. CallerLeft' = CallerLeft /\ WriterLeft' = WriterLeft /\ DiskLeft' = DiskLeft
  BY <1>1 DEF CallerLeft, WriterLeft, DiskLeft
<1>3. WorkersLeft' = WorkersLeft + WorkerAt(worker'[w].pc) - WorkerAt(worker[w].pc)
  BY <1>1, WorkersLeftMoves
<1>4. WorkerAt(worker'[w].pc) \in Nat /\ WorkerAt(worker[w].pc) \in Nat
  BY AtsAre
<1> SUFFICES /\ QueuesLeft' \in Int
             /\ QueuesLeft' + WorkerAt(worker'[w].pc) < QueuesLeft + WorkerAt(worker[w].pc)
  BY <1>2, <1>3, <1>4, LeftIs DEF Left
<1>5. CASE WorkerRecv(w)
  <2>1. worker[w].pc = "recv" /\ worker'[w].pc = "process"
    BY <1>5 DEF WorkerRecv, TypeInv, TypeOK
  <2>2. QueuesLeft' = QueuesLeft - 8
    BY <1>5, QueuesMove DEF WorkerRecv
  <2> QED  BY <2>1, <2>2, LeftIs, AtsAre
<1>6. CASE WorkerClosed(w) \/ WorkerProcess(w) \/ WorkerFails(w)
  <2>1. \/ worker[w].pc = "recv" /\ worker'[w].pc \in {"bye", "exited"}
        \/ worker[w].pc = "process" /\ worker'[w].pc \in {"send", "panicked"}
    BY <1>6 DEF WorkerClosed, WorkerProcess, WorkerFails, Go, TypeInv, TypeOK
  <2>2. QueuesLeft' = QueuesLeft
    BY <1>6, QueuesMove DEF WorkerClosed, WorkerProcess, WorkerFails
  <2> QED  BY <2>1, <2>2, LeftIs, AtsAre
<1>7. CASE WorkerSend(w)
  <2>1. /\ worker[w].pc = "send" /\ ctx' = ctx
        /\ \/ worker'[w].pc = "failed" /\ wq' = wq
           \/ worker'[w].pc = "recv" /\ wq' = Append(wq, worker[w].fr)
    BY <1>7 DEF WorkerSend, Go, TypeInv, TypeOK
  <2>2. \/ worker'[w].pc = "failed" /\ QueuesLeft' = QueuesLeft
        \/ worker'[w].pc = "recv" /\ QueuesLeft' = QueuesLeft + 5
    BY <2>1, QueuesMove
  <2> QED  BY <2>1, <2>2, LeftIs, AtsAre
<1>8. CASE WorkerBye(w)
  <2>1. /\ worker[w].pc = "bye" /\ worker'[w].pc = "exited" /\ ctx' = ctx
        /\ wq' = wq \/ wq' = Append(wq, Bye)
    BY <1>8 DEF WorkerBye, Go, TypeInv, TypeOK
  <2>2. QueuesLeft' = QueuesLeft \/ QueuesLeft' = QueuesLeft + 5
    BY <2>1, QueuesMove
  <2> QED  BY <2>1, <2>2, LeftIs, AtsAre
<1> QED
  BY <1>5, <1>6, <1>7, <1>8 DEF Worker

\* The list grows and shrinks by one frame.
LEMMA ListMoves ==
    ASSUME TypeInv
    PROVE  /\ Cardinality(reorder) \in Nat
           /\ reorder' = reorder \cup {cur} =>
                 Cardinality(reorder') \in Nat /\ Cardinality(reorder') <= Cardinality(reorder) + 1
           /\ numWritten \in reorder /\ reorder' = reorder \ {numWritten} =>
                 Cardinality(reorder') = Cardinality(reorder) - 1
<1>1. IsFiniteSet(reorder)
  <2>1. 0 \in Int /\ numFrames - 1 \in Int
    BY FramesAre
  <2>2. IsFiniteSet(Frames)
    BY ONLY <2>1, FS_Interval DEF Frames
  <2> QED  BY <2>2, Types, FS_Subset
<1>2. Cardinality(reorder) \in Nat
  BY <1>1, FS_CardinalityType
<1>3. ASSUME reorder' = reorder \cup {cur}
      PROVE  Cardinality(reorder') \in {Cardinality(reorder), Cardinality(reorder) + 1}
  BY <1>1, <1>3, FS_AddElement
<1>4. ASSUME numWritten \in reorder, reorder' = reorder \ {numWritten}
      PROVE  Cardinality(reorder') = Cardinality(reorder) - 1
  BY <1>1, <1>4, FS_RemoveElement
<1> QED
  BY <1>2, <1>3, <1>4

LEMMA WriterSpends == ASSUME TypeInv, Writer PROVE Left' < Left
<1>1. UNCHANGED <<numFrames, main, next, ctx, worker>>
  BY DEF Writer, WriterRecv, WriterBye, WriterClosed, WriterStash, WriterWrite, WriterFails,
     WriterBack, mainVars, workerVars
<1>2. CallerLeft' = CallerLeft /\ WorkersLeft' = WorkersLeft
  BY <1>1 DEF CallerLeft, WorkersLeft, At
<1> DEFINE c == Cardinality(reorder)  c1 == Cardinality(reorder')
<1>3. c \in Nat /\ (reorder' = reorder => c1 = c)
  BY ListMoves
<1>4. WriterLeft = 3 * c + WriterAt(writer) /\ WriterLeft' = 3 * c1 + WriterAt(writer')
  BY DEF WriterLeft
<1>5. DiskLeft' = DiskLeft \/ (DiskLeft = 0 /\ DiskLeft' = 1 /\ WriterWrite)
  BY DEF DiskLeft, Writer, WriterRecv, WriterBye, WriterClosed, WriterStash, WriterWrite,
     WriterFails, WriterBack, fileVars
<1> SUFFICES QueuesLeft' \in Int /\ WriterLeft' \in Int /\ DiskLeft' \in Int
             /\ QueuesLeft' + WriterLeft' + DiskLeft' < QueuesLeft + WriterLeft + DiskLeft
  BY <1>2, LeftIs DEF Left
<1>6. CASE WriterRecv \/ WriterBye
  <2>1. QueuesLeft' = QueuesLeft - 5 /\ DiskLeft' = DiskLeft
    BY <1>6, <1>1, QueuesMove DEF WriterRecv, WriterBye, fileVars, DiskLeft
  <2>2. c1 = c /\ writer = "recv" /\ writer' \in {"place", "recv", "exited"}
    BY <1>6, <1>3 DEF WriterRecv, WriterBye
  <2> HIDE DEF c, c1
  <2> QED  BY <1>3, <1>4, <2>1, <2>2, LeftIs, AtsAre
<1>7. CASE WriterClosed \/ WriterFails
  <2>1. QueuesLeft' = QueuesLeft /\ DiskLeft' = DiskLeft
    BY <1>7, <1>1, QueuesMove DEF WriterClosed, WriterFails, fileVars, DiskLeft
  <2>2. /\ c1 = c
        /\ \/ writer = "recv" /\ writer' = "exited"
           \/ writer = "place" /\ writer' = "panicked"
    BY <1>7, <1>3 DEF WriterClosed, WriterFails
  <2> HIDE DEF c, c1
  <2> QED  BY <1>3, <1>4, <2>1, <2>2, LeftIs, AtsAre
<1>8. CASE WriterWrite
  <2>1. QueuesLeft' = QueuesLeft
    BY <1>8, <1>1, QueuesMove DEF WriterWrite
  <2>2. c1 = c /\ writer = "place" /\ writer' = "back"
    BY <1>8, <1>3 DEF WriterWrite
  <2> HIDE DEF c, c1
  <2> QED  BY <1>3, <1>4, <1>5, <2>1, <2>2, LeftIs, AtsAre
<1>9. CASE WriterStash
  <2>1. QueuesLeft' = QueuesLeft /\ DiskLeft' = DiskLeft
    BY <1>9, <1>1, QueuesMove DEF WriterStash, fileVars, DiskLeft
  <2>2. c1 \in Nat /\ c1 <= c + 1 /\ writer = "place" /\ writer' = "recv"
    BY <1>9, ListMoves DEF WriterStash
  <2> HIDE DEF c, c1
  <2> QED  BY <1>3, <1>4, <2>1, <2>2, LeftIs, AtsAre
<1>10. CASE WriterBack
  <2>1. QueuesLeft' = QueuesLeft /\ DiskLeft' = DiskLeft
    BY <1>10, <1>1, QueuesMove DEF WriterBack, fileVars, DiskLeft
  <2>2. /\ writer = "back"
        /\ \/ writer' = "recv" /\ reorder' = reorder
           \/ /\ writer' \in {"exited", "place"}
              /\ numWritten \in reorder /\ reorder' = reorder \ {numWritten}
    BY <1>10 DEF WriterBack
  <2>3. \/ writer' = "recv" /\ c1 = c
        \/ writer' \in {"exited", "place"} /\ c1 = c - 1
    BY <2>2, <1>3, ListMoves
  <2> HIDE DEF c, c1
  <2> QED  BY <1>3, <1>4, <2>1, <2>2, <2>3, LeftIs, AtsAre
<1> QED
  BY <1>6, <1>7, <1>8, <1>9, <1>10 DEF Writer

LEMMA DiskSpends == ASSUME TypeInv, Disk PROVE Left' < Left
<1>1. UNCHANGED restVars
  BY DiskAlone
<1>2. /\ CallerLeft' = CallerLeft /\ WorkersLeft' = WorkersLeft
      /\ WriterLeft' = WriterLeft /\ QueuesLeft' = QueuesLeft
  BY <1>1 DEF restVars, CallerLeft, WorkersLeft, At, WriterLeft, QueuesLeft
<1>3. disk.pc = "busy" /\ disk'.pc # "busy"
  BY DEF Disk, DiskWrites, DiskFails, TypeInv, TypeOK
<1>4. DiskLeft = 1 /\ DiskLeft' = 0
  BY <1>3 DEF DiskLeft
<1> QED
  BY <1>2, <1>4, LeftIs DEF Left

\* Every step of parallel uses one up, whatever the threads do in which order:
\* no frame goes round twice, and nothing is tried again.  With NeverStuck, a
\* call that goes on while it can ends after so many steps, or is starved.
THEOREM StepsBounded ==
    Spec => /\ Left = 11 * numFrames + 7 * N + 4
            /\ [](Left \in Nat)
            /\ [][Left' < Left]_vars
<1>1. ASSUME Init PROVE Left = 11 * numFrames + 7 * N + 4
  <2>1. numFrames \in Nat /\ N \in Nat
    BY <1>1, SizeAssumption, Constants DEF Init
  <2>2. {w \in Workers : worker[w].pc = "recv"} = Workers
    BY <1>1 DEF Init
  <2>3. At("recv") = N
    BY <2>2 DEF At, N
  <2>4. ASSUME NEW pc, pc # "recv" PROVE At(pc) = 0
    <3>1. {w \in Workers : worker[w].pc = pc} = {}
      BY <1>1, <2>4 DEF Init
    <3> QED  BY <3>1, FS_EmptySet DEF At
  <2>5. WorkersLeft = 7 * N
    BY <2>1, <2>3, <2>4 DEF WorkersLeft
  <2>6. CallerLeft = 11 * numFrames + 3 /\ QueuesLeft = 0 /\ DiskLeft = 0
    BY <1>1, <2>1, AtsAre DEF Init, CallerLeft, QueuesLeft, DiskLeft
  <2>7. WriterLeft = 1
    <3>1. Cardinality(reorder) = 0 /\ writer = "recv"
      BY <1>1, FS_EmptySet DEF Init
    <3> QED  BY <3>1, AtsAre DEF WriterLeft
  <2> QED
    BY <2>1, <2>5, <2>6, <2>7 DEF Left
<1>2. TypeInv /\ [Next]_vars => [Left' < Left]_vars
  BY CallerSpends, WorkerSpends, WriterSpends, DiskSpends DEF Next
<1>3. TypeInv => Left \in Nat
  BY LeftIs
<1> QED
  BY <1>1, <1>2, <1>3, TypeInvHolds, PTL DEF Spec
=============================================================================
