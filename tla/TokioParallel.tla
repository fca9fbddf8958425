---------------------------- MODULE TokioParallel ----------------------------
(***************************************************************************)
(* TokioTranscoder::parallel (transcoder/tokioworker.rs): the caller reads *)
(* frames, num_workers blocking threads process them, one task writes them *)
(* in order.  Three bounded channels form the ring                         *)
(*                                                                         *)
(*     caller --ctx--> workers --wq--> writer --rq--> caller               *)
(*                                                                         *)
(* and the buffers that come back on rq are reused for later frames.  A    *)
(* frame is its number; the bytes are left out.  Every worker sends the    *)
(* writer an end mark (None in the code, Bye here) after its last frame.   *)
(*                                                                         *)
(* write_all on a file or stdout of tokio hands the bytes to a thread of   *)
(* tokio's blocking pool and returns; the next one waits for that thread,  *)
(* and nothing flushes the last.  So the write of one frame may be in      *)
(* flight (disk), also when the call is over.  The headers are read and    *)
(* handed over before the model starts.                                    *)
(***************************************************************************)
EXTENDS Naturals, Sequences, FiniteSets

CONSTANTS
    Workers,      \* the spawn_blocking threads; parallel needs at least two
    Lengths,      \* the numbers of frames a header may announce
    Bye,          \* the None message
    Faults        \* which of read_exact, process_frame, write_all may fail

N == Cardinality(Workers)     \* num_workers, the capacity of each channel

ASSUME SizeAssumption == IsFiniteSet(Workers) /\ N >= 2 /\ Lengths \subseteq Nat
ASSUME PoolAssumption == N < 512   \* see Fairness
ASSUME ByeAssumption == Bye \notin Nat
ASSUME FaultAssumption == Faults \subseteq {"read", "process", "write"}

VARIABLES
    numFrames,    \* meta_header.num_frames
    main,         \* where the caller is
    next,         \* fr, the frame it handles
    outstanding,  \* num_outstanding
    ctx,          \* frames sent to the workers
    worker,       \* per worker: where it is and the frame it holds
    sent,         \* per worker: last_sent is Some
    wq,           \* frames and end marks sent to the writer
    writer,       \* where the writer is
    cur,          \* the frame it holds
    reorder,      \* frames that came early
    numWritten,   \* num_written
    numExited,    \* num_exited
    rq,           \* buffer pairs on their way back to the caller
    disk,         \* the file's write in flight, or one that failed, with its frame
    out,          \* the output: frames in the order written
    result        \* what parallel returns

mainVars   == <<main, next, outstanding>>
workerVars == <<worker, sent>>
writerVars == <<writer, cur, reorder, numWritten, numExited>>
fileVars   == <<disk, out>>
vars == <<numFrames, mainVars, ctx, workerVars, wq, writerVars, fileVars, rq, result>>

Frames == 0..(numFrames - 1)

TypeOK ==
    /\ numFrames \in Nat
    /\ main \in {"buffer", "read", "send", "await", "join", "returned", "panicked"}
    /\ next \in 0..numFrames
    /\ outstanding \in 0..N
    /\ ctx \in Seq(Frames)
    /\ worker \in [Workers -> [pc : {"recv", "process", "send", "bye", "exited", "failed",
                                     "panicked"},
                               fr : Nat]]
    /\ sent \in [Workers -> BOOLEAN]
    /\ wq \in Seq(Frames \cup {Bye})
    /\ writer \in {"recv", "place", "back", "exited", "panicked"}
    /\ cur \in Nat
    /\ reorder \in SUBSET Frames
    /\ numWritten \in 0..numFrames
    /\ numExited \in 0..N
    /\ rq \in 0..N
    /\ disk \in [pc : {"idle", "busy", "failed"}, fr : Nat]
    /\ out \in Seq(Frames)
    /\ result \in {"none", "ok", "OutputTruncated", "panic"}

Init ==
    /\ numFrames \in Lengths
    /\ main = "buffer" /\ next = 0 /\ outstanding = 0
    /\ ctx = <<>>
    /\ worker = [w \in Workers |-> [pc |-> "recv", fr |-> 0]]
    /\ sent = [w \in Workers |-> FALSE]
    /\ wq = <<>>
    /\ writer = "recv" /\ cur = 0 /\ reorder = {}
    /\ numWritten = 0 /\ numExited = 0
    /\ rq = 0 /\ out = <<>> /\ disk = [pc |-> "idle", fr |-> 0]
    /\ result = "none"

-----------------------------------------------------------------------------
(* Who holds which channel end.  The caller drops ctx and rrx at the end   *)
(* of its loop (or when it unwinds), but the wtx it clones into every      *)
(* message lives until parallel returns.                                   *)

Reading == main \in {"buffer", "read", "send"}
CtxOpen == Reading
RrxOpen == Reading
WriterGone == writer \in {"exited", "panicked"}

WorkerEnds == {"exited", "failed", "panicked"}

HoldsWtx(w) ==
    \/ worker[w].pc \in {"process", "send", "bye"}
    \/ worker[w].pc = "recv" /\ sent[w]

WqClosed ==
    /\ main \in {"returned", "panicked"}
    /\ ctx = <<>> \/ \A w \in Workers : worker[w].pc \in WorkerEnds
    /\ \A w \in Workers : ~HoldsWtx(w)

-----------------------------------------------------------------------------
(* The caller.                                                             *)

Panic == main' = "panicked" /\ result' = "panic"

\* Mutant: one buffer pair too many.
MainFreshOffByOne ==
    /\ main = "buffer" /\ next < numFrames /\ outstanding <= N
    /\ outstanding' = outstanding + 1
    /\ main' = "read"
    /\ UNCHANGED <<next, ctx, workerVars, wq, writerVars, fileVars, rq, result>>

MainFresh ==   \* fewer than num_workers buffer pairs in use
    /\ main = "buffer" /\ next < numFrames /\ outstanding < N
    /\ outstanding' = outstanding + 1
    /\ main' = "read"
    /\ UNCHANGED <<next, ctx, workerVars, wq, writerVars, fileVars, rq, result>>

MainRecycle ==
    /\ main = "buffer" /\ next < numFrames /\ outstanding >= N
    /\ rq > 0
    /\ rq' = rq - 1
    /\ main' = "read"
    /\ UNCHANGED <<next, outstanding, ctx, workerVars, wq, writerVars, fileVars, result>>

MainOrphaned ==   \* rrx.recv() is None once the writer has gone: unwrap
    /\ main = "buffer" /\ next < numFrames /\ outstanding >= N
    /\ rq = 0 /\ WriterGone
    /\ Panic
    /\ UNCHANGED <<next, outstanding, ctx, workerVars, wq, writerVars, fileVars, rq>>

MainRead ==
    /\ main = "read"
    /\ main' = "send"
    /\ UNCHANGED <<next, outstanding, ctx, workerVars, wq, writerVars, fileVars, rq, result>>

MainReadFails ==  \* read_exact(..).await.unwrap() on a short input
    /\ main = "read" /\ "read" \in Faults
    /\ Panic
    /\ UNCHANGED <<next, outstanding, ctx, workerVars, wq, writerVars, fileVars, rq>>

MainSend ==
    /\ main = "send" /\ Len(ctx) < N
    /\ ctx' = Append(ctx, next)
    /\ next' = next + 1
    /\ main' = "buffer"
    /\ UNCHANGED <<outstanding, workerVars, wq, writerVars, fileVars, rq, result>>

MainEof ==
    /\ main = "buffer" /\ next = numFrames
    /\ main' = "await"
    /\ UNCHANGED <<next, outstanding, ctx, workerVars, wq, writerVars, fileVars, rq, result>>

\* Mutant: the writer's task is not awaited.
MainSkipsWriter ==
    /\ main = "await"
    /\ main' = "join"
    /\ UNCHANGED <<next, outstanding, ctx, workerVars, wq, writerVars, fileVars, rq, result>>

MainJoinWriter ==
    /\ main = "await" /\ WriterGone
    /\ IF writer = "panicked" THEN Panic
                              ELSE main' = "join" /\ UNCHANGED result
    /\ UNCHANGED <<next, outstanding, ctx, workerVars, wq, writerVars, fileVars, rq>>

MainJoinWorkers ==
    /\ main = "join"
    /\ \A w \in Workers : worker[w].pc \in WorkerEnds
    /\ IF \E w \in Workers : worker[w].pc = "panicked"
       THEN Panic
       ELSE /\ main' = "returned"
            /\ result' = IF numWritten = numFrames THEN "ok" ELSE "OutputTruncated"
    /\ UNCHANGED <<next, outstanding, ctx, workerVars, wq, writerVars, fileVars, rq>>

-----------------------------------------------------------------------------
(* Worker w.                                                               *)

Go(w, pc) == worker' = [worker EXCEPT ![w].pc = pc]

WorkerRecv(w) ==
    /\ worker[w].pc = "recv" /\ ctx # <<>>
    /\ worker' = [worker EXCEPT ![w] = [pc |-> "process", fr |-> Head(ctx)]]
    /\ ctx' = Tail(ctx)
    /\ UNCHANGED <<mainVars, sent, wq, writerVars, fileVars, rq, result>>

\* Mutant: no end mark at all.
WorkerClosedSilently(w) ==
    /\ worker[w].pc = "recv" /\ ctx = <<>> /\ ~CtxOpen
    /\ Go(w, "exited")
    /\ UNCHANGED <<mainVars, ctx, sent, wq, writerVars, fileVars, rq, result>>

WorkerClosed(w) ==   \* an end mark only if it ever sent a frame
    /\ worker[w].pc = "recv" /\ ctx = <<>> /\ ~CtxOpen
    /\ Go(w, IF sent[w] THEN "bye" ELSE "exited")
    /\ UNCHANGED <<mainVars, ctx, sent, wq, writerVars, fileVars, rq, result>>

WorkerProcess(w) ==
    /\ worker[w].pc = "process"
    /\ Go(w, "send")
    /\ UNCHANGED <<mainVars, ctx, sent, wq, writerVars, fileVars, rq, result>>

\* process_frame never answers Err; it panics on a rectangle that leaves the
\* frame.  The thread ends and the frame is lost.
WorkerFails(w) ==
    /\ worker[w].pc = "process" /\ "process" \in Faults
    /\ Go(w, "panicked")
    /\ UNCHANGED <<mainVars, ctx, sent, wq, writerVars, fileVars, rq, result>>

WorkerSend(w) ==
    /\ worker[w].pc = "send"
    /\ IF WriterGone
       THEN Go(w, "failed") /\ UNCHANGED <<sent, wq>>
       ELSE /\ Len(wq) < N
            /\ wq' = Append(wq, worker[w].fr)
            /\ sent' = [sent EXCEPT ![w] = TRUE]
            /\ Go(w, "recv")
    /\ UNCHANGED <<mainVars, ctx, writerVars, fileVars, rq, result>>

WorkerBye(w) ==
    /\ worker[w].pc = "bye"
    /\ WriterGone \/ Len(wq) < N
    /\ wq' = IF WriterGone THEN wq ELSE Append(wq, Bye)
    /\ Go(w, "exited")
    /\ UNCHANGED <<mainVars, ctx, sent, writerVars, fileVars, rq, result>>

-----------------------------------------------------------------------------
(* The writer.                                                             *)

WriterRecv ==
    /\ writer = "recv" /\ wq # <<>> /\ Head(wq) # Bye
    /\ wq' = Tail(wq)
    /\ cur' = Head(wq)
    /\ writer' = "place"
    /\ UNCHANGED <<mainVars, ctx, workerVars, reorder, numWritten, numExited,
                   fileVars, rq, result>>

WriterBye ==
    /\ writer = "recv" /\ wq # <<>> /\ Head(wq) = Bye
    /\ wq' = Tail(wq)
    /\ numExited' = numExited + 1
    /\ writer' = IF numExited' = N THEN "exited" ELSE "recv"
    /\ UNCHANGED <<mainVars, ctx, workerVars, cur, reorder, numWritten, rq,
                   fileVars, result>>

WriterClosed ==
    /\ writer = "recv" /\ wq = <<>> /\ WqClosed
    /\ writer' = "exited"
    /\ UNCHANGED <<mainVars, ctx, workerVars, wq, cur, reorder, numWritten,
                   numExited, fileVars, rq, result>>

WriterStash ==
    /\ writer = "place" /\ cur # numWritten
    /\ reorder' = reorder \cup {cur}
    /\ writer' = "recv"
    /\ UNCHANGED <<mainVars, ctx, workerVars, wq, cur, numWritten, numExited,
                   fileVars, rq, result>>

\* Mutant: frames are written as they come.
WriterWriteAny ==
    /\ writer = "place" /\ disk.pc = "idle"
    /\ disk' = [pc |-> "busy", fr |-> cur]
    /\ numWritten' = numWritten + 1
    /\ writer' = "back"
    /\ UNCHANGED <<mainVars, ctx, workerVars, wq, cur, reorder, numExited, out, rq,
                   result>>

\* write_all(): it waits for the write in flight, hands over the frame and
\* returns; num_written counts the frame from then on.
WriterWrite ==
    /\ writer = "place" /\ cur = numWritten /\ disk.pc = "idle"
    /\ disk' = [pc |-> "busy", fr |-> cur]
    /\ numWritten' = numWritten + 1
    /\ writer' = "back"
    /\ UNCHANGED <<mainVars, ctx, workerVars, wq, cur, reorder, numExited, out, rq,
                   result>>

\* Mutant: the error of write_all is dropped.
WriterIgnoresError ==
    /\ writer = "place" /\ cur = numWritten /\ "write" \in Faults /\ disk.pc # "busy"
    /\ numWritten' = numWritten + 1
    /\ writer' = "back"
    /\ UNCHANGED <<mainVars, ctx, workerVars, wq, cur, reorder, numExited, fileVars,
                   rq, result>>

\* write_all(..).unwrap(): the error of the write before, or of a first part
\* of this one.
WriterFails ==
    /\ writer = "place" /\ cur = numWritten /\ "write" \in Faults /\ disk.pc # "busy"
    /\ writer' = "panicked"
    /\ UNCHANGED <<mainVars, ctx, workerVars, wq, cur, reorder, numWritten,
                   numExited, fileVars, rq, result>>

\* Mutant: the early frame is not removed from the list.
WriterBackKeeps ==
    /\ writer = "back"
    /\ IF RrxOpen THEN rq < N /\ rq' = rq + 1 ELSE rq' = rq
    /\ IF numWritten \in reorder /\ \A fr \in reorder : numWritten <= fr
       THEN cur' = numWritten /\ writer' = "place"
       ELSE writer' = "recv" /\ UNCHANGED cur
    /\ UNCHANGED <<mainVars, ctx, workerVars, wq, reorder, numWritten,
                   numExited, fileVars, result>>

\* The buffers go back to the caller, unless it has stopped listening.  Then
\* the earliest early frame is taken if it is the next one; the test for the
\* last frame comes after that, when one more frame is always in hand.
WriterBack ==
    /\ writer = "back"
    /\ IF RrxOpen THEN rq < N /\ rq' = rq + 1 ELSE rq' = rq
    /\ IF numWritten \in reorder /\ \A fr \in reorder : numWritten <= fr
       THEN /\ cur' = numWritten
            /\ reorder' = reorder \ {numWritten}
            /\ writer' = IF numWritten = numFrames THEN "exited" ELSE "place"
       ELSE /\ writer' = "recv"
            /\ UNCHANGED <<cur, reorder>>
    /\ UNCHANGED <<mainVars, ctx, workerVars, wq, numWritten, numExited,
                   fileVars, result>>

-----------------------------------------------------------------------------
(* The thread that has the write in flight.                                *)

DiskWrites ==
    /\ disk.pc = "busy"
    /\ out' = Append(out, disk.fr)
    /\ disk' = [disk EXCEPT !.pc = "idle"]
    /\ UNCHANGED <<mainVars, ctx, workerVars, wq, writerVars, rq, result>>

DiskFails ==   \* the file keeps the error for the next write_all, if there is one
    /\ disk.pc = "busy" /\ "write" \in Faults
    /\ disk' = [disk EXCEPT !.pc = "failed"]
    /\ UNCHANGED <<mainVars, ctx, workerVars, wq, writerVars, out, rq, result>>

-----------------------------------------------------------------------------
Caller ==
    /\ UNCHANGED numFrames
    /\ \/ MainFresh \/ MainRecycle \/ MainOrphaned \/ MainRead \/ MainReadFails
       \/ MainSend \/ MainEof \/ MainJoinWriter \/ MainJoinWorkers

Worker(w) ==
    /\ UNCHANGED numFrames
    /\ \/ WorkerRecv(w) \/ WorkerClosed(w) \/ WorkerProcess(w) \/ WorkerFails(w)
       \/ WorkerSend(w) \/ WorkerBye(w)

Writer ==
    /\ UNCHANGED numFrames
    /\ \/ WriterRecv \/ WriterBye \/ WriterClosed \/ WriterStash \/ WriterWrite
       \/ WriterFails \/ WriterBack

Disk ==
    /\ UNCHANGED numFrames
    /\ DiskWrites \/ DiskFails

Next == Caller \/ Writer \/ Disk \/ \E w \in Workers : Worker(w)

(* The caller and the writer are tokio tasks, the workers and the write    *)
(* in flight have threads of the blocking pool: a step that stays possible *)
(* is taken.  The pool has 512 threads, which tokio::fs reads and writes   *)
(* with as well; 512 workers leave it none, hence PoolAssumption.  Which   *)
(* worker gets a frame, and whether a read, a frame or a write fails, is   *)
(* left open.                                                              *)
Fairness == WF_vars(Caller) /\ WF_vars(Writer) /\ WF_vars(Disk)
            /\ \A w \in Workers : WF_vars(Worker(w))

Spec == Init /\ [][Next]_vars /\ Fairness

-----------------------------------------------------------------------------
(* Properties.                                                             *)

\* The output is frames 0, 1, 2, ... as far as it goes, in whatever order
\* the workers finish: the writer's reorder list never skips or repeats, and
\* only the last frame it counted may be missing, in flight or failed.
InOrder == out = [i \in 1..(IF disk.pc = "idle" THEN numWritten ELSE numWritten - 1) |-> i - 1]

\* Every place that holds frame fr.
Holders(fr) ==
    {<<"ctx", i>> : i \in {k \in 1..Len(ctx) : ctx[k] = fr}}
    \cup {<<"worker", w>> : w \in {v \in Workers :
              worker[v].pc \in {"process", "send"} /\ worker[v].fr = fr}}
    \cup {<<"wq", i>> : i \in {k \in 1..Len(wq) : wq[k] = fr}}
    \cup (IF writer = "place" /\ cur = fr THEN {<<"writer", fr>>} ELSE {})
    \cup (IF fr \in reorder THEN {<<"reorder", fr>>} ELSE {})
    \cup (IF disk.pc = "busy" /\ disk.fr = fr THEN {<<"disk", fr>>} ELSE {})
    \cup {<<"out", i>> : i \in {k \in 1..Len(out) : out[k] = fr}}

Failed ==
    disk.pc = "failed" \/ writer = "panicked" \/ \E w \in Workers : worker[w].pc \in {"failed", "panicked"}

\* A frame the caller has sent is in exactly one place of the ring until it
\* is in the output; only a failure loses one, and nothing duplicates one.
Conserved ==
    \A fr \in Frames :
        /\ Cardinality(Holders(fr)) <= 1
        /\ Cardinality(Holders(fr)) = 0 => fr >= next \/ Failed

\* The caller's crossbeam send is blocking and would park an async thread,
\* and the writer would wait for a caller that waits for it: neither finds
\* its channel full, because at most num_workers buffer pairs exist.
SendsHaveRoom ==
    /\ main = "send" => Len(ctx) < N
    /\ writer = "back" /\ RrxOpen => rq < N

\* Fewer than num_workers frames wait for an earlier one.
ReorderBounded == Cardinality(reorder) < N

\* The two together: what num_workers buffer pairs bound.
RingBounded == SendsHaveRoom /\ ReorderBounded

\* A call that returns leaves no thread, no task and no frame of the ring
\* behind but the write of its last frame, which may be in flight or have
\* failed unseen; every frame before that is in the output, in order.  So the
\* OutputTruncated of its last line (tokioworker.rs:423) is never answered.
ReturnsAtRest ==
    main = "returned" =>
        /\ writer = "exited" /\ \A w \in Workers : worker[w].pc = "exited"
        /\ \A fr \in Frames : Holders(fr) \subseteq {<<"out", fr + 1>>, <<"disk", numFrames - 1>>}
        /\ out = [i \in 1..(IF disk.pc = "idle" THEN numFrames ELSE numFrames - 1) |-> i - 1]
        /\ result = "ok"

\* Implements the common promise of the engines: no Ok with a frame missing.
\* The Ok counts from the moment the write in flight is over, and that of a
\* call whose last write failed unseen is taken for that failure.
Engine == INSTANCE Transcode WITH
    out <- {out[i] : i \in 1..Len(out)},
    result <- IF result = "none" \/ (result = "ok" /\ disk.pc = "busy") THEN "none"
              ELSE IF result = "ok" /\ disk.pc = "idle" THEN "ok" ELSE "err"
ImplementsTranscode == Engine!Spec

\* A worker ended without an end mark: it never had a frame, or it failed.
Starved ==
    \E w \in Workers : \/ worker[w].pc = "exited" /\ ~sent[w]
                       \/ worker[w].pc \in {"failed", "panicked"}

\* What each thread waits for: its step is possible.
CallerReady ==
    \/ main = "buffer" /\ (next = numFrames \/ outstanding < N \/ rq > 0 \/ WriterGone)
    \/ main = "read"
    \/ main = "send" /\ Len(ctx) < N
    \/ main = "await" /\ WriterGone
    \/ main = "join" /\ \A w \in Workers : worker[w].pc \in WorkerEnds

WorkerReady(w) ==
    \/ worker[w].pc = "recv" /\ (ctx # <<>> \/ ~CtxOpen)
    \/ worker[w].pc = "process"
    \/ worker[w].pc \in {"send", "bye"} /\ (WriterGone \/ Len(wq) < N)

WriterReady ==
    \/ writer = "recv" /\ (wq # <<>> \/ WqClosed)
    \/ /\ writer = "place"
       /\ cur # numWritten \/ disk.pc = "idle" \/ (disk.pc = "failed" /\ "write" \in Faults)
    \/ writer = "back" /\ (RrxOpen => rq < N)

DiskReady == disk.pc = "busy"

\* The threads never all wait for each other: the caller for a buffer, the
\* workers for a frame or for room, the writer for the next frame in order,
\* the write in flight or the last end mark.  Only a worker that ended
\* without one can leave a call with nobody to go on.
NeverStuck ==
    \/ main \in {"returned", "panicked"}
    \/ Starved
    \/ CallerReady \/ WriterReady \/ DiskReady \/ \E w \in Workers : WorkerReady(w)

\* parallel ends, with Ok or with the panic of a read or write that failed,
\* unless a worker ends without an end mark: nothing else in the ring waits
\* for ever, and no frame is left in it.
CompletesUnlessStarved == <>(result \in {"ok", "panic"} \/ Starved)
=============================================================================
