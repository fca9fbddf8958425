----------------------------- MODULE TokioHttp -----------------------------
(***************************************************************************)
(* TokioTranscoder::transcode_http and mk_stream (transcoder/tokioworker). *)
(* The ring is that of TokioParallel, with these differences.  The frames  *)
(* come from the pieces of a GET (HttpRead).  The writer is a stream that  *)
(* the request of a PUT or POST pulls: the request may fail, or be         *)
(* answered, before the stream ends, and the stream is then dropped.  The  *)
(* caller may return while workers and request go on, and it keeps its     *)
(* channel ends, wtx, crx and rrx, until it does.                          *)
(***************************************************************************)
EXTENDS HttpRead, FiniteSets

CONSTANTS
    Workers,      \* threads num_workers may be taken from
    NumFrames,    \* meta_header.num_frames
    Bye,          \* the None message
    Hdr,          \* the bytes of the target header
    Faults        \* which of GET, chunk(), process_frame, PUT may fail

Frames == 0..(NumFrames - 1)

ASSUME FramesAssumption == IsFiniteSet(Workers) /\ NumFrames \in Nat
ASSUME PoolAssumption == Cardinality(Workers) < 512   \* they share a pool with the resolver
ASSUME MessageAssumption == Bye \notin Nat /\ Hdr \notin Nat /\ Bye # Hdr
ASSUME FaultAssumption == Faults \subseteq {"get", "read", "process", "put"}

VARIABLES
    pool,         \* the workers: as many as --num-threads says, none included
    main,         \* where the caller is
    ctx,          \* frames sent to the workers
    worker,       \* per worker: where it is and the frame it holds
    sent,         \* per worker: last_sent is Some
    wq,           \* what is sent to the stream
    stream,       \* where mk_stream is
    cur,          \* the frame it holds
    reorder,      \* frames that came early
    numWritten,   \* num_written
    numExited,    \* num_exited
    rq,           \* buffer pairs on their way back to the caller
    out,          \* the body of the PUT
    put,          \* the request: its task's Ok or Err
    reported,     \* the frame count the task answers, out_cell
    result        \* what transcode_http returns

mainVars   == <<pool, main>>
workerVars == <<worker, sent>>
streamVars == <<stream, cur, reorder, numWritten, numExited, out>>
putVars    == <<put, reported>>
vars == <<readVars, mainVars, ctx, workerVars, wq, streamVars, rq, putVars, result>>

N == Cardinality(pool)     \* num_workers, the capacity of each channel

Errors == {"Unsupported", "InvalidHeader", "Refused", "FileTooShort", "OutputTruncated"}

TypeOK ==
    /\ got \in Nat /\ carry \in Seq(Nat) /\ fr \in 0..NumFrames /\ buf \in Seq(Nat)
    /\ pool \subseteq Workers
    /\ main \in {"get", "buffer", "read", "send", "await", "join", "returned", "panicked"}
    /\ ctx \in Seq(Frames)
    /\ worker \in [Workers -> [pc : {"idle", "recv", "process", "send", "bye", "exited",
                                     "failed", "panicked"}, fr : Nat]]
    /\ sent \in [Workers -> BOOLEAN]
    /\ wq \in Seq(Frames \cup {Bye, Hdr})
    /\ stream \in {"idle", "recv", "place", "back", "ended", "dropped"}
    /\ cur \in Nat
    /\ reorder \in SUBSET Frames
    /\ numWritten \in 0..NumFrames
    /\ numExited \in 0..N
    /\ rq \in 0..N
    /\ out \in Seq(Frames \cup {Hdr})
    /\ put \in {"idle", "sending", "Ok", "Err"}
    /\ reported \in 0..NumFrames
    /\ result \in {"none", "ok", "panic"} \cup Errors

Init ==
    /\ ReadInit
    /\ pool \in SUBSET Workers
    /\ main = "get"
    /\ ctx = <<>>
    /\ worker = [w \in Workers |-> [pc |-> "idle", fr |-> 0]]
    /\ sent = [w \in Workers |-> FALSE]
    /\ wq = <<>>
    /\ stream = "idle" /\ cur = 0 /\ reorder = {}
    /\ numWritten = 0 /\ numExited = 0
    /\ rq = 0 /\ out = <<>>
    /\ put = "idle" /\ reported = 0
    /\ result = "none"

-----------------------------------------------------------------------------
(* Who holds which channel end.                                            *)

Ended == main \in {"returned", "panicked"}

\* Mutant: the caller lets go of its sender only after the last frame.
CtxOpenIfShort == main \notin {"await", "join"}

CtxOpen == main \in {"get", "buffer", "read", "send"}
RrxOpen == ~Ended
StreamGone == stream \in {"ended", "dropped"}

WorkerEnds == {"exited", "failed", "panicked"}

HoldsWtx(w) ==
    \/ worker[w].pc \in {"process", "send", "bye"}
    \/ worker[w].pc = "recv" /\ sent[w]

WqClosed ==
    /\ Ended
    /\ ctx = <<>> \/ \A w \in pool : worker[w].pc \in WorkerEnds
    /\ \A w \in pool : ~HoldsWtx(w)

-----------------------------------------------------------------------------
(* The caller.                                                             *)

Return(why) == main' = "returned" /\ result' = why
Panic == main' = "panicked" /\ result' = "panic"

\* The header message: the stream yields the second of its two buffers.
HdrMessage == [w |-> <<Hdr>>, r |-> <<>>]

\* The first chunk, the header and the rules; then the channels, of which
\* tokio's mpsc refuses a capacity of 0; the header message; and the tasks.
Open ==
    /\ main = "get" /\ N > 0
    /\ \E n \in ChunkSizes : SplitHeader(n)
    /\ wq' = <<Hdr>>
    /\ worker' = [w \in Workers |->
                    IF w \in pool THEN [worker[w] EXCEPT !.pc = "recv"] ELSE worker[w]]
    /\ stream' = "recv" /\ put' = "sending"
    /\ main' = "buffer"
    /\ UNCHANGED <<pool, ctx, sent, cur, reorder, numWritten, numExited, out,
                   rq, reported, result>>

OpenFails ==
    /\ main = "get"
    /\ \/ "get" \in Faults
          /\ \E why \in {"Unsupported", "InvalidHeader", "Refused"} : Return(why)
       \/ Panic /\ N = 0
       \/ Panic /\ \E n \in ChunkSizes : n < HeaderSize
    /\ UNCHANGED <<readVars, pool, ctx, workerVars, wq, streamVars, rq, putVars>>

\* Mutant: one buffer pair too many.
MainFreshOffByOne ==
    /\ main = "buffer" /\ fr < NumFrames /\ fr <= N
    /\ main' = "read"
    /\ UNCHANGED <<readVars, pool, ctx, workerVars, wq, streamVars, rq, putVars, result>>

\* num_outstanding is incremented for every frame, so that it is fr.
MainFresh ==
    /\ main = "buffer" /\ fr < NumFrames /\ fr < N
    /\ main' = "read"
    /\ UNCHANGED <<readVars, pool, ctx, workerVars, wq, streamVars, rq, putVars, result>>

MainRecycle ==
    /\ main = "buffer" /\ fr < NumFrames /\ fr >= N
    /\ rq > 0
    /\ rq' = rq - 1
    /\ main' = "read"
    /\ UNCHANGED <<readVars, pool, ctx, workerVars, wq, streamVars, putVars, result>>

\* Without a stream, recv() is None and the caller goes on with new buffers.
MainOrphaned ==
    /\ main = "buffer" /\ fr < NumFrames /\ fr >= N
    /\ rq = 0 /\ StreamGone
    /\ main' = "read"
    /\ UNCHANGED <<readVars, pool, ctx, workerVars, wq, streamVars, rq, putVars, result>>

MainRead ==
    /\ main = "read"
    /\ NextChunk \/ TakeAll \/ TakePart
    /\ UNCHANGED <<mainVars, ctx, workerVars, wq, streamVars, rq, putVars, result>>

\* The body ends early: the caller returns at once, and the tasks go on.
MainReadFails ==
    /\ main = "read" /\ "read" \in Faults
    /\ ToRead > 0 /\ carry = <<>>
    /\ Return("FileTooShort")
    /\ UNCHANGED <<readVars, pool, ctx, workerVars, wq, streamVars, rq, putVars>>

MainFilled ==
    /\ main = "read" /\ FrameRead
    /\ main' = "send"
    /\ UNCHANGED <<readVars, pool, ctx, workerVars, wq, streamVars, rq, putVars, result>>

\* A blocking send of a crossbeam channel; the caller holds a crx of its own.
MainSend ==
    /\ main = "send" /\ Len(ctx) < N
    /\ ctx' = Append(ctx, fr)
    /\ NextFrame
    /\ main' = "buffer"
    /\ UNCHANGED <<pool, workerVars, wq, streamVars, rq, putVars, result>>

MainEof ==
    /\ main = "buffer" /\ fr = NumFrames
    /\ main' = "await"
    /\ UNCHANGED <<readVars, pool, ctx, workerVars, wq, streamVars, rq, putVars, result>>

MainJoinPut ==
    /\ main = "await" /\ put \in {"Ok", "Err"}
    /\ IF put = "Err" THEN Return("OutputTruncated")
                      ELSE main' = "join" /\ UNCHANGED result
    /\ UNCHANGED <<readVars, pool, ctx, workerVars, wq, streamVars, rq, putVars>>

MainJoinWorkers ==
    /\ main = "join"
    /\ \A w \in pool : worker[w].pc \in WorkerEnds
    /\ IF \E w \in pool : worker[w].pc = "panicked" THEN Panic ELSE Return("ok")
    /\ UNCHANGED <<readVars, pool, ctx, workerVars, wq, streamVars, rq, putVars>>

-----------------------------------------------------------------------------
(* Worker w.                                                               *)

Go(w, pc) == worker' = [worker EXCEPT ![w].pc = pc]

WorkerRecv(w) ==
    /\ worker[w].pc = "recv" /\ ctx # <<>>
    /\ worker' = [worker EXCEPT ![w] = [pc |-> "process", fr |-> Head(ctx)]]
    /\ ctx' = Tail(ctx)
    /\ UNCHANGED <<readVars, mainVars, sent, wq, streamVars, rq, putVars, result>>

WorkerClosed(w) ==   \* an end mark only if it ever sent a frame
    /\ worker[w].pc = "recv" /\ ctx = <<>> /\ ~CtxOpen
    /\ Go(w, IF sent[w] THEN "bye" ELSE "exited")
    /\ UNCHANGED <<readVars, mainVars, ctx, sent, wq, streamVars, rq, putVars, result>>

WorkerProcess(w) ==   \* process_frame panics on a rectangle outside the frame
    /\ worker[w].pc = "process"
    /\ Go(w, "send") \/ ("process" \in Faults /\ Go(w, "panicked"))
    /\ UNCHANGED <<readVars, mainVars, ctx, sent, wq, streamVars, rq, putVars, result>>

WorkerSend(w) ==
    /\ worker[w].pc = "send"
    /\ IF StreamGone
       THEN Go(w, "failed") /\ UNCHANGED <<sent, wq>>
       ELSE /\ Len(wq) < N
            /\ wq' = Append(wq, worker[w].fr)
            /\ sent' = [sent EXCEPT ![w] = TRUE]
            /\ Go(w, "recv")
    /\ UNCHANGED <<readVars, mainVars, ctx, streamVars, rq, putVars, result>>

WorkerBye(w) ==       \* blocking_send(None).unwrap()
    /\ worker[w].pc = "bye"
    /\ IF StreamGone
       THEN Go(w, "panicked") /\ UNCHANGED wq
       ELSE /\ Len(wq) < N
            /\ wq' = Append(wq, Bye)
            /\ Go(w, "exited")
    /\ UNCHANGED <<readVars, mainVars, ctx, sent, streamVars, rq, putVars, result>>

-----------------------------------------------------------------------------
(* mk_stream.  out_cell is set where the stream ends, and nowhere else.    *)

StreamHeader ==
    /\ stream = "recv" /\ wq # <<>> /\ Head(wq) = Hdr
    /\ wq' = Tail(wq)
    /\ out' = out \o HdrMessage.r
    /\ UNCHANGED <<readVars, mainVars, ctx, workerVars, stream, cur, reorder,
                   numWritten, numExited, rq, putVars, result>>

StreamRecv ==
    /\ stream = "recv" /\ wq # <<>> /\ Head(wq) \in Frames
    /\ wq' = Tail(wq)
    /\ cur' = Head(wq)
    /\ stream' = "place"
    /\ UNCHANGED <<readVars, mainVars, ctx, workerVars, reorder, numWritten,
                   numExited, out, rq, putVars, result>>

\* Mutant: the stream waits for one end mark more than there are workers.
StreamByeOffByOne ==
    /\ stream = "recv" /\ wq # <<>> /\ Head(wq) = Bye
    /\ wq' = Tail(wq)
    /\ numExited' = numExited + 1
    /\ stream' = IF numExited' > N THEN "ended" ELSE "recv"
    /\ UNCHANGED <<readVars, mainVars, ctx, workerVars, cur, reorder, numWritten,
                   out, rq, putVars, result>>

StreamBye ==
    /\ stream = "recv" /\ wq # <<>> /\ Head(wq) = Bye
    /\ wq' = Tail(wq)
    /\ numExited' = numExited + 1
    /\ stream' = IF numExited' = N THEN "ended" ELSE "recv"
    /\ UNCHANGED <<readVars, mainVars, ctx, workerVars, cur, reorder, numWritten,
                   out, rq, putVars, result>>

StreamClosed ==
    /\ stream = "recv" /\ wq = <<>> /\ WqClosed
    /\ stream' = "ended"
    /\ UNCHANGED <<readVars, mainVars, ctx, workerVars, wq, cur, reorder, numWritten,
                   numExited, out, rq, putVars, result>>

StreamStash ==
    /\ stream = "place" /\ cur # numWritten
    /\ reorder' = reorder \cup {cur}
    /\ stream' = "recv"
    /\ UNCHANGED <<readVars, mainVars, ctx, workerVars, wq, cur, numWritten,
                   numExited, out, rq, putVars, result>>

\* Mutant: a frame is counted when it comes early, too.
StreamYieldAny ==
    /\ stream = "place"
    /\ out' = Append(out, cur)
    /\ numWritten' = numWritten + 1
    /\ stream' = "back"
    /\ UNCHANGED <<readVars, mainVars, ctx, workerVars, wq, cur, reorder,
                   numExited, rq, putVars, result>>

StreamYield ==
    /\ stream = "place" /\ cur = numWritten
    /\ out' = Append(out, cur)
    /\ numWritten' = numWritten + 1
    /\ stream' = "back"
    /\ UNCHANGED <<readVars, mainVars, ctx, workerVars, wq, cur, reorder,
                   numExited, rq, putVars, result>>

StreamBack ==
    /\ stream = "back"
    /\ IF RrxOpen THEN rq < N /\ rq' = rq + 1 ELSE rq' = rq
    /\ IF numWritten \in reorder /\ \A k \in reorder : numWritten <= k
       THEN /\ cur' = numWritten
            /\ reorder' = reorder \ {numWritten}
            /\ stream' = IF numWritten = NumFrames THEN "ended" ELSE "place"
       ELSE /\ stream' = "recv"
            /\ UNCHANGED <<cur, reorder>>
    /\ UNCHANGED <<readVars, mainVars, ctx, workerVars, wq, numWritten, numExited,
                   out, putVars, result>>

-----------------------------------------------------------------------------
(* The task of the PUT or POST.  The status of the answer is not looked at. *)

\* Mutant: the task answers the number of frames of the header.
PutEndsClaiming ==
    /\ put = "sending"
    /\ \/ /\ stream = "ended" \/ "put" \in Faults
          /\ put' = "Ok"
          /\ reported' = NumFrames
       \/ /\ "put" \in Faults
          /\ put' = "Err" /\ UNCHANGED reported
    /\ UNCHANGED <<readVars, mainVars, ctx, workerVars, wq, streamVars, rq, result>>

\* The server answers the whole body, or, as a fault, answers early or not at all.
PutEnds ==
    /\ put = "sending"
    /\ \/ /\ stream = "ended" \/ "put" \in Faults
          /\ put' = "Ok"
          /\ reported' = IF stream = "ended" THEN numWritten ELSE 0
       \/ /\ "put" \in Faults
          /\ put' = "Err" /\ UNCHANGED reported
    /\ UNCHANGED <<readVars, mainVars, ctx, workerVars, wq, streamVars, rq, result>>

\* A request that is over drops its body, with wrx and rtx.
StreamDropped ==
    /\ put \in {"Ok", "Err"} /\ stream \in {"recv", "place", "back"}
    /\ stream' = "dropped"
    /\ UNCHANGED <<readVars, mainVars, ctx, workerVars, wq, cur, reorder, numWritten,
                   numExited, out, rq, putVars, result>>

-----------------------------------------------------------------------------
Caller ==
    \/ Open \/ OpenFails \/ MainFresh \/ MainRecycle \/ MainOrphaned \/ MainRead
    \/ MainReadFails \/ MainFilled \/ MainSend \/ MainEof \/ MainJoinPut
    \/ MainJoinWorkers

Worker(w) ==
    \/ WorkerRecv(w) \/ WorkerClosed(w) \/ WorkerProcess(w)
    \/ WorkerSend(w) \/ WorkerBye(w)

Stream ==
    \/ StreamHeader \/ StreamRecv \/ StreamBye \/ StreamClosed \/ StreamStash
    \/ StreamYield \/ StreamBack

Request == PutEnds \/ StreamDropped

Next == Caller \/ Stream \/ Request \/ \E w \in Workers : Worker(w)

(* As in TokioParallel; the request pulls the stream as long as it is not  *)
(* over, the GET delivers or fails, and a server answers a whole body.     *)
Fairness ==
    /\ WF_vars(Caller) /\ WF_vars(Stream) /\ WF_vars(StreamDropped)
    /\ WF_vars(stream = "ended" /\ PutEnds)
    /\ \A w \in Workers : WF_vars(Worker(w))

Spec == Init /\ [][Next]_vars /\ Fairness

-----------------------------------------------------------------------------
(* Properties.                                                             *)

\* The body is frames 0, 1, 2, ... as far as it goes.
InOrder == out = [i \in 1..numWritten |-> i - 1]

\* The blocking send of the caller, an async task, finds room as long as
\* there is a stream to bring buffers back; and the stream finds room for
\* them even after the caller has stopped taking them.
SendsHaveRoom ==
    /\ main = "send" /\ ~StreamGone => Len(ctx) < N
    /\ stream = "back" /\ RrxOpen => rq < N

\* The state keeps its shape and its bounds.
RingBounded == TypeOK /\ SendsHaveRoom

\* What the count that is reported promises: that of all frames is answered
\* only when the body held all of them.  An Ok with another count is taken
\* for a failure, which is how a job record tells the two apart.
Engine == INSTANCE Transcode WITH
    numFrames <- NumFrames,
    out <- {out[i] : i \in 1..Len(out)},
    result <- CASE result = "none" -> "none"
                [] result = "ok" /\ reported = NumFrames /\ NumFrames > 0 -> "ok"
                [] OTHER -> "err"
ImplementsTranscode == Engine!Spec

\* A worker that ended without an end mark: it never had a frame, it
\* panicked, or it lost its stream.
Starved ==
    \E w \in pool : \/ worker[w].pc = "exited" /\ ~sent[w]
                    \/ worker[w].pc \in {"failed", "panicked"}

CallerReady ==
    \/ main \in {"get", "read"}
    \/ main = "buffer" /\ (fr = NumFrames \/ fr < N \/ rq > 0 \/ StreamGone)
    \/ main = "send" /\ FrameRead /\ Len(ctx) < N
    \/ main = "await" /\ put \in {"Ok", "Err"}
    \/ main = "join" /\ \A w \in pool : worker[w].pc \in WorkerEnds

WorkerReady(w) ==
    \/ worker[w].pc = "recv" /\ (ctx # <<>> \/ ~CtxOpen)
    \/ worker[w].pc = "process"
    \/ worker[w].pc \in {"send", "bye"} /\ (StreamGone \/ Len(wq) < N)

StreamReady ==
    \/ stream = "recv" /\ (wq # <<>> \/ WqClosed)
    \/ stream = "place"
    \/ stream = "back" /\ (RrxOpen => rq < N)

RequestReady ==
    \/ put = "sending" /\ stream = "ended"
    \/ put \in {"Ok", "Err"} /\ stream \in {"recv", "place", "back"}

\* The call and its tasks are over.
AtRest ==
    /\ Ended
    /\ stream \notin {"recv", "place", "back"} /\ put # "sending"
    /\ \A w \in pool : worker[w].pc \in WorkerEnds \cup {"idle"}

\* The caller, the workers, the stream and the request never all wait for each
\* other, nor do those that a call leaves behind that returned early: that call
\* drops its ends, and everybody comes to an end.  Only a caller that waits for
\* the stream can be left alone, by a worker that ended without an end mark.
NeverStuck ==
    \/ AtRest
    \/ ~Ended /\ Starved
    \/ CallerReady \/ StreamReady \/ RequestReady \/ \E w \in pool : WorkerReady(w)

\* The call ends, whatever the GET and the PUT do, unless a worker ends
\* without an end mark.
CompletesUnlessStarved == <>(Ended \/ Starved)

\* tokioworker.rs:517, "prepend the output stream with the frame header".
HeaderFirst == out # <<>> => Head(out) = Hdr
=============================================================================
