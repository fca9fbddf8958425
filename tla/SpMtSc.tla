------------------------------- MODULE SpMtSc -------------------------------
(***************************************************************************)
(* SpMtScTranscoder (transcoder/spmtsc.rs): a reader thread, K worker      *)
(* threads and a writer thread joined by four unbounded channels           *)
(*                                                                         *)
(*     reader --fullSrc--> workers --fullTgt--> writer                     *)
(*     reader <--freeSrc-- workers <--freeTgt-- writer                     *)
(*                                                                         *)
(* Each worker brings one source and one target buffer; buffers circulate  *)
(* and bound the memory.  A free buffer is a token, a full one is its      *)
(* frame number.  To stdout the writer stashes early frames; in a file it  *)
(* seeks to the frame's place.  The input is always a file: the header is  *)
(* read by opening file_name_in (MetaHeader::from_file), so with "-" the   *)
(* call fails before its threads start (Launch has that).                  *)
(***************************************************************************)
EXTENDS Naturals, Sequences, FiniteSets

CONSTANTS
    Workers,      \* the worker threads
    NumFrames,    \* meta_header.num_frames
    Faults        \* which of read, process, write may fail

K == Cardinality(Workers)     \* num_cpu_workers
Frames == 0..(NumFrames - 1)

ASSUME SizeAssumption ==
    /\ IsFiniteSet(Workers) /\ Workers # {}
    /\ NumFrames \in Nat
ASSUME FaultAssumption == Faults \subseteq {"read", "process", "write"}

VARIABLES
    stdout,       \* TRUE when file_name_out is "-"
    reader,       \* where the reader is
    next,         \* fr, its next frame
    freeSrc,      \* source buffers on their way to the reader
    fullSrc,      \* frames on their way to the workers
    worker,       \* per worker: where it is and the frame it holds
    freeTgt,      \* target buffers on their way to the workers
    fullTgt,      \* frames on their way to the writer
    writer,       \* where the writer is
    cur,          \* the frame it holds
    nextFr,       \* next_fr
    stash,        \* the frames that came early
    out,          \* the frames written, in order
    main,         \* the caller: joins the reader, then the others
    result        \* what transcode_file_names returns

readerVars == <<reader, next>>
writerVars == <<writer, cur, nextFr, stash, out>>
mainVars   == <<stdout, main, result>>
chanVars   == <<freeSrc, fullSrc, freeTgt, fullTgt>>
vars == <<readerVars, chanVars, worker, writerVars, mainVars>>

TypeOK ==
    /\ stdout \in BOOLEAN
    /\ reader \in {"open", "recv", "read", "ok", "err"}
    /\ next \in 0..NumFrames
    /\ freeSrc \in 0..K
    /\ fullSrc \in Seq(Frames)
    /\ worker \in [Workers -> [pc : {"start", "tgt", "src", "process", "free",
                                     "ok", "err"},
                               fr : Nat]]
    /\ freeTgt \in 0..K
    /\ fullTgt \in Seq(Frames)
    /\ writer \in {"open", "recv", "place", "back", "ok", "err"}
    /\ cur \in Nat
    /\ nextFr \in 0..NumFrames
    /\ stash \in SUBSET Frames
    /\ out \in Seq(Frames)
    /\ main \in {"reader", "all", "returned"}
    /\ result \in {"none", "ok", "err"}

Init ==
    /\ stdout \in BOOLEAN
    /\ reader = "open" /\ next = 0
    /\ freeSrc = 0 /\ fullSrc = <<>> /\ freeTgt = 0 /\ fullTgt = <<>>
    /\ worker = [w \in Workers |-> [pc |-> "start", fr |-> 0]]
    /\ writer = "open" /\ cur = 0 /\ nextFr = 0 /\ stash = {} /\ out = <<>>
    /\ main = "reader" /\ result = "none"

-----------------------------------------------------------------------------
(* Which channels are disconnected.  The caller keeps a freeSrc sender and *)
(* a fullSrc receiver to the end, so the reader's calls never fail on that *)
(* side; it drops its fullTgt sender after joining the reader.             *)

Ended == {"ok", "err"}
WorkersEnded  == \A w \in Workers : worker[w].pc \in Ended
FullSrcClosed == reader \in Ended
FullTgtClosed == main # "reader" /\ WorkersEnded
WriterGone    == writer \in Ended

-----------------------------------------------------------------------------
(* The reader.                                                             *)

ReaderOpen ==
    /\ reader = "open"
    /\ reader' = "recv"
    /\ UNCHANGED <<next, chanVars, worker, writerVars, mainVars>>

ReaderRecv ==
    /\ reader = "recv" /\ next < NumFrames
    /\ freeSrc > 0
    /\ freeSrc' = freeSrc - 1
    /\ reader' = "read"
    /\ UNCHANGED <<next, fullSrc, freeTgt, fullTgt, worker, writerVars, mainVars>>

ReaderFails ==      \* open, seek, or read_exact on a short input: `?'
    /\ reader \in {"open", "read"} /\ "read" \in Faults
    /\ reader' = "err"
    /\ UNCHANGED <<next, chanVars, worker, writerVars, mainVars>>

ReaderSend ==       \* reads the frame, which nobody sees, and sends it
    /\ reader = "read"
    /\ fullSrc' = Append(fullSrc, next)
    /\ next' = next + 1
    /\ reader' = "recv"
    /\ UNCHANGED <<freeSrc, freeTgt, fullTgt, worker, writerVars, mainVars>>

ReaderDone ==
    /\ reader = "recv" /\ next = NumFrames
    /\ reader' = "ok"
    /\ UNCHANGED <<next, chanVars, worker, writerVars, mainVars>>

-----------------------------------------------------------------------------
(* Worker w: a target buffer first, then a frame.                          *)

Go(w, pc) == worker' = [worker EXCEPT ![w].pc = pc]

\* The error of a send, once the reader has gone, is ignored.
GiveSrc == freeSrc' = IF reader \in Ended THEN freeSrc ELSE freeSrc + 1

WorkerStart(w) ==   \* brings its two buffers
    /\ worker[w].pc = "start"
    /\ GiveSrc
    /\ Go(w, "src")
    /\ UNCHANGED <<readerVars, fullSrc, freeTgt, fullTgt, writerVars, mainVars>>

WorkerTakeTgt(w) ==
    /\ worker[w].pc = "tgt" /\ freeTgt > 0
    /\ freeTgt' = freeTgt - 1
    /\ Go(w, "src")
    /\ UNCHANGED <<readerVars, freeSrc, fullSrc, fullTgt, writerVars, mainVars>>

WorkerNoTgt(w) ==   \* the writer has gone: ThreadErr
    /\ worker[w].pc = "tgt" /\ freeTgt = 0 /\ WriterGone
    /\ Go(w, "err")
    /\ UNCHANGED <<readerVars, chanVars, writerVars, mainVars>>

WorkerTakeSrc(w) ==
    /\ worker[w].pc = "src" /\ fullSrc # <<>>
    /\ worker' = [worker EXCEPT ![w] = [pc |-> "process", fr |-> Head(fullSrc)]]
    /\ fullSrc' = Tail(fullSrc)
    /\ UNCHANGED <<readerVars, freeSrc, freeTgt, fullTgt, writerVars, mainVars>>

WorkerDone(w) ==    \* graceful shutdown
    /\ worker[w].pc = "src" /\ fullSrc = <<>> /\ FullSrcClosed
    /\ Go(w, "ok")
    /\ UNCHANGED <<readerVars, chanVars, writerVars, mainVars>>

\* Mutant: a frame that fails is skipped.
WorkerSkips(w) ==
    /\ worker[w].pc = "process" /\ "process" \in Faults
    /\ Go(w, "src")
    /\ freeSrc' = freeSrc + 1
    /\ UNCHANGED <<readerVars, fullSrc, freeTgt, fullTgt, writerVars, mainVars>>

\* process_frame panics (it never answers Err): the frame and both buffers
\* are lost, and the join gives an error.
WorkerFails(w) ==
    /\ worker[w].pc = "process" /\ "process" \in Faults
    /\ Go(w, "err")
    /\ UNCHANGED <<readerVars, chanVars, writerVars, mainVars>>

WorkerSend(w) ==    \* processes the frame and sends it
    /\ worker[w].pc = "process"
    /\ IF WriterGone
       THEN Go(w, "err") /\ UNCHANGED fullTgt
       ELSE Go(w, "free") /\ fullTgt' = Append(fullTgt, worker[w].fr)
    /\ UNCHANGED <<readerVars, freeSrc, fullSrc, freeTgt, writerVars, mainVars>>

\* Mutant: the source buffer is not given back.
WorkerKeepsSrc(w) ==
    /\ worker[w].pc = "free"
    /\ Go(w, "tgt")
    /\ UNCHANGED <<readerVars, chanVars, writerVars, mainVars>>

WorkerFreeSrc(w) ==
    /\ worker[w].pc = "free"
    /\ GiveSrc
    /\ Go(w, "tgt")
    /\ UNCHANGED <<readerVars, fullSrc, freeTgt, fullTgt, writerVars, mainVars>>

-----------------------------------------------------------------------------
(* The writer.                                                             *)

WriterOpen ==       \* create the file, write the header
    /\ writer = "open"
    /\ writer' = "recv"
    /\ UNCHANGED <<readerVars, chanVars, worker, cur, nextFr, stash, out, mainVars>>

WriterRecv ==
    /\ writer = "recv" /\ fullTgt # <<>>
    /\ cur' = Head(fullTgt)
    /\ fullTgt' = Tail(fullTgt)
    /\ writer' = "place"
    /\ UNCHANGED <<readerVars, freeSrc, fullSrc, freeTgt, worker, nextFr, stash,
                   out, mainVars>>

WriterDone ==
    /\ writer = "recv" /\ fullTgt = <<>> /\ FullTgtClosed
    /\ writer' = "ok"
    /\ UNCHANGED <<readerVars, chanVars, worker, cur, nextFr, stash, out, mainVars>>

\* Mutant: the buffer of a stashed frame is given back at once.
WriterStashFrees ==
    /\ writer = "place" /\ stdout /\ cur # nextFr
    /\ stash' = stash \cup {cur}
    /\ freeTgt' = freeTgt + 1
    /\ writer' = "recv"
    /\ UNCHANGED <<readerVars, freeSrc, fullSrc, fullTgt, worker, cur, nextFr,
                   out, mainVars>>

WriterStash ==
    /\ writer = "place" /\ stdout /\ cur # nextFr
    /\ stash' = stash \cup {cur}
    /\ writer' = "recv"
    /\ UNCHANGED <<readerVars, chanVars, worker, cur, nextFr, out, mainVars>>

\* Mutant: stdout is written as the frames come.
WriterWriteAny ==
    /\ writer = "place"
    /\ out' = Append(out, cur)
    /\ writer' = "back"
    /\ UNCHANGED <<readerVars, chanVars, worker, cur, nextFr, stash, mainVars>>

WriterWrite ==
    /\ writer = "place" /\ (stdout => cur = nextFr)
    /\ out' = Append(out, cur)
    /\ writer' = "back"
    /\ UNCHANGED <<readerVars, chanVars, worker, cur, nextFr, stash, mainVars>>

WriterFails ==      \* create, header, seek, write_all: `?'
    /\ \/ writer = "open"
       \/ writer = "place" /\ (stdout => cur = nextFr)
    /\ "write" \in Faults
    /\ writer' = "err"
    /\ UNCHANGED <<readerVars, chanVars, worker, cur, nextFr, stash, out, mainVars>>

\* Gives the buffer back and, to stdout, takes the stash's first frame when
\* it is the next one: stash[0] is the smallest, and none is below next_fr.
WriterBack ==
    /\ writer = "back"
    /\ freeTgt' = freeTgt + 1
    /\ nextFr' = IF stdout THEN nextFr + 1 ELSE nextFr
    /\ IF stdout /\ nextFr' \in stash /\ \A fr \in stash : nextFr' <= fr
       THEN /\ cur' = nextFr'
            /\ stash' = stash \ {nextFr'}
            /\ writer' = "place"
       ELSE writer' = "recv" /\ UNCHANGED <<cur, stash>>
    /\ UNCHANGED <<readerVars, freeSrc, fullSrc, fullTgt, worker, out, mainVars>>

-----------------------------------------------------------------------------
(* The caller.  Only a panic of the reader is looked at, and only printed. *)

JoinReader ==
    /\ main = "reader" /\ reader \in Ended
    /\ main' = "all"
    /\ UNCHANGED <<readerVars, chanVars, worker, writerVars, stdout, result>>

JoinAll ==          \* collect_errors over the workers and the writer
    /\ main = "all" /\ WorkersEnded /\ WriterGone
    /\ main' = "returned"
    /\ result' = IF writer = "err" \/ \E w \in Workers : worker[w].pc = "err"
                 THEN "err" ELSE "ok"
    /\ UNCHANGED <<readerVars, chanVars, worker, writerVars, stdout>>

Reader ==
    ReaderOpen \/ ReaderRecv \/ ReaderFails \/ ReaderSend \/ ReaderDone

Worker(w) ==
    \/ WorkerStart(w) \/ WorkerTakeTgt(w) \/ WorkerNoTgt(w) \/ WorkerTakeSrc(w)
    \/ WorkerDone(w) \/ WorkerFails(w) \/ WorkerSend(w)
    \/ WorkerFreeSrc(w)

Writer ==
    \/ WriterOpen \/ WriterRecv \/ WriterDone \/ WriterStash \/ WriterWrite
    \/ WriterFails \/ WriterBack

Main == JoinReader \/ JoinAll

Next == Reader \/ Writer \/ Main \/ \E w \in Workers : Worker(w)

(* Every one of these is a thread: it runs when it can.                    *)
Fairness == WF_vars(Reader) /\ WF_vars(Writer) /\ WF_vars(Main)
            /\ \A w \in Workers : WF_vars(Worker(w))

Spec == Init /\ [][Next]_vars /\ Fairness

-----------------------------------------------------------------------------
(* Properties.                                                             *)

\* To stdout the frames come out 0, 1, 2, ...: the stash neither skips,
\* repeats nor overtakes.
InOrder == stdout => \A i \in 1..Len(out) : out[i] = i - 1

\* Every place that holds frame fr.
Holders(fr) ==
    {<<"fullSrc", i>> : i \in {k \in 1..Len(fullSrc) : fullSrc[k] = fr}}
    \cup {<<"worker", w>> : w \in {v \in Workers :
              worker[v].pc = "process" /\ worker[v].fr = fr}}
    \cup {<<"fullTgt", i>> : i \in {k \in 1..Len(fullTgt) : fullTgt[k] = fr}}
    \cup (IF writer = "place" /\ cur = fr THEN {<<"writer", fr>>} ELSE {})
    \cup (IF fr \in stash THEN {<<"stash", fr>>} ELSE {})
    \cup {<<"out", i>> : i \in {k \in 1..Len(out) : out[k] = fr}}

Failed == writer = "err" \/ \E w \in Workers : worker[w].pc = "err"

\* A frame the reader has sent is in exactly one place until it is in the
\* output; only a failure loses one, and nothing duplicates one.
FramesConserved ==
    \A fr \in Frames :
        /\ Cardinality(Holders(fr)) <= 1
        /\ Cardinality(Holders(fr)) = 0 => fr >= next \/ Failed

\* The channels are unbounded, the memory is not: the 2K buffers the workers
\* bring are all there is, on whichever channel, thread or stash they are.
At(pcs) == Cardinality({w \in Workers : worker[w].pc \in pcs})
BuffersBounded ==
    /\ freeSrc + Len(fullSrc) + (IF reader = "read" THEN 1 ELSE 0)
         + At({"start", "process", "free"}) <= K
    /\ freeTgt + Len(fullTgt) + Cardinality(stash)
         + (IF writer \in {"place", "back"} THEN 1 ELSE 0)
         + At({"start", "src", "process"}) <= K

\* No frame and no buffer is lost or made on the way round.
Conserved == FramesConserved /\ BuffersBounded

\* Implements the common promise of the engines: no Ok with a frame missing,
\* except the Ok of a call whose reader failed, taken for the error it is.
Engine == INSTANCE Transcode WITH
    numFrames <- NumFrames,
    out <- {out[i] : i \in 1..Len(out)},
    result <- IF result = "ok" /\ reader = "err" THEN "err" ELSE result
ImplementsTranscode == Engine!Spec

\* What each thread waits for: its step is possible.
ReaderReady ==
    \/ reader \in {"open", "read"}
    \/ reader = "recv" /\ (next = NumFrames \/ freeSrc > 0)

WorkerReady(w) ==
    \/ worker[w].pc \in {"start", "process", "free"}
    \/ worker[w].pc = "tgt" /\ (freeTgt > 0 \/ WriterGone)
    \/ worker[w].pc = "src" /\ (fullSrc # <<>> \/ FullSrcClosed)

WriterReady ==
    \/ writer \in {"open", "place", "back"}
    \/ writer = "recv" /\ (fullTgt # <<>> \/ FullTgtClosed)

MainReady ==
    \/ main = "reader" /\ reader \in Ended
    \/ main = "all" /\ WorkersEnded /\ WriterGone

\* The threads never all wait for each other: the stash cannot hold all target
\* buffers while the next frame still needs one, since a worker takes its
\* target buffer before its frame (spmtsc.rs:115-123).  Only a worker or a writer
\* that failed can leave the others without a buffer.
NeverStuck ==
    \/ main = "returned"
    \/ Failed
    \/ ReaderReady \/ WriterReady \/ MainReady \/ \E w \in Workers : WorkerReady(w)

\* The call returns, and with Ok, unless a worker or the writer fails: neither
\* the two free lists nor the stash can starve a thread, and a reader that
\* fails stops the others.  After another failure the reader or the other
\* workers may wait for ever for a buffer.
CompletesUnlessFailed == <>(result = "ok" \/ Failed)
=============================================================================
