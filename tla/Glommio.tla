------------------------------- MODULE Glommio -------------------------------
(***************************************************************************)
(* GlommioTranscoder (transcoder/glommio.rs): with one worker an executor  *)
(* that keeps one frame being read, one being processed and one being      *)
(* written (do_glommio_st); with more, the same loop over pairs of frames  *)
(* and a second executor that processes frames sent to it (do_glommio_mt). *)
(* Neither reports anything: transcode_file_names answers Ok whatever the  *)
(* executors did.                                                          *)
(*                                                                         *)
(* A frame is the index of the frame-sized block the reader delivers.  The *)
(* loops start reading at byte 0, so every block is 12 header bytes early, *)
(* and the frame numbers they carry are only printed: what follows is      *)
(* about blocks.  out is what the stream writer accepted; it is never      *)
(* closed, and what reaches the disk of its last buffer is the library's.  *)
(* do_glommio_mt also ignores both file names it is given.                 *)
(***************************************************************************)
EXTENDS Naturals, FiniteSets, SequencesExt

CONSTANTS
    MaxFrames,    \* bound: the frames a header announces
    Faults        \* which of open, read, process, write may fail

Frames == 0..MaxFrames
ChannelSize == 4

ASSUME GlommioAssumption ==
    /\ MaxFrames \in Nat
    /\ Faults \subseteq {"open", "read", "process", "write"}

VARIABLES
    input,        \* mt: several workers; total: num_frames of the header;
                  \* present: the whole blocks in the file; large: a frame
                  \* reaches every index `proc` touches
    exe,          \* the reading executor: where it is, and fr
    procStack,    \* proc_stack: blocks read and not processed
    procDone,     \* proc_done: blocks processed for the next pair (mt)
    outStack,     \* out_stack: groups (one block, or a pair) to be written
    held,         \* the group popped from out_stack and being written
    m2w, w2m,     \* the two shared channels (mt)
    worker,       \* the processing executor, and the block it has
    src, tgt,     \* free_src_stack and free_tgt_stack: buffers free and made
    read,         \* blocks read
    out,          \* blocks the writer accepted, in order
    lost,         \* blocks whose write failed with the error ignored
    mixed,        \* blocks `proc` wrote over after they were processed
    result

stacks == <<procStack, procDone, outStack, held>>
channels == <<m2w, w2m, worker>>
buffers == <<src, tgt>>
file == <<out, lost>>
vars == <<input, exe, stacks, channels, buffers, read, file, mixed, result>>

Input == [mt : BOOLEAN, total : Frames, present : Frames, large : BOOLEAN]
Width == IF input.mt THEN 2 ELSE 1

TypeOK ==
    /\ input \in Input
    /\ exe \in [pc : {"loop", "receive", "finish", "tail", "drain", "flush",
                      "done", "panicked"},
               fr : 0..(MaxFrames + 1)]
    /\ worker \in [pc : {"recv", "send", "done", "panicked"}, block : Frames]
    /\ \A q \in {procStack, procDone, held, m2w, w2m, out} : q \in Seq(Frames)
    /\ outStack \in Seq(Seq(Frames))
    /\ src \in [free : Nat, made : Nat] /\ tgt \in [free : Nat, made : Nat]
    /\ read \in Nat
    /\ lost \subseteq Frames /\ mixed \subseteq Frames
    /\ result \in {"none", "ok"}

Init ==
    /\ input \in Input
    /\ exe = [pc |-> "loop", fr |-> 0]
    /\ procStack = << >> /\ procDone = << >> /\ outStack = << >> /\ held = << >>
    /\ m2w = << >> /\ w2m = << >> /\ worker = [pc |-> "recv", block |-> 0]
    /\ src = [free |-> 0, made |-> 0] /\ tgt = [free |-> 0, made |-> 0]
    /\ read = 0 /\ out = << >> /\ lost = {} /\ mixed = {}
    /\ result = "none"

-----------------------------------------------------------------------------
\* BufStack: pop allocates when nothing is free, push never drops.
Pop(b, k) == IF b.free >= k THEN [b EXCEPT !.free = @ - k]
             ELSE [free |-> 0, made |-> b.made + (k - b.free)]

\* Mutant: the buffer is not handed back.
PushNothing(b, k) == b

Push(b, k) == [b EXCEPT !.free = @ + k]

Goes(pc) == exe' = [exe EXCEPT !.pc = pc]
Advance(pc, by) == exe' = [pc |-> pc, fr |-> exe.fr + by]
Running == exe.pc \notin {"done", "panicked"}
InLoop == exe.pc = "loop" /\ exe.fr < input.total
HasRead(k) == read + k <= input.present

\* An `unwrap` of the reading executor: its thread ends, its channel ends drop.
Panic ==
    /\ Goes("panicked")
    /\ UNCHANGED <<input, stacks, channels, buffers, read, file, mixed, result>>

\* Opening or reading a file, processing a frame or a checked write fails;
\* the input is exhausted (read_exact, or "eof"); the other executor is gone.
Fails ==
    /\ Running
    /\ \/ "open" \in Faults /\ exe.pc = "loop" /\ exe.fr = 0
       \/ "read" \in Faults /\ (InLoop \/ exe.pc = "finish")
       \/ "process" \in Faults /\ exe.pc \in {"loop", "tail"}
       \/ "write" \in Faults /\ exe.pc \in {"finish", "flush"}
       \/ InLoop /\ exe.fr < 2 * Width /\ ~HasRead(Width)
       \/ exe.pc = "finish" /\ ~HasRead(Width)
       \/ InLoop /\ input.mt /\ worker.pc = "panicked"
       \/ exe.pc = "receive" /\ w2m = << >> /\ worker.pc = "panicked"
    /\ Panic

-----------------------------------------------------------------------------
(* do_glommio_st. *)

\* fr 0: read, process, and keep the result for the first write.
StFirst ==
    /\ ~input.mt /\ InLoop /\ exe.fr = 0 /\ HasRead(1)
    /\ read' = 1
    /\ src' = Push(Pop(src, 1), 1) /\ tgt' = Pop(tgt, 1)
    /\ outStack' = <<  <<0>> >>
    /\ Advance("loop", 1)
    /\ UNCHANGED <<input, procStack, procDone, held, channels, file, mixed, result>>

\* fr 1: read only.
StSecond ==
    /\ ~input.mt /\ InLoop /\ exe.fr = 1 /\ HasRead(1)
    /\ read' = 2
    /\ src' = Pop(src, 1)
    /\ procStack' = <<1>>
    /\ Advance("loop", 1)
    /\ UNCHANGED <<input, procDone, outStack, held, channels, tgt, file, mixed, result>>

\* Later frames: take the block to write, process the one read before, and
\* run `proc` over it, which panics on a frame shorter than its indices.
StProcess ==
    /\ ~input.mt /\ InLoop /\ exe.fr >= 2
    /\ input.large
    /\ held' = Last(outStack)
    /\ src' = Push(Pop(src, 1), 1) /\ tgt' = Pop(tgt, 1)
    /\ outStack' = Append(Front(outStack), <<Last(procStack)>>)
    /\ mixed' = mixed \cup {Last(procStack)}
    /\ procStack' = << >>
    /\ Goes("finish")
    /\ UNCHANGED <<input, procDone, channels, read, file, result>>

StProcPanics ==
    /\ ~input.mt /\ InLoop /\ exe.fr >= 2
    /\ ~input.large
    /\ Panic

-----------------------------------------------------------------------------
(* do_glommio_mt. *)

WorkerUp == worker.pc # "panicked"
CanSend(k) == WorkerUp /\ Len(m2w) + k <= ChannelSize

\* fr 0: read a pair and send both.
MtFirst ==
    /\ input.mt /\ InLoop /\ exe.fr = 0 /\ HasRead(2) /\ CanSend(2)
    /\ read' = 2
    /\ src' = Pop(src, 2) /\ tgt' = Pop(tgt, 2)
    /\ m2w' = m2w \o <<0, 1>>
    /\ Advance("loop", 2)
    /\ UNCHANGED <<input, stacks, w2m, worker, file, mixed, result>>

\* fr 2: read a pair, send its left block and process its right one, then wait.
MtSecond ==
    /\ input.mt /\ InLoop /\ exe.fr = 2 /\ HasRead(2) /\ CanSend(1)
    /\ read' = 4
    /\ src' = Pop(src, 2) /\ tgt' = Pop(tgt, 2)
    /\ m2w' = Append(m2w, 2)
    /\ procDone' = <<3>>
    /\ Goes("receive")
    /\ UNCHANGED <<input, procStack, outStack, held, w2m, worker, file, mixed, result>>

MtSecondReceive ==
    /\ input.mt /\ exe.pc = "receive" /\ exe.fr = 2 /\ w2m # << >>
    /\ w2m' = Tail(w2m)
    /\ src' = Push(src, 2)
    /\ outStack' = Append(outStack, procDone \o <<Head(w2m)>>)
    /\ procDone' = << >>
    /\ Advance("loop", 2)
    /\ UNCHANGED <<input, procStack, held, m2w, worker, tgt, read, file, mixed, result>>

\* Later pairs: take the pair to write and two source buffers, send all but
\* one of the blocks read before and process the one that remains.
MtProcess ==
    LET n == Len(procStack) IN
    /\ input.mt /\ InLoop /\ exe.fr >= 4
    /\ n > 1 => CanSend(n - 1)
    /\ held' = Last(outStack) /\ outStack' = Front(outStack)
    /\ m2w' = m2w \o Reverse(SubSeq(procStack, 2, n))
    /\ procDone' = SubSeq(procStack, 1, IF n > 0 THEN 1 ELSE 0)
    /\ procStack' = << >>
    /\ src' = Push(Pop(src, 2), Len(procDone'))
    /\ tgt' = Pop(tgt, n)
    /\ Goes("receive")
    /\ UNCHANGED <<input, w2m, worker, read, file, mixed, result>>

MtReceive ==
    /\ input.mt /\ exe.pc = "receive" /\ exe.fr >= 4
    /\ Len(procDone) < 2 /\ w2m # << >>
    /\ w2m' = Tail(w2m)
    /\ src' = Push(src, 1)
    /\ procDone' = Append(procDone, Head(w2m))
    /\ UNCHANGED <<input, exe, procStack, outStack, held, m2w, worker, tgt, read,
                   file, mixed, result>>

MtPaired ==
    /\ input.mt /\ exe.pc = "receive" /\ exe.fr >= 4 /\ Len(procDone) = 2
    /\ outStack' = Append(outStack, Reverse(procDone))
    /\ procDone' = << >>
    /\ Goes("finish")
    /\ UNCHANGED <<input, procStack, held, channels, buffers, read, file, mixed, result>>

-----------------------------------------------------------------------------
(* The end of both loops. *)

\* Await the read, then the write, and hand the blocks on.
Finish ==
    /\ exe.pc = "finish" /\ HasRead(Width)
    /\ procStack' = [i \in 1..Width |-> exe.fr + i - 1]
    /\ read' = read + Width
    /\ out' = out \o held
    /\ held' = << >>
    /\ tgt' = Push(tgt, Width)
    /\ Advance("loop", Width)
    /\ UNCHANGED <<input, procDone, outStack, channels, src, lost, mixed, result>>

\* Every frame is read; with several workers m2w_snd is dropped.
EndInput ==
    /\ exe.pc = "loop" /\ exe.fr >= input.total
    /\ Goes("tail")
    /\ UNCHANGED <<input, stacks, channels, buffers, read, file, mixed, result>>

\* `let _ = writer.write_all(..)`: an error is not looked at.
WriteUnchecked(b) ==
    \/ out' = Append(out, b) /\ lost' = lost
    \/ "write" \in Faults /\ lost' = lost \cup {b} /\ out' = out

TailProcess ==
    /\ exe.pc = "tail" /\ procStack # << >>
    /\ tgt' = Pop(tgt, 1)
    /\ WriteUnchecked(Last(procStack))
    /\ procStack' = Front(procStack)
    /\ UNCHANGED <<input, exe, procDone, outStack, held, channels, src, read, mixed, result>>

\* Mutant: the blocks not yet processed are dropped.
TailSkipped ==
    /\ exe.pc = "tail"
    /\ Goes(IF input.mt THEN "drain" ELSE "flush")
    /\ UNCHANGED <<input, stacks, channels, buffers, read, file, mixed, result>>

TailEnds ==
    /\ exe.pc = "tail" /\ procStack = << >>
    /\ Goes(IF input.mt THEN "drain" ELSE "flush")
    /\ UNCHANGED <<input, stacks, channels, buffers, read, file, mixed, result>>

\* What the worker still had, until its end of the channel is gone.
Drain ==
    /\ exe.pc = "drain" /\ w2m # << >>
    /\ WriteUnchecked(Head(w2m))
    /\ w2m' = Tail(w2m)
    /\ UNCHANGED <<input, exe, stacks, m2w, worker, buffers, read, mixed, result>>

DrainEnds ==
    /\ exe.pc = "drain" /\ w2m = << >> /\ worker.pc \in {"done", "panicked"}
    /\ Goes("flush")
    /\ UNCHANGED <<input, stacks, channels, buffers, read, file, mixed, result>>

Flush ==
    /\ exe.pc = "flush" /\ outStack # << >>
    /\ out' = out \o Last(outStack)
    /\ outStack' = Front(outStack)
    /\ UNCHANGED <<input, exe, procStack, procDone, held, channels, buffers, read,
                   lost, mixed, result>>

FlushEnds ==
    /\ exe.pc = "flush" /\ outStack = << >>
    /\ Goes("done")
    /\ UNCHANGED <<input, stacks, channels, buffers, read, file, mixed, result>>

-----------------------------------------------------------------------------
(* The processing executor. *)

WorkerGoes(pc) == worker' = [worker EXCEPT !.pc = pc]
MainHasReceiver == Running
MainHasSender == exe.pc \in {"loop", "receive", "finish"}

WorkerRecv ==
    /\ input.mt /\ worker.pc = "recv" /\ m2w # << >>
    /\ worker' = [pc |-> "send", block |-> Head(m2w)]
    /\ m2w' = Tail(m2w)
    /\ UNCHANGED <<input, exe, stacks, w2m, buffers, read, file, mixed, result>>

WorkerSend ==
    /\ worker.pc = "send" /\ MainHasReceiver /\ Len(w2m) < ChannelSize
    /\ w2m' = Append(w2m, worker.block)
    /\ WorkerGoes("recv")
    /\ UNCHANGED <<input, exe, stacks, m2w, buffers, read, file, mixed, result>>

\* Mutant: a block that cannot be processed or sent is skipped.
WorkerSkips ==
    /\ worker.pc = "send"
    /\ "process" \in Faults \/ ~MainHasReceiver
    /\ WorkerGoes("recv")
    /\ UNCHANGED <<input, exe, stacks, m2w, w2m, buffers, read, file, mixed, result>>

\* process_frame fails, or the other executor is gone.
WorkerPanics ==
    /\ worker.pc = "send"
    /\ "process" \in Faults \/ ~MainHasReceiver
    /\ WorkerGoes("panicked")
    /\ UNCHANGED <<input, exe, stacks, m2w, w2m, buffers, read, file, mixed, result>>

\* Mutant: m2w_snd is not dropped after the loop, only by a panic.
WorkerEndsOnPanic ==
    /\ input.mt /\ worker.pc = "recv" /\ m2w = << >> /\ exe.pc = "panicked"
    /\ WorkerGoes("done")
    /\ UNCHANGED <<input, exe, stacks, m2w, w2m, buffers, read, file, mixed, result>>

WorkerEnds ==
    /\ input.mt /\ worker.pc = "recv" /\ m2w = << >> /\ ~MainHasSender
    /\ WorkerGoes("done")
    /\ UNCHANGED <<input, exe, stacks, m2w, w2m, buffers, read, file, mixed, result>>

\* The joins: their results, a panic among them, are ignored.
Join ==
    /\ result = "none" /\ ~Running
    /\ input.mt => worker.pc \in {"done", "panicked"}
    /\ result' = "ok"
    /\ UNCHANGED <<input, exe, stacks, channels, buffers, read, file, mixed>>

-----------------------------------------------------------------------------
Main ==
    \/ StFirst \/ StSecond \/ StProcess \/ StProcPanics
    \/ MtFirst \/ MtSecond \/ MtSecondReceive \/ MtProcess \/ MtReceive \/ MtPaired
    \/ Finish \/ EndInput \/ TailProcess \/ TailEnds \/ Drain \/ DrainEnds
    \/ Flush \/ FlushEnds \/ Fails
Worker == WorkerRecv \/ WorkerSend \/ WorkerPanics \/ WorkerEnds
Finished == result # "none" /\ UNCHANGED vars

Next == Main \/ Worker \/ Join \/ Finished

Spec == Init /\ [][Next]_vars /\ WF_vars(Main) /\ WF_vars(Worker) /\ WF_vars(Join)

-----------------------------------------------------------------------------
(* Properties. *)

\* Every block read is in exactly one place until it is written or lost, with
\* no more than one group waiting in out_stack, and buffers are reused: the
\* stacks never allocate more than twice the blocks a step handles, although
\* pop would allocate without limit.
AllRead == (IF outStack = << >> THEN << >> ELSE Last(outStack)) \o procStack
           \o procDone \o held \o m2w \o w2m
           \o (IF worker.pc = "send" THEN <<worker.block>> ELSE << >>) \o out

Recycled ==
    /\ Running /\ WorkerUp =>
         /\ ToSet(AllRead) \cup lost = 0..(read - 1)
         /\ Len(AllRead) + Cardinality(lost) = read
         /\ Len(outStack) <= 1
    /\ src.made <= 2 * Width
    /\ tgt.made <= 2 * Width

\* The output is not in input order.  While no write error was ignored and the
\* worker did not die, each block is at most one place (one worker) or four
\* (several) from its own, and an executor that comes to its end has written
\* every block it read.
Reach == IF input.mt THEN 4 ELSE 1

NearlyInOrder ==
    lost = {} /\ WorkerUp =>
        /\ \A i \in DOMAIN out : i <= out[i] + 1 + Reach /\ out[i] + 1 <= i + Reach
        /\ exe.pc = "done" => Len(out) = read /\ ToSet(out) = 0..(read - 1)

\* Neither executor waits for room in the channel it sends to.
SendsHaveRoom ==
    /\ input.mt /\ InLoop => Len(m2w) + 2 <= ChannelSize
    /\ Running /\ worker.pc = "send" => Len(w2m) < ChannelSize

\* What each executor waits for besides: its step is possible.
MainReady ==
    \/ exe.pc \in {"loop", "finish", "tail", "flush"}
    \/ exe.pc = "receive" /\ (Len(procDone) = 2 \/ w2m # << >> \/ ~WorkerUp)
    \/ exe.pc = "drain" /\ (w2m # << >> \/ worker.pc \in {"done", "panicked"})

WorkerReady ==
    \/ worker.pc = "recv" /\ input.mt /\ (m2w # << >> \/ ~MainHasSender)
    \/ worker.pc = "send"

JoinReady == ~Running /\ (input.mt => worker.pc \in {"done", "panicked"})

\* The two executors never wait for each other: neither finds its channel full,
\* the one that waits for a block has one with the other or on the way to it,
\* and the one that waits for the other's end does not keep it from ending; a
\* panic of either leaves nobody waiting.
NeverStuck ==
    /\ SendsHaveRoom
    /\ result = "none" => MainReady \/ WorkerReady \/ JoinReady

\* The call comes back, and Ok is all it ever says, after a panic too.
Returns == <>(result = "ok")
=============================================================================
