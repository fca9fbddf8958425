------------------------------- MODULE SpStSc -------------------------------
(***************************************************************************)
(* The sequential engine, transcoder/spstsc.rs, with all that it calls: it *)
(* reads and bounds the header (meta, spec), builds the rules (rules), and *)
(* for each frame reads, processes and writes.  With one worker the Tokio  *)
(* engine (transcode_channels in tokioworker.rs) makes the same steps with *)
(* other errors.  The other engines call the same header and rule code.    *)
(* One behaviour is one call.                                              *)
(***************************************************************************)
EXTENDS Rules

CONSTANTS
    MinDim, MaxDim,    \* the bounds of either side of a source frame (16, 16384)
    NumFrames,         \* num_frames of the source's header
    Inputs             \* the calls looked at

\* A call: the engine, whether the source has a whole header, its frame size,
\* the frames that follow, the rules, and the build: does it check u32 overflow?
Input == [tokio : BOOLEAN, header : BOOLEAN, srcDim : Dim,
          present : Nat, tgtDim : Dim, rects : Seq(RuleRect),
          occlude : BOOLEAN, checks : BOOLEAN]

ASSUME WidthAssumption ==
    /\ Word \in Nat \ {0} /\ BytesPerPixel \in Nat \ {0}
    /\ ResortThreshold \in Nat
    /\ MinDim \in Nat \ {0} /\ MaxDim \in Nat
    /\ MaxDim * MaxDim * BytesPerPixel < Word
    /\ NumFrames \in Nat

ASSUME InputAssumption == Inputs \subseteq Input

VARIABLES
    input,        \* the call
    pc,           \* the next step of transcode
    rects,        \* self.rules.rects
    fr,           \* the frame in hand
    next,         \* the next rule of process_frame
    tgt,          \* tgt_buf
    out,          \* the frames in the output
    short,        \* those of them that were taken and not, or not all, written
    result        \* "none", "ok", "panic" or the error

vars == <<input, pc, rects, fr, next, tgt, out, short, result>>

TypeOK ==
    /\ input \in Input
    /\ pc \in {"header", "build", "occlude", "start", "read", "process", "blit", "end"}
    /\ Len(rects) <= Len(input.rects)
    /\ \A i \in DOMAIN rects : \E j \in DOMAIN input.rects : rects[i] = input.rects[j]
    /\ fr \in 0..NumFrames
    /\ next \in 1..(Len(rects) + 1)
    /\ out = 0..(fr - 1) /\ short \subseteq out
    /\ result \in {"none", "ok", "panic", "TooSmall", "TooBig", "InvalidHeader",
                   "InvalidRules", "InvalidAlpha", "IoErr", "ProblemWritingToFile",
                   "FileTooShort", "InputTruncated", "OutputTruncated", "Unsupported"}
    /\ (result = "none") = (pc # "end")

Init ==
    /\ input \in Inputs
    /\ pc = "header"
    /\ rects = input.rects
    /\ fr = 0 /\ next = 1
    /\ tgt = <<>>
    /\ out = {} /\ short = {}
    /\ result = "none"

Stop(why) ==
    /\ pc' = "end" /\ result' = why
    /\ UNCHANGED <<input, rects, fr, next, tgt, out, short>>

Goto(step) == pc' = step /\ UNCHANGED <<input, result>>

\* What an I/O error becomes in either engine.
Fault(spstsc, tokio) == IF input.tokio THEN tokio ELSE spstsc

-----------------------------------------------------------------------------
(* from_reader_and_partial_rules.                                          *)

InBounds(d) == {d.width, d.height} \subseteq MinDim..MaxDim

HeaderRefused ==
    /\ pc = "header"
    /\ \/ ~ input.header /\ Stop(Fault("IoErr", "FileTooShort"))
       \/ /\ input.header
          /\ input.srcDim.width < MinDim \/ input.srcDim.height < MinDim
          /\ Stop("TooSmall")
       \/ /\ input.header
          /\ input.srcDim.width >= MinDim /\ input.srcDim.height >= MinDim
          /\ input.srcDim.width > MaxDim \/ input.srcDim.height > MaxDim
          /\ Stop("TooBig")

ReadHeader ==
    /\ pc = "header"
    /\ input.header /\ InBounds(input.srcDim)
    /\ Goto("build")
    /\ UNCHANGED <<rects, fr, next, tgt, out, short>>

\* BlitContext::new; the source stride is not 0, since the header is in bounds.
BuildRefused ==
    /\ pc = "build"
    /\ \/ input.checks /\ CalcStride(input.tgtDim) >= Word /\ Stop("panic")
       \/ /\ ~ (input.checks /\ CalcStride(input.tgtDim) >= Word)
          /\ U32(CalcStride(input.tgtDim)) = 0
          /\ Stop("InvalidRules")

\* BlitContext::new, then sort_rules.
Build ==
    /\ pc = "build"
    /\ ~ (input.checks /\ CalcStride(input.tgtDim) >= Word)
    /\ U32(CalcStride(input.tgtDim)) # 0
    /\ rects' \in SortRules(rects)
    /\ Goto(IF input.occlude THEN "occlude" ELSE "start")
    /\ UNCHANGED <<fr, next, tgt, out, short>>

EliminateOcclusions ==
    /\ pc = "occlude"
    /\ LET stop == ScanStop(rects, input.tgtDim, input.checks)
           del  == ToDelete(rects)
       IN  \/ /\ input.checks /\ input.tgtDim.width * input.tgtDim.height >= Word
              /\ Stop("panic")
           \/ /\ ~ (input.checks /\ input.tgtDim.width * input.tgtDim.height >= Word)
              /\ \/ /\ stop # 0
                    /\ Stop(IF rects[stop].alpha = "over" THEN "InvalidAlpha" ELSE "panic")
                 \/ /\ stop = 0 /\ RemovalPanics(rects, del)
                    /\ Stop("panic")
                 \/ /\ stop = 0 /\ ~ RemovalPanics(rects, del)
                    /\ LET left == Removed(rects, del)
                       IN  rects' \in (IF Len(del) < ResortThreshold THEN {left}
                                                                     ELSE SortRules(left))
                    /\ Goto("start")
                    /\ UNCHANGED <<fr, next, tgt, out, short>>

-----------------------------------------------------------------------------
(* transcode: the header, then frame by frame.                             *)

\* vec![0u8; n]
Black(n) == [b \in 0..(n - 1) |-> <<>>]

\* The header, which is refused unless it is written whole, and the buffers;
\* SpStSc makes them first, Tokio writes first.
Start ==
    /\ pc = "start"
    /\ LET overflow == input.checks /\ CalcSize(input.tgtDim) >= Word
       IN  \/ overflow /\ Stop("panic")
           \/ input.tokio /\ Stop("OutputTruncated")
           \/ /\ ~ input.tokio /\ ~ overflow
              /\ \E why \in {"IoErr", "ProblemWritingToFile"} : Stop(why)
           \/ /\ ~ overflow
              /\ tgt' = Black(U32(CalcSize(input.tgtDim)))
              /\ Goto("read")
              /\ UNCHANGED <<rects, fr, next, out, short>>

\* read_exact
ReadFrame ==
    /\ pc = "read" /\ fr < NumFrames
    /\ \/ fr >= input.present /\ Stop(Fault("IoErr", "InputTruncated"))
       \/ /\ fr < input.present
          /\ Goto("process")
          /\ UNCHANGED <<rects, fr, next, tgt, out, short>>

\* Mutant: the target buffer, used for every frame, is not cleared.
ClearNothing ==
    /\ pc = "process"
    /\ next' = 1
    /\ Goto("blit")
    /\ UNCHANGED <<rects, fr, tgt, out, short>>

\* process_frame: the buffer is cleared, then the rules are applied in order.
ClearTarget ==
    /\ pc = "process"
    /\ tgt' = Black(U32(CalcSize(input.tgtDim)))
    /\ next' = 1
    /\ Goto("blit")
    /\ UNCHANGED <<rects, fr, out, short>>

\* src_buf: frame fr, each byte told apart.
SrcBuf == [b \in 0..(U32(CalcSize(input.srcDim)) - 1) |-> <<fr, b>>]

BlitRule ==
    /\ pc = "blit" /\ next <= Len(rects)
    /\ LET r == rects[next]
       IN  \/ /\ BlitPanics(r, input.srcDim, input.tgtDim, input.checks)
              /\ Stop("panic")
           \/ /\ ~ BlitPanics(r, input.srcDim, input.tgtDim, input.checks)
              /\ tgt' = Blit(SrcBuf, tgt, r, input.srcDim, input.tgtDim)
              /\ next' = next + 1
              /\ Goto("blit")
              /\ UNCHANGED <<rects, fr, out, short>>

Processed == pc = "blit" /\ next = Len(rects) + 1

\* Mutant: the frames are numbered from 1.
WriteFrameFromOne ==
    /\ Processed
    /\ \/ Stop("IoErr")
       \/ /\ out' = out \cup {fr + 1}
          /\ fr' = fr + 1
          /\ Goto("read")
          /\ UNCHANGED <<rects, next, tgt, short>>

\* SpStSc calls write(), which may take part of the buffer and answer Ok.
\* Tokio calls write_all() on a file or stdout of tokio, which takes the
\* buffer and writes it later: an error comes back with the next frame.
WriteFrame ==
    /\ Processed
    /\ \/ Stop(Fault("IoErr", "Unsupported"))
       \/ /\ input.tokio => short = {}
          /\ out' = out \cup {fr}
          /\ short' \in {short, IF DOMAIN tgt = {} THEN short ELSE short \cup {fr}}
          /\ fr' = fr + 1
          /\ Goto("read")
          /\ UNCHANGED <<rects, next, tgt>>

\* Mutant: the last frame is left out.
FinishEarly == pc = "read" /\ fr + 1 >= NumFrames /\ Stop("ok")

Finish == pc = "read" /\ fr >= NumFrames /\ Stop("ok")

Next ==
    \/ HeaderRefused \/ ReadHeader \/ BuildRefused \/ Build \/ EliminateOcclusions
    \/ Start \/ ReadFrame \/ ClearTarget \/ BlitRule \/ WriteFrame \/ Finish

Spec == Init /\ [][Next]_vars

-----------------------------------------------------------------------------
(* What the picture should be, from the rules alone.                       *)

Within(pos, d, area) ==
    /\ pos.x + d.width <= area.width
    /\ pos.y < area.height /\ pos.y + d.height <= area.height

\* Every rectangle lies in both frames, and the bytes of a target frame have
\* addresses of 32 bits, which build() does not check.
GoodRules ==
    /\ \A i \in DOMAIN input.rects :
        LET r == input.rects[i]
        IN  Within(r.ul, r.dim, input.srcDim) /\ Within(r.dest, r.dim, input.tgtDim)
    /\ CalcStride(input.tgtDim) < Word /\ CalcSize(input.tgtDim) < Word

\* The rules that touch the pixel (x, y) of the target, in the order of JSON.
Touching(x, y) ==
    {i \in DOMAIN input.rects :
        LET r == input.rects[i]
        IN  /\ x \in r.dest.x..(r.dest.x + r.dim.width - 1)
            /\ y \in r.dest.y..(r.dest.y + r.dim.height - 1)}

\* Layer i lies under layer j: a lower z-index, then further left, then
\* further up in the source, then earlier in the file.
Under(i, j) ==
    LET key(n) == <<input.rects[n].z, input.rects[n].ul.x, input.rects[n].ul.y, n>>
    IN  \E p \in 1..4 : /\ key(i)[p] < key(j)[p]
                        /\ \A q \in 1..(p - 1) : key(i)[q] = key(j)[q]

\* Byte c of the pixel (x, y): the source bytes of its layers from the
\* topmost opaque one upwards.
Composite(x, y, c) ==
    LET all    == Touching(x, y)
        hidden == {i \in all : \E j \in all : Under(i, j) /\ input.rects[j].alpha = "opaque"}
        byte(i) == LET r == input.rects[i]
                   IN  <<fr, ((r.ul.y + y - r.dest.y) * input.srcDim.width
                                + r.ul.x + x - r.dest.x) * BytesPerPixel + c>>
        shown  == all \ hidden
        at(n)  == CHOOSE i \in shown : Cardinality({j \in shown : Under(j, i)}) = n - 1
    IN  [n \in 1..Cardinality(shown) |-> byte(at(n))]

IsComposite ==
    \A x \in 0..(input.tgtDim.width - 1), y \in 0..(input.tgtDim.height - 1),
       c \in 0..(BytesPerPixel - 1) :
        tgt[(y * input.tgtDim.width + x) * BytesPerPixel + c] = Composite(x, y, c)

-----------------------------------------------------------------------------
(* Properties.                                                             *)

\* An opaque rule without columns: the occlusion pass deletes it once per row.
HasEmptyOpaque ==
    \E i \in DOMAIN input.rects : LET r == input.rects[i]
                                  IN  r.alpha = "opaque" /\ r.dim.width = 0

\* When the rectangles lie in the frames, what is written for a frame is what
\* the rules say, pixel by pixel, whatever the buffer held before (the frame
\* before it, rules/mod.rs:345) and in whatever order the rules came.
FrameIsComposite ==
    Processed /\ GoodRules /\ ~ (input.occlude /\ HasEmptyOpaque) => IsComposite

\* Rectangles that lie in the frames never make a blit panic, in either build:
\* no offset of blit (rules/mod.rs:391) leaves its frame or its 32 bits.
GoodRulesNeverPanic == GoodRules /\ ~ input.occlude => result # "panic"

\* The engine against what all engines promise; the Ok of a call in which a
\* frame was taken and not written whole is taken for the failure it is.
Abstract == INSTANCE Transcode WITH
    numFrames <- NumFrames,
    out    <- out \ short,
    result <- IF result = "none" THEN "none"
              ELSE IF result = "ok" /\ short = {} THEN "ok" ELSE "err"

ImplementsTranscode == Abstract!Init /\ [][Abstract!Next]_(Abstract!vars)

\* main.rs:57 of the option: it will "scan the rules for opaque outer-most
\* Z-index layers and delete any fully occluded lower Z-index layers".  Rules
\* that draw without it (GoodRulesNeverPanic) draw with it.
OcclusionReturns ==
    input.occlude /\ GoodRules /\ ~ HasEmptyOpaque => result # "panic"
=============================================================================
