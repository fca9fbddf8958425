--------------------------- MODULE SpStSc_proofs ---------------------------
(***************************************************************************)
(* Rectangles that lie in the frames never make a call panic.  The heart   *)
(* is arithmetic: a row of a rectangle inside a frame ends inside the      *)
(* frame's buffer, and a buffer that 32 bits address has no offset that    *)
(* wraps.  No call answers Ok with a frame missing: the frames written are *)
(* those below the one in hand, and Ok is answered past the last.  And the *)
(* frame that is written is, pixel by pixel, what the rules say: the rules *)
(* are applied in one order, each row of each of them is copied to where   *)
(* its pixels lie, and the buffer holds after each rule what the rules so  *)
(* far draw.                                                               *)
(***************************************************************************)
EXTENDS SpStSc, TLAPS, WellFoundedInduction, FiniteSetTheorems

LEMMA U32Small == ASSUME NEW v \in Nat, v < Word PROVE U32(v) = v
BY WidthAssumption DEF U32

\* Multiplication keeps the order of natural numbers.
LEMMA TimesMonotone ==
    ASSUME NEW a \in Nat, NEW b \in Nat, NEW c \in Nat, a <= b
    PROVE  a * c \in Nat /\ b * c \in Nat /\ a * c <= b * c
<1>1. PICK d \in Nat : b = a + d
  <2>1. b - a \in Nat /\ b = a + (b - a)  OBVIOUS
  <2> QED BY <2>1
<1>2. a * c \in Nat /\ d * c \in Nat  OBVIOUS
<1>3. b * c = a * c + d * c  BY <1>1
<1> QED BY <1>2, <1>3

\* A row of a rectangle inside a frame of w by h pixels ends at or before the
\* end of the frame; p is the number of bytes of a pixel.
LEMMA RowInside ==
    ASSUME NEW w \in Nat, NEW h \in Nat, NEW p \in Nat,
           NEW x \in Nat, NEW y \in Nat, NEW k \in Nat, NEW row \in Nat,
           x + k <= w, y + row < h
    PROVE  /\ (w * p) * y + x * p \in Nat /\ row * (w * p) \in Nat /\ k * p \in Nat
           /\ (w * p) * y + x * p + row * (w * p) + k * p <= w * h * p
<1> DEFINE s == w * p
<1>1. s \in Nat  OBVIOUS
<1>2. (y + row + 1) * s <= h * s  BY <1>1, TimesMonotone
<1>3. (x + k) * p <= s  BY TimesMonotone
<1>4. (x + k) * p = x * p + k * p  OBVIOUS
<1> HIDE DEF s
<1>5. (y + row + 1) * s = s * y + row * s + s  BY <1>1
<1>6. s * y \in Nat /\ row * s \in Nat /\ x * p \in Nat /\ k * p \in Nat  BY <1>1
<1>7. s * y + x * p + row * s + k * p <= h * s
  <2> h * s \in Nat  BY <1>1
  <2> QED BY <1>1, <1>2, <1>3, <1>4, <1>5, <1>6
<1>8. h * s = w * h * p  BY DEF s
<1> QED BY <1>6, <1>7, <1>8 DEF s

\* A rectangle inside a frame whose stride and size fit in 32 bits: its corner
\* does not overflow, and its rows are slices of the frame.
LEMMA WithinFits ==
    ASSUME NEW r \in RuleRect, NEW d \in Dim, NEW pos \in Pos,
           Within(pos, r.dim, d), CalcStride(d) < Word, CalcSize(d) < Word
    PROVE  /\ Corner(pos, d) \in Nat /\ Corner(pos, d) < Word
           /\ CalcStride(r.dim) \in Nat /\ CalcStride(r.dim) < Word
           /\ RowsFit(pos, d, r)
<1> DEFINE w == d.width  h == d.height  p == BytesPerPixel
           x == pos.x  y == pos.y  k == r.dim.width
<1>1. /\ w \in Nat /\ h \in Nat /\ p \in Nat /\ x \in Nat /\ y \in Nat /\ k \in Nat
      /\ r.dim.height \in Nat
  BY WidthAssumption DEF Dim, Pos, RuleRect
<1>2. x + k <= w /\ y < h /\ y + r.dim.height <= h  BY DEF Within
<1>3. CalcStride(d) = w * p /\ CalcSize(d) = w * h * p /\ CalcStride(r.dim) = k * p
  BY DEF CalcStride, CalcSize
<1>4. w * p \in Nat /\ w * h * p \in Nat /\ k * p \in Nat
  <2>1. w * h \in Nat  BY <1>1
  <2> QED BY <1>1, <2>1
<1>5. k * p <= w * p
  <2>1. k <= w  BY <1>1, <1>2
  <2> HIDE DEF w, p, k
  <2> QED BY <1>1, <2>1, TimesMonotone
<1>6. CalcStride(r.dim) < Word  BY <1>3, <1>4, <1>5, WidthAssumption
<1>7. U32(CalcStride(d)) = w * p /\ U32(CalcSize(d)) = w * h * p
      /\ U32(CalcStride(r.dim)) = k * p
  BY <1>3, <1>4, <1>6, U32Small
<1>8. Corner(pos, d) = (w * p) * y + x * p  BY <1>7 DEF Corner
<1>9. ASSUME NEW row \in Nat, y + row < h
      PROVE  /\ (w * p) * y + x * p \in Nat /\ row * (w * p) \in Nat
             /\ (w * p) * y + x * p + row * (w * p) + k * p <= w * h * p
  <2> HIDE DEF w, h, p, x, y, k
  <2> QED BY <1>1, <1>2, <1>9, RowInside
<1>10. Corner(pos, d) \in Nat /\ Corner(pos, d) < Word
  <2>1. (w * p) * y + x * p \in Nat
        /\ (w * p) * y + x * p + 0 * (w * p) + k * p <= w * h * p
    <3>1. 0 \in Nat /\ y + 0 < h  BY <1>1, <1>2
    <3> QED BY <1>9, <3>1
  <2>2. 0 * (w * p) = 0  BY <1>4
  <2> HIDE DEF w, h, p, x, y, k
  <2>3. (w * p) * y + x * p <= w * h * p  BY <2>1, <2>2, <1>4
  <2> QED BY <2>1, <2>3, <1>3, <1>4, <1>8, WidthAssumption
<1>11. U32(Corner(pos, d)) = Corner(pos, d)  BY <1>10, U32Small
<1>12. RowsFit(pos, d, r)
  <2> SUFFICES ASSUME NEW row \in 0..(r.dim.height - 1)
               PROVE  (w * p) * y + x * p + row * (w * p) + k * p <= w * h * p
    BY <1>7, <1>8, <1>11 DEF RowsFit
  <2>1. row \in Nat /\ y + row < h  BY <1>1, <1>2
  <2> QED BY <2>1, <1>9
<1> QED BY <1>3, <1>4, <1>6, <1>10, <1>12

\* A source frame whose header is in bounds: its stride and size fit in 32 bits.
LEMMA SourceFits ==
    ASSUME NEW d \in Dim, InBounds(d)
    PROVE  CalcStride(d) < Word /\ CalcSize(d) < Word
<1> DEFINE w == d.width  h == d.height  p == BytesPerPixel
<1>1. /\ w \in Nat /\ h \in Nat /\ w <= MaxDim /\ h <= MaxDim /\ h >= 1
      /\ MaxDim \in Nat /\ p \in Nat /\ Word \in Nat
      /\ MaxDim * MaxDim * p < Word
  BY WidthAssumption DEF InBounds, Dim
<1>2. CalcStride(d) = w * p /\ CalcSize(d) = w * h * p
  BY DEF CalcStride, CalcSize
<1> HIDE DEF w, h, p
<1>3. w * h \in Nat /\ MaxDim * MaxDim \in Nat /\ w * h <= MaxDim * MaxDim
  <2>1. w * h <= MaxDim * h  BY <1>1, TimesMonotone
  <2>2. h * MaxDim <= MaxDim * MaxDim  BY <1>1, TimesMonotone
  <2>3. h * MaxDim = MaxDim * h  BY <1>1
  <2>4. w * h \in Nat /\ MaxDim * h \in Nat /\ MaxDim * MaxDim \in Nat  BY <1>1
  <2> QED BY <2>1, <2>2, <2>3, <2>4
<1>4. w * h * p \in Nat /\ w * h * p <= MaxDim * MaxDim * p
      /\ MaxDim * MaxDim * p \in Nat
  BY <1>1, <1>3, TimesMonotone
<1>5. w <= w * h
  <2>1. 1 * w <= h * w  BY <1>1, TimesMonotone
  <2>2. 1 * w = w /\ h * w = w * h  BY <1>1
  <2> QED BY <2>1, <2>2
<1>6. w * p \in Nat /\ w * p <= w * h * p  BY <1>1, <1>3, <1>5, TimesMonotone
<1> QED BY <1>1, <1>2, <1>4, <1>6

-----------------------------------------------------------------------------

Drawn(s) == \A i \in DOMAIN s : \E j \in DOMAIN input.rects : s[i] = input.rects[j]

\* Without the occlusion pass, the rules that are applied are those given, and
\* no frame is read before the header is found in bounds.
IInv ==
    /\ input \in Inputs
    /\ next \in Nat \ {0}
    /\ ~ input.occlude => pc # "occlude" /\ rects \in Seq(RuleRect) /\ Drawn(rects)
    /\ pc \notin {"header", "end"} => InBounds(input.srcDim)
    /\ GoodRulesNeverPanic

\* Sorting neither adds nor changes a rule.
LEMMA SortKeeps ==
    ASSUME NEW rs \in Seq(RuleRect), NEW t \in SortRules(rs)
    PROVE  /\ t \in Seq(RuleRect)
           /\ \A i \in DOMAIN t : \E j \in DOMAIN rs : t[i] = rs[j]
<1>1. PICK f \in [DOMAIN rs -> DOMAIN rs] : t = [q \in DOMAIN rs |-> rs[f[q]]]
  BY DEF SortRules
<1>2. DOMAIN rs = 1..Len(rs) /\ Len(rs) \in Nat  OBVIOUS
<1>3. \A q \in DOMAIN rs : f[q] \in DOMAIN rs /\ rs[f[q]] \in RuleRect  BY <1>1, <1>2
<1>4. t \in [1..Len(rs) -> RuleRect]  BY <1>1, <1>2, <1>3
<1> QED BY <1>1, <1>2, <1>3, <1>4

LEMMA GoodBlit ==
    ASSUME IInv, GoodRules, ~ input.occlude, pc = "blit", next <= Len(rects)
    PROVE  ~ BlitPanics(rects[next], input.srcDim, input.tgtDim, input.checks)
<1> DEFINE r == rects[next]
<1>1. input \in Input  BY InputAssumption DEF IInv
<1>2. input.srcDim \in Dim /\ input.tgtDim \in Dim /\ input.rects \in Seq(RuleRect)
  BY <1>1 DEF Input
<1>3. next \in DOMAIN rects  BY DEF IInv
<1>4. PICK j \in DOMAIN input.rects : r = input.rects[j]  BY <1>3 DEF IInv, Drawn
<1>5. r \in RuleRect /\ r.ul \in Pos /\ r.dest \in Pos
  <2>1. r \in RuleRect
    <3> HIDE DEF r
    <3> QED BY <1>2, <1>4
  <2> QED BY <2>1 DEF RuleRect
<1>6. Within(r.ul, r.dim, input.srcDim) /\ Within(r.dest, r.dim, input.tgtDim)
  BY <1>4 DEF GoodRules
<1>7. CalcStride(input.srcDim) < Word /\ CalcSize(input.srcDim) < Word
  BY <1>2, SourceFits DEF IInv
<1>8. CalcStride(input.tgtDim) < Word /\ CalcSize(input.tgtDim) < Word
  BY DEF GoodRules
<1>9. /\ Corner(r.ul, input.srcDim) \in Nat /\ Corner(r.ul, input.srcDim) < Word
      /\ CalcStride(r.dim) \in Nat /\ CalcStride(r.dim) < Word
      /\ RowsFit(r.ul, input.srcDim, r)
  <2> HIDE DEF r
  <2> QED BY <1>2, <1>5, <1>6, <1>7, WithinFits
<1>10. /\ Corner(r.dest, input.tgtDim) \in Nat /\ Corner(r.dest, input.tgtDim) < Word
       /\ RowsFit(r.dest, input.tgtDim, r)
  <2> HIDE DEF r
  <2> QED BY <1>2, <1>5, <1>6, <1>8, WithinFits
<1>11. /\ ~ (Corner(r.ul, input.srcDim) >= Word) /\ ~ (CalcStride(r.dim) >= Word)
       /\ ~ (Corner(r.dest, input.tgtDim) >= Word)
  BY <1>9, <1>10, WidthAssumption
<1> QED BY <1>9, <1>10, <1>11 DEF BlitPanics, BlitOverflows

\* A target frame can be addressed: its stride and its size do not overflow.
LEMMA GoodTarget ==
    ASSUME IInv, GoodRules
    PROVE  /\ ~ (CalcStride(input.tgtDim) >= Word)
           /\ ~ (CalcSize(input.tgtDim) >= Word)
<1>1. input.tgtDim.width \in Nat /\ input.tgtDim.height \in Nat /\ BytesPerPixel \in Nat
  BY InputAssumption, WidthAssumption DEF IInv, Input, Dim
<1>2. CalcStride(input.tgtDim) \in Nat /\ CalcSize(input.tgtDim) \in Nat
  <2> DEFINE w == input.tgtDim.width  h == input.tgtDim.height
  <2> HIDE DEF w, h
  <2>1. w * BytesPerPixel \in Nat /\ (w * h) * BytesPerPixel \in Nat
    <3>1. w \in Nat /\ h \in Nat  BY <1>1 DEF w, h
    <3>2. w * h \in Nat  BY <3>1
    <3> QED BY <1>1, <3>1, <3>2
  <2> QED BY <2>1 DEF CalcStride, CalcSize, w, h
<1> QED BY <1>2, WidthAssumption DEF GoodRules

LEMMA InitIInv == Init => IInv
<1> SUFFICES ASSUME Init PROVE IInv  OBVIOUS
<1>1. input \in Input  BY InputAssumption DEF Init
<1>2. rects \in Seq(RuleRect) /\ Drawn(rects)  BY <1>1 DEF Init, Input, Drawn
<1> QED BY <1>2 DEF Init, IInv, GoodRulesNeverPanic

LEMMA NextIInv == IInv /\ [Next]_vars => IInv'
<1> SUFFICES ASSUME IInv, [Next]_vars PROVE IInv'  OBVIOUS
<1> USE DEF Stop, Goto, Fault
<1>1. CASE UNCHANGED vars
  BY <1>1 DEF vars, IInv, Drawn, GoodRulesNeverPanic, GoodRules, InBounds
<1>2. ASSUME input' = input, next' \in Nat \ {0},
             ~ input.occlude => pc' # "occlude" /\ rects' = rects,
             pc' \notin {"header", "end"} => InBounds(input.srcDim),
             GoodRules /\ ~ input.occlude => result' # "panic"
      PROVE  IInv'
  BY <1>2 DEF IInv, Drawn, GoodRulesNeverPanic, GoodRules, InBounds
<1>3. CASE HeaderRefused  BY <1>2, <1>3 DEF HeaderRefused, IInv
<1>4. CASE ReadHeader  BY <1>2, <1>4 DEF ReadHeader, IInv, GoodRulesNeverPanic
<1>5. CASE BuildRefused  BY <1>2, <1>5, GoodTarget DEF BuildRefused, IInv
<1>6. CASE Build
  <2>1. input' = input /\ next' = next /\ result' = result /\ pc = "build"
        /\ rects' \in SortRules(rects) /\ (~ input.occlude => pc' # "occlude")
    BY <1>6 DEF Build
  <2>2. ~ input.occlude => rects' \in Seq(RuleRect) /\ Drawn(rects')
    <3> SUFFICES ASSUME ~ input.occlude
                 PROVE  rects' \in Seq(RuleRect) /\ Drawn(rects')
      OBVIOUS
    <3>1. rects \in Seq(RuleRect) /\ Drawn(rects)  BY DEF IInv
    <3> QED BY <2>1, <3>1, SortKeeps DEF Drawn
  <2>3. Drawn(rects') => Drawn(rects)'  BY <2>1 DEF Drawn
  <2> QED BY <2>1, <2>2, <2>3 DEF IInv, GoodRulesNeverPanic, GoodRules, InBounds
<1>7. CASE EliminateOcclusions
  <2>1. input.occlude  BY <1>7 DEF EliminateOcclusions, IInv
  <2>2. input' = input /\ next' = next /\ pc = "occlude"
    BY <1>7 DEF EliminateOcclusions
  <2> QED BY <1>2, <2>1, <2>2 DEF IInv
<1>8. CASE Start  BY <1>2, <1>8, GoodTarget DEF Start, IInv, GoodRulesNeverPanic
<1>9. CASE ReadFrame  BY <1>2, <1>9 DEF ReadFrame, IInv, GoodRulesNeverPanic
<1>10. CASE ClearTarget
  BY <1>2, <1>10 DEF ClearTarget, IInv, GoodRulesNeverPanic
<1>11. CASE BlitRule
  <2>1. pc = "blit" /\ next <= Len(rects) /\ input' = input /\ rects' = rects
        /\ next' \in {next, next + 1} /\ pc' \in {"blit", "end"}
    BY <1>11 DEF BlitRule
  <2>2. GoodRules /\ ~ input.occlude => result' # "panic"
    BY <1>11, <2>1, GoodBlit DEF BlitRule, IInv, GoodRulesNeverPanic
  <2> QED BY <1>2, <2>1, <2>2 DEF IInv
<1>12. CASE WriteFrame
  BY <1>2, <1>12 DEF WriteFrame, Processed, IInv, GoodRulesNeverPanic
<1>13. CASE Finish  BY <1>2, <1>13 DEF Finish, IInv
<1> QED
  BY <1>1, <1>3, <1>4, <1>5, <1>6, <1>7, <1>8, <1>9, <1>10, <1>11, <1>12, <1>13 DEF Next

\* A call without the occlusion pass, whose rectangles lie in the frames, does
\* not panic: for every size, every number of rules and frames, and in a build
\* that checks overflow as in one that wraps.
THEOREM GoodRulesNeverPanicHolds == Spec => []GoodRulesNeverPanic
<1>1. IInv => GoodRulesNeverPanic  BY DEF IInv
<1> QED BY <1>1, InitIInv, NextIInv, PTL DEF Spec

-----------------------------------------------------------------------------
(* No false Ok: the call as a behaviour of Transcode.                      *)

\* The frames are written in order, each after it was read, and the answer
\* comes with the end of the call: an Ok with all of them written.
WrittenInv ==
    /\ fr \in 0..NumFrames
    /\ pc \in {"process", "blit"} => fr < NumFrames
    /\ out = 0..(fr - 1) /\ short \subseteq out
    /\ (result = "none") <=> (pc # "end")
    /\ result = "ok" => fr = NumFrames

LEMMA InitWritten == Init => WrittenInv
BY WidthAssumption DEF Init, WrittenInv

\* The answers that are not Ok.
Failures ==
    {"panic", "TooSmall", "TooBig", "InvalidHeader", "InvalidRules", "InvalidAlpha",
     "IoErr", "ProblemWritingToFile", "FileTooShort", "InputTruncated",
     "OutputTruncated", "Unsupported"}

StopsFailed == pc # "end" /\ \E why \in Failures : Stop(why)

\* The call goes on and writes nothing; a frame is processed after it was read.
GoesOn ==
    /\ pc # "end" /\ pc' # "end"
    /\ pc' \in {"process", "blit"} => pc \in {"process", "blit"} \/ fr < NumFrames
    /\ UNCHANGED <<fr, out, short, result>>

LEMMA StepKinds ==
    ASSUME [Next]_vars
    PROVE  GoesOn \/ StopsFailed \/ WriteFrame \/ Finish \/ UNCHANGED vars
<1> USE DEF Goto, Failures
<1>1. CASE HeaderRefused  BY <1>1 DEF HeaderRefused, StopsFailed, Fault
<1>2. CASE ReadHeader  BY <1>2 DEF ReadHeader, GoesOn
<1>3. CASE BuildRefused  BY <1>3 DEF BuildRefused, StopsFailed
<1>4. CASE Build  BY <1>4 DEF Build, GoesOn
<1>5. CASE EliminateOcclusions
  <2>1. CASE \E why \in {"panic", "InvalidAlpha"} : Stop(why)
    BY <1>5, <2>1 DEF EliminateOcclusions, StopsFailed
  <2>2. CASE Goto("start") /\ UNCHANGED <<fr, next, tgt, out, short>>
    BY <1>5, <2>2 DEF EliminateOcclusions, GoesOn
  <2> QED BY <1>5, <2>1, <2>2 DEF EliminateOcclusions
<1>6. CASE Start  BY <1>6 DEF Start, GoesOn, StopsFailed
<1>7. CASE ReadFrame  BY <1>7 DEF ReadFrame, GoesOn, StopsFailed, Fault
<1>8. CASE ClearTarget  BY <1>8 DEF ClearTarget, GoesOn
<1>9. CASE BlitRule
  <2>1. CASE Stop("panic")  BY <1>9, <2>1 DEF BlitRule, StopsFailed
  <2>2. CASE Goto("blit") /\ UNCHANGED <<rects, fr, out, short>>
    BY <1>9, <2>2 DEF BlitRule, GoesOn
  <2> QED BY <1>9, <2>1, <2>2 DEF BlitRule
<1> QED BY <1>1, <1>2, <1>3, <1>4, <1>5, <1>6, <1>7, <1>8, <1>9 DEF Next

\* The two outcomes of the write: an error, or the frame is taken, whole or
\* not (or with an error that comes later).
LEMMA WriteKinds ==
    ASSUME WriteFrame
    PROVE  /\ pc = "blit"
           /\ \/ StopsFailed
              \/ /\ out' = out \cup {fr} /\ fr' = fr + 1
                 /\ pc' = "read" /\ result' = result
                 /\ short' = short \/ short' = short \cup {fr}
BY DEF WriteFrame, Processed, Fault, Goto, Failures, StopsFailed

LEMMA NextWritten == WrittenInv /\ [Next]_vars => WrittenInv'
<1> SUFFICES ASSUME WrittenInv, [Next]_vars PROVE WrittenInv'  OBVIOUS
<1> USE DEF WrittenInv
<1>1. CASE GoesOn  BY <1>1 DEF GoesOn
<1>2. CASE UNCHANGED vars  BY <1>2 DEF vars
<1>3. CASE StopsFailed  BY <1>3 DEF StopsFailed, Stop, Failures
<1>4. CASE WriteFrame
  <2>1. CASE out' = out \cup {fr} /\ fr' = fr + 1 /\ pc' = "read" /\ result' = result
             /\ (short' = short \/ short' = short \cup {fr})
    <3>1. pc = "blit"  BY <1>4, WriteKinds
    <3>2. NumFrames \in Nat  BY WidthAssumption
    <3>3. fr \in Nat /\ fr < NumFrames  BY <3>1, <3>2
    <3>4. fr + 1 \in 0..NumFrames  BY <3>2, <3>3
    <3>5. 0..((fr + 1) - 1) = 0..(fr - 1) \cup {fr}  BY <3>3
    <3>6. out' = 0..(fr' - 1) /\ short' \subseteq out'  BY <2>1, <3>5
    <3> QED BY <2>1, <3>1, <3>4, <3>6
  <2> QED BY <1>3, <1>4, <2>1, WriteKinds
<1>5. CASE Finish  BY <1>5, WidthAssumption DEF Finish, Stop
<1> QED BY <1>1, <1>2, <1>3, <1>4, <1>5, StepKinds

LEMMA NextAbstract == WrittenInv /\ [Next]_vars => [Abstract!Next]_(Abstract!vars)
<1> SUFFICES ASSUME WrittenInv, [Next]_vars
             PROVE  [Abstract!Next]_(Abstract!vars)
  OBVIOUS
<1> USE DEF WrittenInv, Abstract!vars
<1>1. CASE UNCHANGED <<out, short, result>>  BY <1>1
<1>2. CASE StopsFailed
  BY <1>2 DEF StopsFailed, Stop, Failures, Abstract!Next, Abstract!EndErr
<1>3. CASE WriteFrame
  <2> pc = "blit" /\ result = "none"  BY <1>3, WriteKinds
  <2>1. CASE out' = out \cup {fr} /\ result' = result /\ short' = short \cup {fr}
    <3>1. out' \ short' = out \ short  BY <2>1
    <3> QED BY <2>1, <3>1
  <2>2. CASE out' = out \cup {fr} /\ result' = result /\ short' = short
    <3>1. fr \in 0..(NumFrames - 1) /\ fr \notin out  BY WidthAssumption
    <3>2. out' \ short' = (out \ short) \cup {fr}  BY <2>2, <3>1
    <3>3. Abstract!Emit(fr)  BY <2>2, <3>1, <3>2 DEF Abstract!Emit
    <3> QED BY <3>1, <3>3 DEF Abstract!Next, Abstract!Frames
  <2> QED BY <1>2, <1>3, <2>1, <2>2, WriteKinds
<1>4. CASE Finish
  <2>1. result = "none" /\ result' = "ok" /\ out' = out /\ short' = short /\ fr >= NumFrames
    BY <1>4 DEF Finish, Stop
  <2>2. fr = NumFrames  BY <2>1, WidthAssumption
  <2>3. CASE short = {}
    BY <2>1, <2>2, <2>3 DEF Abstract!Next, Abstract!EndOk, Abstract!Frames
  <2>4. CASE short # {}  BY <2>1, <2>4 DEF Abstract!Next, Abstract!EndErr
  <2> QED BY <2>3, <2>4
<1> QED BY <1>1, <1>2, <1>3, <1>4, StepKinds DEF GoesOn, vars

\* Both sequential engines keep what all engines promise, for any rules, sizes
\* and numbers of frames, and wherever the call stops: every frame is written
\* once, and Ok means all of them, unless one was not written whole.
THEOREM ImplementsTranscodeHolds == Spec => ImplementsTranscode
<1>1. Init => Abstract!Init  BY WidthAssumption DEF Init, Abstract!Init
<1> QED
  BY <1>1, InitWritten, NextWritten, NextAbstract, PTL DEF Spec, ImplementsTranscode

-----------------------------------------------------------------------------
(* Frames are what the rules say: first two facts about the numbers.       *)

\* A set of natural numbers has a least element: < is well-founded.
LEMMA Least ==
    ASSUME NEW T \in SUBSET Nat, T # {}
    PROVE  \E m \in T : \A k \in T : m <= k
<1>1. IsWellFoundedOn(OpToRel(<, Nat), Nat)  BY NatLessThanWellFounded, Zenon
<1>2. PICK m \in T : \A k \in T : ~ (<<k, m>> \in OpToRel(<, Nat))
  BY <1>1, WFMin, Zenon
<1>3. \A k \in T : ~ (k < m)  BY <1>2 DEF OpToRel
<1> QED  BY <1>3

\* Induction up to n, for a set: what the theorems of the library say of an
\* operator, which the provers cannot be given, said of the set of its arguments.
LEMMA UpTo ==
    ASSUME NEW T, NEW n \in Nat, 0 \in T, \A k \in 0..(n - 1) : k \in T => k + 1 \in T
    PROVE  \A k \in 0..n : k \in T
<1> DEFINE B == (0..n) \ T
<1> SUFFICES ASSUME B # {} PROVE FALSE
  OBVIOUS
<1>1. PICK m \in B : \A k \in B : m <= k
  <2>1. B \in SUBSET Nat  OBVIOUS
  <2> HIDE DEF B
  <2> QED  BY <2>1, Least
<1>2. m # 0 /\ m - 1 \in 0..(n - 1) /\ m - 1 \notin B  BY <1>1
<1> QED  BY <1>2

\* f is a function: its domain and its values tell it.
IsFcn(f) == f = [x \in DOMAIN f |-> f[x]]

\* Where the row-th row of a rectangle at pos starts in a frame of d, and
\* whether byte b of the target lies in that row of rule r.
Offset(pos, d, row) == U32(Corner(pos, d)) + row * U32(CalcStride(d))
InRow(r, d, row, b) == b - Offset(r.dest, d, row) \in 0..(U32(CalcStride(r.dim)) - 1)

\* No byte of old is in two rows of r.
RowsDisjoint(old, r, td) ==
    \A b \in DOMAIN old : \A i, j \in 0..(r.dim.height - 1) :
        InRow(r, td, i, b) /\ InRow(r, td, j, b) => i = j

\* new is old with each row of r drawn.
IsDrawn(new, src, old, r, sd, td) ==
    /\ DOMAIN new = DOMAIN old /\ IsFcn(new)
    /\ \A b \in DOMAIN old :
        /\ \A row \in 0..(r.dim.height - 1) : InRow(r, td, row, b) =>
             new[b] = Mix(src[Offset(r.ul, sd, row) + (b - Offset(r.dest, td, row))],
                          old[b], r.alpha)
        /\ (\A row \in 0..(r.dim.height - 1) : ~ InRow(r, td, row, b)) => new[b] = old[b]

\* Blit draws row after row: the rows being disjoint, each byte is mixed at most
\* once.  The recursive function that computes it is the one that says so.
LEMMA BlitDraws ==
    ASSUME NEW src, NEW old, NEW r, NEW sd, NEW td, r.dim.height \in Nat, IsFcn(old),
           RowsDisjoint(old, r, td)
    PROVE  IsDrawn(Blit(src, old, r, sd, td), src, old, r, sd, td)
<1> DEFINE h == r.dim.height
           D == DOMAIN old
           put(row, b, was) ==
               Mix(src[Offset(r.ul, sd, row) + (b - Offset(r.dest, td, row))],
                   was, r.alpha)
           step(was, row) == [b \in D |-> IF InRow(r, td, row, b)
                                          THEN put(row, b, was[b]) ELSE was[b]]
           rowOf(b) == CHOOSE row \in 0..(h - 1) : InRow(r, td, row, b)
           done(n) == [b \in D |-> IF \E row \in 0..(n - 1) : InRow(r, td, row, b)
                                   THEN put(rowOf(b), b, old[b]) ELSE old[b]]
           Recurs(f) == f = [n \in 0..h |-> IF n = 0 THEN old ELSE step(f[n - 1], n - 1)]
           g == [n \in 0..h |-> IF n = 0 THEN old ELSE done(n)]
           rows == CHOOSE f : Recurs(f)
<1>1. Blit(src, old, r, sd, td) = rows[h]  BY DEF Blit, Offset, InRow
<1> HIDE DEF put, rowOf, Recurs, rows
<1>2. \A n \in 1..h : step(g[n - 1], n - 1) = done(n)
  <2> SUFFICES ASSUME NEW n \in 1..h PROVE step(g[n - 1], n - 1) = done(n)
    OBVIOUS
  <2> SUFFICES ASSUME NEW b \in D PROVE step(g[n - 1], n - 1)[b] = done(n)[b]
    OBVIOUS
  <2>1. n - 1 \in 0..h /\ n - 1 \in 0..(h - 1)  OBVIOUS
  <2>2. CASE InRow(r, td, n - 1, b)
    <3>1. \A row \in 0..(h - 1) : InRow(r, td, row, b) => row = n - 1
      BY <2>1, <2>2 DEF RowsDisjoint
    <3>2. rowOf(b) = n - 1  BY <2>1, <2>2, <3>1 DEF rowOf
    <3>3. ~ \E row \in 0..(n - 1 - 1) : InRow(r, td, row, b)  BY <3>1
    <3>4. g[n - 1][b] = old[b]  BY <2>1, <3>3
    <3>5. step(g[n - 1], n - 1)[b] = put(n - 1, b, old[b])  BY <2>2, <3>4
    <3>6. \E row \in 0..(n - 1) : InRow(r, td, row, b)  BY <2>1, <2>2
    <3> QED  BY <3>2, <3>5, <3>6
  <2>3. CASE ~ InRow(r, td, n - 1, b)
    <3>1. (\E row \in 0..(n - 1) : InRow(r, td, row, b))
            <=> (\E row \in 0..(n - 1 - 1) : InRow(r, td, row, b))
      BY <2>3
    <3>2. step(g[n - 1], n - 1)[b] = g[n - 1][b]  BY <2>3
    <3>3. CASE n - 1 = 0  BY <3>1, <3>2, <3>3
    <3>4. CASE n - 1 # 0
      <4>1. g[n - 1] = done(n - 1)  BY <2>1, <3>4
      <4> QED  BY <3>1, <3>2, <4>1
    <3> QED  BY <3>3, <3>4
  <2> QED  BY <2>2, <2>3
<1> HIDE DEF step, done
<1>3. Recurs(g)  BY <1>2 DEF Recurs
<1>4. Recurs(rows)  BY <1>3 DEF rows
<1>5. \A n \in 0..h : rows[n] = g[n]
  <2> DEFINE T == {n \in 0..h : rows[n] = g[n]}
  <2> HIDE DEF g
  <2>1. rows[0] = g[0]  BY <1>3, <1>4 DEF Recurs
  <2>2. \A k \in 0..(h - 1) : rows[k] = g[k] => rows[k + 1] = g[k + 1]
    <3> TAKE k \in 0..(h - 1)
    <3>1. k + 1 \in 0..h /\ k + 1 # 0 /\ k + 1 - 1 = k  OBVIOUS
    <3>2. rows[k + 1] = step(rows[k], k) /\ g[k + 1] = step(g[k], k)
      BY <1>3, <1>4, <3>1 DEF Recurs
    <3> QED  BY <3>2
  <2>3. 0 \in T /\ \A k \in 0..(h - 1) : k \in T => k + 1 \in T  BY <2>1, <2>2
  <2> HIDE DEF T
  <2>4. \A n \in 0..h : n \in T  BY <2>3, UpTo
  <2> QED  BY <2>4 DEF T
<1>6. rows[h] = done(h)
  <2>1. h \in 0..h /\ rows[h] = g[h]  BY <1>5
  <2>2. h = 0 => done(h) = old  BY DEF done, IsFcn
  <2>3. g[h] = IF h = 0 THEN old ELSE done(h)  BY <2>1
  <2> QED  BY <2>1, <2>2, <2>3
<1>7. ASSUME NEW b \in D, NEW row \in 0..(h - 1), InRow(r, td, row, b)
      PROVE  rowOf(b) = row
  BY <1>7 DEF rowOf, RowsDisjoint
<1> QED  BY <1>1, <1>6, <1>7 DEF done, put, IsFcn, IsDrawn

-----------------------------------------------------------------------------
(* Where blit writes: the pixels of the rectangle, each once.              *)

\* Byte c of the m-th pixel after some place lies in the k pixels there exactly
\* when the pixel does.
LEMMA ByteInPixels ==
    ASSUME NEW m \in Int, NEW p \in Nat \ {0}, NEW c \in 0..(p - 1), NEW k \in Nat
    PROVE  m * p \in Int /\ k * p \in Nat
           /\ (m * p + c \in 0..(k * p - 1) <=> m \in 0..(k - 1))
<1>1. m * p \in Int /\ k * p \in Nat  OBVIOUS
<1>2. ASSUME m \in 0..(k - 1) PROVE m * p >= 0 /\ m * p + p <= k * p
  <2>1. m + 1 <= k /\ m \in Nat  BY <1>2
  <2>2. (m + 1) * p <= k * p /\ 0 * p <= m * p  BY <2>1, TimesMonotone
  <2>3. (m + 1) * p = m * p + p /\ 0 * p = 0  BY <1>1
  <2> QED  BY <1>1, <2>2, <2>3
<1>3. ASSUME m >= k PROVE m * p >= k * p
  <2>1. m \in Nat  BY <1>3
  <2> QED  BY <1>3, <2>1, TimesMonotone
<1>4. ASSUME m < 0 PROVE m * p + p <= 0
  <2>1. -1 - m \in Nat /\ 0 <= -1 - m  BY <1>4
  <2>2. 0 * p <= (-1 - m) * p  BY <2>1, TimesMonotone
  <2>3. 0 * p = 0 /\ (-1 - m) * p = -p - m * p  OBVIOUS
  <2> QED  BY <1>1, <2>2, <2>3
<1>5. m * p + c \in 0..(k * p - 1) => m \in 0..(k - 1)  BY <1>1, <1>3, <1>4
<1>6. m \in 0..(k - 1) => m * p + c \in 0..(k * p - 1)  BY <1>1, <1>2
<1> QED  BY <1>1, <1>5, <1>6

\* Of a frame w pixels wide: pixel (x, y) is in the k pixels from (X, Y + row)
\* on exactly when it is in that row and in those columns.
LEMMA PixelInColumns ==
    ASSUME NEW w \in Nat, NEW k \in Nat, NEW x \in 0..(w - 1), NEW X \in Nat, X + k <= w,
           NEW q \in Int
    PROVE  q * w \in Int
           /\ (q * w + (x - X) \in 0..(k - 1) <=> q = 0 /\ x \in X..(X + k - 1))
<1>1. q * w \in Int  OBVIOUS
<1>2. CASE q = 0
  <2>1. q * w = 0  BY <1>2
  <2> QED  BY <1>1, <1>2, <2>1
<1>3. CASE q >= 1
  <2>1. 1 * w <= q * w
    <3>1. q \in Nat  BY <1>3
    <3> QED  BY <1>3, <3>1, TimesMonotone
  <2>2. q * w + (x - X) >= k  BY <1>1, <2>1
  <2> QED  BY <1>1, <1>3, <2>2
<1>4. CASE q <= -1
  <2>1. 0 * w <= (-1 - q) * w
    <3>1. -1 - q \in Nat  BY <1>4
    <3> QED  BY <3>1, TimesMonotone
  <2>2. (-1 - q) * w = -w - q * w /\ 0 * w = 0  OBVIOUS
  <2>3. q * w + (x - X) < 0  BY <1>1, <2>1, <2>2
  <2> QED  BY <1>1, <1>4, <2>3
<1> QED  BY <1>2, <1>3, <1>4

\* In a frame w pixels wide, of p bytes each: byte c of the pixel (x, y), and
\* the first byte of the row-th row of a rectangle whose corner is (X, Y).
ByteAt(w, p, x, y, c) == (y * w + x) * p + c
RowAt(w, p, X, Y, row) == (w * p) * Y + X * p + row * (w * p)

\* That byte lies in the k pixels of that row exactly when the pixel does, and
\* it is then found at the pixel's place in the row.
FoundInRow(w, p, k, X, Y, row, x, y, c) ==
    LET place == ByteAt(w, p, x, y, c) - RowAt(w, p, X, Y, row)
    IN  /\ place \in 0..(k * p - 1) <=> y = Y + row /\ x \in X..(X + k - 1)
        /\ y = Y + row => place = (x - X) * p + c

LEMMA ByteInRow ==
    ASSUME NEW w \in Nat, NEW p \in Nat \ {0}, NEW k \in Nat, NEW x \in 0..(w - 1),
           NEW y \in Nat, NEW c \in 0..(p - 1), NEW X \in Nat, NEW Y \in Nat,
           NEW row \in Nat, X + k <= w
    PROVE  FoundInRow(w, p, k, X, Y, row, x, y, c)
<1> DEFINE q == y - Y - row
           m == q * w + (x - X)
           b == ByteAt(w, p, x, y, c)
           o == RowAt(w, p, X, Y, row)
<1>1. q \in Int /\ m \in Int  OBVIOUS
<1>2. b - o = m * p + c  BY DEF ByteAt, RowAt
<1>3. q = 0 <=> y = Y + row  OBVIOUS
<1>4. q = 0 => m = x - X
  <2>1. 0 * w = 0  OBVIOUS
  <2> QED  BY <2>1
<1> HIDE DEF m, b, o
<1>5. m * p + c \in 0..(k * p - 1) <=> m \in 0..(k - 1)  BY <1>1, ByteInPixels
<1>6. m \in 0..(k - 1) <=> q = 0 /\ x \in X..(X + k - 1)
  <2> HIDE DEF q
  <2> QED  BY <1>1, PixelInColumns DEF m
<1>7. b - o \in 0..(k * p - 1) <=> y = Y + row /\ x \in X..(X + k - 1)
  BY <1>2, <1>3, <1>5, <1>6
<1>8. y = Y + row => b - o = (x - X) * p + c  BY <1>2, <1>3, <1>4
<1> QED  BY <1>7, <1>8 DEF b, o, FoundInRow

\* A frame whose stride and size 32 bits hold.
LEMMA FitsInWord ==
    ASSUME NEW d \in Dim, CalcStride(d) < Word, CalcSize(d) < Word
    PROVE  /\ d.width \in Nat /\ d.height \in Nat /\ BytesPerPixel \in Nat \ {0}
           /\ d.width * BytesPerPixel \in Nat /\ d.width * d.height * BytesPerPixel \in Nat
           /\ U32(CalcStride(d)) = d.width * BytesPerPixel
           /\ U32(CalcSize(d)) = d.width * d.height * BytesPerPixel
<1> DEFINE w == d.width  h == d.height  p == BytesPerPixel
<1>1. w \in Nat /\ h \in Nat /\ p \in Nat \ {0}  BY WidthAssumption DEF Dim
<1>2. CalcStride(d) = w * p /\ CalcSize(d) = w * h * p
  BY DEF CalcStride, CalcSize
<1>3. w * p \in Nat /\ w * h * p \in Nat
  <2>1. w * h \in Nat  BY <1>1
  <2> HIDE DEF w, h, p
  <2> QED  BY <1>1, <2>1
<1> QED  BY <1>1, <1>2, <1>3, U32Small

\* Nothing wraps in the offsets of a rectangle inside such a frame.
LEMMA Offsets ==
    ASSUME NEW r \in RuleRect, NEW d \in Dim, NEW pos \in Pos,
           Within(pos, r.dim, d), CalcStride(d) < Word, CalcSize(d) < Word
    PROVE  /\ pos.x \in Nat /\ pos.y \in Nat /\ r.dim.width \in Nat /\ r.dim.height \in Nat
           /\ \A row : Offset(pos, d, row)
                = (d.width * BytesPerPixel) * pos.y + pos.x * BytesPerPixel
                    + row * (d.width * BytesPerPixel)
           /\ U32(CalcStride(r.dim)) = r.dim.width * BytesPerPixel
<1>1. /\ pos.x \in Nat /\ pos.y \in Nat /\ r.dim.width \in Nat /\ r.dim.height \in Nat
  BY DEF Pos, RuleRect, Dim
<1>2. U32(Corner(pos, d)) = Corner(pos, d) /\ U32(CalcStride(r.dim)) = CalcStride(r.dim)
  BY WithinFits, U32Small
<1>3. U32(CalcStride(d)) = d.width * BytesPerPixel  BY FitsInWord
<1> QED  BY <1>1, <1>2, <1>3 DEF Offset, Corner, CalcStride

\* Byte c of the pixel (x, y) in a frame of d.
Addr(d, x, y, c) == (y * d.width + x) * BytesPerPixel + c

\* A pixel inside a frame is inside its buffer.
LEMMA AddrInside ==
    ASSUME NEW w \in Nat, NEW h \in Nat, NEW p \in Nat \ {0}, NEW x \in 0..(w - 1),
           NEW y \in 0..(h - 1), NEW c \in 0..(p - 1)
    PROVE  (y * w + x) * p + c \in 0..(w * h * p - 1)
<1> DEFINE m == y * w + x
           k == w * h
<1>1. m \in Int /\ k \in Nat  OBVIOUS
<1>2. y * w >= 0 /\ y * w + w <= w * h
  <2>1. 0 * w <= y * w /\ (y + 1) * w <= h * w  BY TimesMonotone
  <2>2. 0 * w = 0 /\ (y + 1) * w = y * w + w /\ h * w = w * h /\ y * w \in Int
    OBVIOUS
  <2> QED  BY <2>1, <2>2
<1>3. m \in 0..(k - 1)
  <2>1. y * w \in Int /\ w * h \in Int  OBVIOUS
  <2> QED  BY <1>2, <2>1
<1> HIDE DEF m, k
<1>4. m * p + c \in 0..(k * p - 1)  BY <1>1, <1>3, ByteInPixels
<1> QED  BY <1>4 DEF m, k

\* The bytes of frame f of the source, each told apart.
FrameBytes(f, d) == [b \in 0..(U32(CalcSize(d)) - 1) |-> <<f, b>>]

\* Rule r draws on the pixel (x, y) of the target.
Touches(r, x, y) ==
    /\ x \in r.dest.x..(r.dest.x + r.dim.width - 1)
    /\ y \in r.dest.y..(r.dest.y + r.dim.height - 1)

\* The index of the byte of the source that rule r puts at byte c of (x, y).
SourceIndex(r, d, x, y, c) ==
    ((r.ul.y + y - r.dest.y) * d.width + r.ul.x + x - r.dest.x) * BytesPerPixel + c

\* The e-th pixel of a row, from the start of the row and from the start of the
\* frame.
LEMMA SourceByte ==
    ASSUME NEW w \in Nat, NEW p \in Nat, NEW X \in Nat, NEW Y \in Nat,
           NEW row \in Nat, NEW e \in Int, NEW c \in Nat
    PROVE  (w * p) * Y + X * p + row * (w * p) + (e * p + c)
             = ((Y + row) * w + X + e) * p + c
OBVIOUS

\* Rows of a rectangle inside a frame do not overlap.
LEMMA RowsApart ==
    ASSUME NEW b \in Nat, NEW o \in Nat, NEW i \in Nat, NEW j \in Nat, NEW s \in Nat,
           NEW l \in Nat, l <= s,
           b - (o + i * s) \in 0..(l - 1), b - (o + j * s) \in 0..(l - 1)
    PROVE  i = j
<1>1. ASSUME NEW u \in Nat, NEW v \in Nat, u < v PROVE u * s + s <= v * s
  <2>1. (u + 1) * s <= v * s  BY <1>1, TimesMonotone
  <2>2. (u + 1) * s = u * s + s  OBVIOUS
  <2> QED  BY <2>1, <2>2
<1>2. i * s \in Nat /\ j * s \in Nat  OBVIOUS
<1>3. ~ (i < j)  BY <1>1, <1>2
<1>4. ~ (j < i)  BY <1>1, <1>2
<1> QED  BY <1>3, <1>4

\* new is old with rule r drawn, pixel by pixel.
DrawsPixels(new, f, old, r, sd, td) ==
    /\ DOMAIN new = DOMAIN old /\ IsFcn(new)
    /\ \A x \in 0..(td.width - 1), y \in 0..(td.height - 1), c \in 0..(BytesPerPixel - 1) :
        new[Addr(td, x, y, c)] =
            IF Touches(r, x, y)
            THEN Mix(<<f, SourceIndex(r, sd, x, y, c)>>, old[Addr(td, x, y, c)], r.alpha)
            ELSE old[Addr(td, x, y, c)]

\* A rule inside both frames draws its pixels and nothing else: the byte of the
\* source at the same place in the rectangle is mixed into each of its bytes.
LEMMA BlitPixel ==
    ASSUME NEW f, NEW r \in RuleRect, NEW sd \in Dim, NEW td \in Dim,
           Within(r.ul, r.dim, sd), Within(r.dest, r.dim, td),
           CalcStride(sd) < Word, CalcSize(sd) < Word,
           CalcStride(td) < Word, CalcSize(td) < Word,
           NEW old, IsFcn(old), DOMAIN old = 0..(U32(CalcSize(td)) - 1)
    PROVE  DrawsPixels(Blit(FrameBytes(f, sd), old, r, sd, td), f, old, r, sd, td)
<1> DEFINE p == BytesPerPixel
           k == r.dim.width
           h == r.dim.height
           w == td.width
           v == sd.width
           X == r.dest.x
           Y == r.dest.y
           S == r.ul.x
           T == r.ul.y
           H == td.height
           G == sd.height
           at(x, y, c) == ByteAt(w, p, x, y, c)
           index(x, y, c) == ((T + y - Y) * v + S + x - X) * p + c
           new == Blit(FrameBytes(f, sd), old, r, sd, td)
<1>0. r.ul \in Pos /\ r.dest \in Pos  BY DEF RuleRect
<1>2. /\ w \in Nat /\ H \in Nat /\ p \in Nat \ {0} /\ U32(CalcSize(td)) = w * H * p
      /\ v \in Nat /\ G \in Nat /\ U32(CalcSize(sd)) = v * G * p
  BY FitsInWord
<1>3. /\ X \in Nat /\ Y \in Nat /\ S \in Nat /\ T \in Nat /\ k \in Nat /\ h \in Nat
      /\ U32(CalcStride(r.dim)) = k * p
      /\ \A row : /\ Offset(r.dest, td, row) = RowAt(w, p, X, Y, row)
                  /\ Offset(r.ul, sd, row) = (v * p) * T + S * p + row * (v * p)
  BY <1>0, Offsets DEF RowAt
<1>1. /\ w \in Nat /\ H \in Nat /\ p \in Nat \ {0} /\ v \in Nat /\ G \in Nat
      /\ X \in Nat /\ Y \in Nat /\ S \in Nat /\ T \in Nat /\ k \in Nat /\ h \in Nat
  BY <1>2, <1>3
<1>4. /\ X + k <= w /\ Y < H /\ Y + h <= H
      /\ S + k <= v /\ T < G /\ T + h <= G
  BY DEF Within
<1>5. \A x, y, c :
        /\ Touches(r, x, y) <=> x \in X..(X + k - 1) /\ y \in Y..(Y + h - 1)
        /\ Addr(td, x, y, c) = at(x, y, c) /\ SourceIndex(r, sd, x, y, c) = index(x, y, c)
  BY DEF Touches, Addr, SourceIndex, ByteAt
<1> HIDE DEF p, k, h, w, v, X, Y, S, T, H, G
<1>6. \A row, b : InRow(r, td, row, b) <=> b - RowAt(w, p, X, Y, row) \in 0..(k * p - 1)
  BY <1>3 DEF InRow
<1>7. RowsDisjoint(old, r, td)
  <2> DEFINE s == w * p
             o == s * Y + X * p
             l == k * p
  <2>1. s \in Nat /\ l \in Nat /\ X * p \in Nat  BY <1>2, <1>3
  <2>2. s * Y \in Nat
    <3> HIDE DEF s
    <3> QED  BY <1>3, <2>1
  <2>3. o \in Nat  BY <2>1, <2>2
  <2>4. l <= s
    <3>1. k <= w  BY <1>2, <1>3, <1>4
    <3> QED  BY <1>2, <1>3, <3>1, TimesMonotone
  <2> SUFFICES ASSUME NEW b \in DOMAIN old, NEW i \in 0..(h - 1), NEW j \in 0..(h - 1),
                      InRow(r, td, i, b), InRow(r, td, j, b)
               PROVE  i = j
    BY DEF RowsDisjoint, h
  <2>5. b - (o + i * s) \in 0..(l - 1) /\ b - (o + j * s) \in 0..(l - 1)
    BY <1>6 DEF RowAt
  <2>6. b \in Nat /\ i \in Nat /\ j \in Nat  BY <1>3
  <2> HIDE DEF o, s, l
  <2> QED  BY <2>1, <2>3, <2>4, <2>5, <2>6, RowsApart
<1>8. IsDrawn(new, FrameBytes(f, sd), old, r, sd, td)
  BY <1>3, <1>7, BlitDraws DEF h
<1> HIDE DEF new
<1>9. ASSUME NEW x \in 0..(w - 1), NEW y \in 0..(H - 1), NEW c \in 0..(p - 1)
      PROVE  new[at(x, y, c)] =
                 IF x \in X..(X + k - 1) /\ y \in Y..(Y + h - 1)
                 THEN Mix(<<f, index(x, y, c)>>, old[at(x, y, c)], r.alpha)
                 ELSE old[at(x, y, c)]
  <2> DEFINE b == at(x, y, c)
  <2>0. x \in Nat /\ y \in Nat /\ c \in Nat /\ x <= w - 1 /\ y <= H - 1  BY <1>1
  <2>1. b \in DOMAIN old  BY <1>2, AddrInside DEF ByteAt
  <2>2. ASSUME NEW row \in Nat
        PROVE  /\ InRow(r, td, row, b) <=> y = Y + row /\ x \in X..(X + k - 1)
               /\ y = Y + row => b - Offset(r.dest, td, row) = (x - X) * p + c
    <3>1. FoundInRow(w, p, k, X, Y, row, x, y, c)
      BY <1>1, <1>4, <2>0, ByteInRow
    <3>2. Offset(r.dest, td, row) = RowAt(w, p, X, Y, row) /\ b = ByteAt(w, p, x, y, c)
      BY <1>3
    <3> HIDE DEF b
    <3> QED  BY <1>6, <3>1, <3>2 DEF FoundInRow
  <2> HIDE DEF b
  <2>3. CASE x \in X..(X + k - 1) /\ y \in Y..(Y + h - 1)
    <3> DEFINE row == y - Y
               e == x - X
    <3>1. row \in 0..(h - 1) /\ row \in Nat /\ y = Y + row /\ e \in 0..(k - 1) /\ e \in Nat
      BY <1>1, <2>0, <2>3
    <3>2. InRow(r, td, row, b) /\ b - Offset(r.dest, td, row) = e * p + c
      BY <2>2, <2>3, <3>1
    <3>3. T + y - Y = T + row /\ T + row \in 0..(G - 1) /\ S + e \in 0..(v - 1)
      <4>1. T + y - Y = T + row  BY <1>1, <2>0
      <4> HIDE DEF row, e
      <4>2. T + row \in 0..(G - 1)  BY <1>1, <1>4, <3>1
      <4>3. S + e \in 0..(v - 1)  BY <1>1, <1>4, <3>1
      <4> QED  BY <4>1, <4>2, <4>3
    <3>4. index(x, y, c) = ((T + row) * v + S + e) * p + c
      <4>1. (T + row) * v \in Int  BY <1>1, <3>1
      <4>2. (T + row) * v + S + x - X = (T + row) * v + S + e
        BY <1>1, <2>0, <4>1
      <4> QED  BY <3>3, <4>2
    <3> HIDE DEF row, e, index
    <3>5. Offset(r.ul, sd, row) + (e * p + c) = index(x, y, c)
      BY <1>2, <1>3, <2>0, <3>1, <3>4, SourceByte
    <3>6. index(x, y, c) \in 0..(v * G * p - 1)
      <4>1. ((T + row) * v + (S + e)) * p + c \in 0..(v * G * p - 1)
        BY <1>1, <3>3, AddrInside
      <4>2. (T + row) * v + (S + e) = (T + row) * v + S + e
        <5>1. (T + row) * v \in Int  BY <1>1, <3>1
        <5> QED  BY <1>1, <3>1, <5>1
      <4> QED  BY <3>4, <4>1, <4>2
    <3>7. FrameBytes(f, sd)[index(x, y, c)] = <<f, index(x, y, c)>>
      BY <1>2, <3>6 DEF FrameBytes
    <3>8. new[b] = Mix(FrameBytes(f, sd)[Offset(r.ul, sd, row)
                                           + (b - Offset(r.dest, td, row))],
                       old[b], r.alpha)
      BY <1>8, <2>1, <3>1, <3>2 DEF IsDrawn, h
    <3> QED  BY <2>3, <3>2, <3>5, <3>7, <3>8 DEF b
  <2>4. CASE ~ (x \in X..(X + k - 1) /\ y \in Y..(Y + h - 1))
    <3>1. \A row \in 0..(h - 1) : ~ InRow(r, td, row, b)
      <4> TAKE row \in 0..(h - 1)
      <4>1. row \in Nat  BY <1>1
      <4>2. ~ (y = Y + row /\ x \in X..(X + k - 1))  BY <1>1, <2>4, <4>1
      <4> QED  BY <2>2, <4>1, <4>2
    <3>2. new[b] = old[b]  BY <1>8, <2>1, <3>1 DEF IsDrawn, h
    <3> QED  BY <2>4, <3>2 DEF b
  <2> QED  BY <2>3, <2>4
<1> HIDE DEF at, index
<1> QED  BY <1>5, <1>8, <1>9 DEF IsDrawn, DrawsPixels, new, p, w, H

-----------------------------------------------------------------------------
(* The order of the rules, and an occlusion pass that deletes nothing.     *)

\* sort_rules orders the rules by f.
Sorts(f, rs) ==
    /\ f \in [DOMAIN rs -> DOMAIN rs]
    /\ \A p, q \in DOMAIN rs : p < q => Before(rs, f[p], f[q])

\* The results of sort_rules are those of its orders.
LEMMA SortedBy ==
    ASSUME NEW rs, NEW t
    PROVE  t \in SortRules(rs) <=> \E f : Sorts(f, rs) /\ t = [p \in DOMAIN rs |-> rs[f[p]]]
BY DEF SortRules, Sorts

\* The fields by which rules are compared.
LEMMA RuleFields ==
    ASSUME NEW rs \in Seq(RuleRect), NEW i \in DOMAIN rs
    PROVE  /\ i \in Nat /\ rs[i] \in RuleRect
           /\ rs[i].z \in Nat /\ rs[i].ul \in Pos
           /\ rs[i].ul.x \in Nat /\ rs[i].ul.y \in Nat
<1>1. rs[i] \in RuleRect /\ i \in Nat  OBVIOUS
<1> QED  BY <1>1 DEF RuleRect, Pos

\* Before is a strict order: no rule is before itself, no two are before each other.
LEMMA BeforeStrict ==
    ASSUME NEW rs \in Seq(RuleRect), NEW i \in DOMAIN rs, NEW j \in DOMAIN rs,
           Before(rs, i, j)
    PROVE  i # j /\ ~ Before(rs, j, i)
BY RuleFields DEF Before

\* Sorting twice is sorting once: the rules keep their order.
LEMMA SortTwice ==
    ASSUME NEW rs \in Seq(RuleRect), NEW t \in SortRules(rs), NEW u \in SortRules(t)
    PROVE  u \in SortRules(rs)
<1>1. PICK f : Sorts(f, rs) /\ t = [p \in DOMAIN rs |-> rs[f[p]]]  BY SortedBy
<1>2. DOMAIN t = DOMAIN rs /\ \A p \in DOMAIN rs : t[p] = rs[f[p]]  BY <1>1
<1>3. PICK g : Sorts(g, t) /\ u = [p \in DOMAIN t |-> t[g[p]]]  BY SortedBy
<1>4. f \in [DOMAIN rs -> DOMAIN rs] /\ g \in [DOMAIN rs -> DOMAIN rs]
  BY <1>1, <1>2, <1>3 DEF Sorts
<1> DEFINE h == [p \in DOMAIN rs |-> f[g[p]]]
<1>5. h \in [DOMAIN rs -> DOMAIN rs]  BY <1>4
<1>6. ASSUME NEW a \in DOMAIN rs, NEW b \in DOMAIN rs, Before(t, a, b)
      PROVE  Before(rs, f[a], f[b])
  <2>1. t[a] = rs[f[a]] /\ t[b] = rs[f[b]] /\ a \in Nat /\ b \in Nat  BY <1>2
  <2>2. a < b => Before(rs, f[a], f[b])  BY <1>1 DEF Sorts
  <2>3. CASE a < b  BY <2>2, <2>3
  <2>4. CASE ~ (a < b)  BY <1>6, <2>1, <2>4 DEF Before
  <2> QED  BY <2>3, <2>4
<1>7. ASSUME NEW p \in DOMAIN rs, NEW q \in DOMAIN rs, p < q
      PROVE  Before(rs, h[p], h[q])
  <2>1. Before(t, g[p], g[q])  BY <1>2, <1>3, <1>7 DEF Sorts
  <2> QED  BY <1>4, <1>6, <2>1
<1>8. u = [p \in DOMAIN rs |-> rs[h[p]]]  BY <1>2, <1>3, <1>4
<1> HIDE DEF h
<1>9. Sorts(h, rs)  BY <1>5, <1>7 DEF Sorts
<1> QED  BY <1>8, <1>9, SortedBy

\* Sorting is a permutation that tells the place of a rule from its rank.
LEMMA SortPermutes ==
    ASSUME NEW rs \in Seq(RuleRect), NEW f, Sorts(f, rs)
    PROVE  /\ f \in Bijection(DOMAIN rs, DOMAIN rs)
           /\ \A p, q \in DOMAIN rs : Before(rs, f[p], f[q]) <=> p < q
<1> DEFINE D == DOMAIN rs
<1>1. D = 1..Len(rs) /\ Len(rs) \in Nat /\ IsFiniteSet(D)
  <2>1. D = 1..Len(rs) /\ Len(rs) \in Nat  OBVIOUS
  <2> QED  BY <2>1, FS_Interval
<1>2. f \in [D -> D] /\ \A p, q \in D : p < q => Before(rs, f[p], f[q])
  BY DEF Sorts
<1>3. \A p, q \in D : p < q => f[p] # f[q] /\ ~ Before(rs, f[q], f[p])
  BY <1>2, BeforeStrict
<1>4. \A p, q \in D : p < q \/ p = q \/ q < p  BY <1>1
<1>5. f \in Injection(D, D)  BY <1>2, <1>3, <1>4 DEF Injection, IsInjective
<1>6. f \in Surjection(D, D)  BY <1>1, <1>5, FS_Injection
<1>7. \A p, q \in D : Before(rs, f[p], f[q]) => p < q
  <2> TAKE p, q \in D
  <2>1. p = q => ~ Before(rs, f[p], f[q])  BY <1>2, BeforeStrict
  <2> QED  BY <1>3, <1>4, <2>1
<1> QED  BY <1>2, <1>5, <1>6, <1>7 DEF Bijection

\* The order the properties speak of is the order of sort_rules.
LEMMA UnderIsBefore ==
    ASSUME input.rects \in Seq(RuleRect),
           NEW i \in DOMAIN input.rects, NEW j \in DOMAIN input.rects
    PROVE  Under(i, j) <=> Before(input.rects, i, j)
<1> DEFINE a == input.rects[i]
           b == input.rects[j]
           k(n) == <<input.rects[n].z, input.rects[n].ul.x, input.rects[n].ul.y, n>>
<1>1. Under(i, j) <=> \E p \in 1..4 : /\ k(i)[p] < k(j)[p]
                                       /\ \A q \in 1..(p - 1) : k(i)[q] = k(j)[q]
  BY DEF Under
<1>2. /\ k(i)[1] = a.z /\ k(i)[2] = a.ul.x /\ k(i)[3] = a.ul.y /\ k(i)[4] = i
      /\ k(j)[1] = b.z /\ k(j)[2] = b.ul.x /\ k(j)[3] = b.ul.y /\ k(j)[4] = j
  OBVIOUS
<1>3. a.ul = b.ul <=> a.ul.x = b.ul.x /\ a.ul.y = b.ul.y
  <2>1. a.ul \in Pos /\ b.ul \in Pos  BY RuleFields
  <2>2. \A c \in Pos, d \in Pos : c.x = d.x /\ c.y = d.y => c = d  BY DEF Pos
  <2> QED  BY <2>1, <2>2
<1> HIDE DEF k, a, b
<1>4. /\ \A q \in 1..(1 - 1) : FALSE
      /\ \A q \in 1..(2 - 1) : q = 1
      /\ \A q \in 1..(3 - 1) : q \in {1, 2}
      /\ \A q \in 1..(4 - 1) : q \in {1, 2, 3}
  OBVIOUS
<1>5. Under(i, j) <=>
        \/ a.z < b.z
        \/ a.z = b.z /\ a.ul.x < b.ul.x
        \/ a.z = b.z /\ a.ul.x = b.ul.x /\ a.ul.y < b.ul.y
        \/ a.z = b.z /\ a.ul.x = b.ul.x /\ a.ul.y = b.ul.y /\ i < j
  <2>1. (\E p \in 1..4 : k(i)[p] < k(j)[p] /\ \A q \in 1..(p - 1) : k(i)[q] = k(j)[q])
          <=> \/ k(i)[1] < k(j)[1]
              \/ k(i)[2] < k(j)[2] /\ k(i)[1] = k(j)[1]
              \/ k(i)[3] < k(j)[3] /\ k(i)[1] = k(j)[1] /\ k(i)[2] = k(j)[2]
              \/ k(i)[4] < k(j)[4] /\ k(i)[1] = k(j)[1] /\ k(i)[2] = k(j)[2]
                                   /\ k(i)[3] = k(j)[3]
    <3> DEFINE less(p) == k(i)[p] < k(j)[p]
               same(p) == k(i)[p] = k(j)[p]
    <3> HIDE DEF less, same
    <3>1. (\E p \in 1..4 : less(p) /\ \A q \in 1..(p - 1) : same(q))
            <=> \/ less(1)
                \/ less(2) /\ same(1)
                \/ less(3) /\ same(1) /\ same(2)
                \/ less(4) /\ same(1) /\ same(2) /\ same(3)
      OBVIOUS
    <3> QED  BY <3>1 DEF less, same
  <2> QED  BY <1>1, <1>2, <2>1
<1> QED  BY <1>3, <1>5 DEF Before, a, b

\* A set of natural numbers with an upper bound has a greatest element.
LEMMA Greatest ==
    ASSUME NEW n \in Nat, NEW S \in SUBSET (1..n), S # {}
    PROVE  Max(S) \in S /\ \A j \in S : Max(S) >= j
<1> DEFINE B == {n - i : i \in S}
<1>1. B \in SUBSET Nat /\ B # {}
  <2>1. \A i \in S : n - i \in Nat  OBVIOUS
  <2>2. PICK i \in S : TRUE  OBVIOUS
  <2>3. n - i \in B  OBVIOUS
  <2> QED  BY <2>1, <2>3
<1>2. PICK m \in B : \A k \in B : m <= k  BY <1>1, Least
<1>3. PICK i \in S : m = n - i  BY <1>2
<1>4. \A j \in S : i >= j
  <2> TAKE j \in S
  <2>1. m <= n - j  BY <1>2
  <2> QED  BY <1>3, <2>1
<1> QED  BY <1>4 DEF Max

\* The occlusion pass deletes nothing when no opaque rule has rows: the fold that
\* collects the rules to delete collects none.
LEMMA NothingToDelete ==
    ASSUME NEW rs \in Seq(RuleRect),
           \A i \in DOMAIN rs : rs[i].alpha = "opaque" => rs[i].dim.height = 0
    PROVE  ToDelete(rs) = <<>>
<1> DEFINE D == DOMAIN rs
           index == [i \in D |-> i]
           add(i, del) == (IF rs[i].alpha = "opaque"
                           THEN [row \in 1..rs[i].dim.height |-> i] ELSE <<>>) \o del
           Recurs(f) == f = [s \in SUBSET D |->
                               IF s = {} THEN <<>>
                               ELSE add(index[Max(s)], f[s \ {Max(s)}])]
           iter == CHOOSE f : Recurs(f)
           none == [s \in SUBSET D |-> <<>>]
<1>1. ToDelete(rs) = iter[D]
  BY DEF ToDelete, FoldLeftDomain, FoldLeft, MapThenFoldSet
<1>2. D = 1..Len(rs) /\ Len(rs) \in Nat  OBVIOUS
<1>3. \A s \in SUBSET D : s # {} => Max(s) \in s /\ \A j \in s : Max(s) >= j
  BY <1>2, Greatest
<1>4. \A i \in D : add(i, <<>>) = <<>>
  <2> TAKE i \in D
  <2>1. [row \in 1..0 |-> i] = <<>>  OBVIOUS
  <2>2. rs[i].alpha = "opaque" => [row \in 1..rs[i].dim.height |-> i] = <<>>
    BY <2>1
  <2>3. <<>> \o <<>> = <<>>  OBVIOUS
  <2> QED  BY <2>2, <2>3
<1> HIDE DEF add, Recurs, iter
<1>5. \A s \in SUBSET D : s # {} => add(index[Max(s)], none[s \ {Max(s)}]) = <<>>
  BY <1>3, <1>4
<1>6. Recurs(none)  BY <1>5 DEF Recurs
<1>7. Recurs(iter)  BY <1>6 DEF iter
<1> DEFINE T == {n \in 0..Len(rs) : \A s \in SUBSET (1..n) : iter[s] = <<>>}
<1>8. 0 \in T
  <2>1. iter[{}] = <<>>  BY <1>7 DEF Recurs
  <2>2. 1..0 = {}  OBVIOUS
  <2>3. \A s \in SUBSET (1..0) : iter[s] = <<>>  BY <2>1, <2>2
  <2>4. 0 \in 0..Len(rs)  BY <1>2
  <2> QED  BY <2>3, <2>4
<1>9. \A n \in 0..(Len(rs) - 1) : n \in T => n + 1 \in T
  <2> SUFFICES ASSUME NEW n \in 0..(Len(rs) - 1), n \in T,
                      NEW s \in SUBSET (1..(n + 1)), s # {}
               PROVE  iter[s] = <<>>
    BY <1>2, <1>8
  <2>0. s \in SUBSET D /\ n \in Nat  BY <1>2
  <2> HIDE DEF D
  <2>1. s \in SUBSET D /\ s \ {Max(s)} \in SUBSET D /\ Max(s) \in s /\ Max(s) \in D
    BY <1>3, <2>0
  <2>2. \A m \in s : m <= Max(s)
    <3> DEFINE m == Max(s)
    <3>1. \A j \in s : j \in Nat /\ m >= j  BY <1>2, <1>3, <2>1
    <3>2. m \in Nat  BY <2>1, <3>1
    <3> HIDE DEF m
    <3>3. \A j \in s : j <= m  BY <3>1, <3>2
    <3> QED  BY <3>3 DEF m
  <2>3. s \ {Max(s)} \in SUBSET (1..n)
    <3> DEFINE m == Max(s)
    <3>1. m \in 1..(n + 1) /\ \A j \in s : j <= m /\ j \in 1..(n + 1)
      BY <2>0, <2>1, <2>2
    <3> HIDE DEF m
    <3>2. \A j \in s \ {m} : j \in 1..n  BY <2>0, <3>1
    <3> QED  BY <3>2 DEF m
  <2>4. iter[s] = add(index[Max(s)], iter[s \ {Max(s)}])
    BY <1>7, <2>1 DEF Recurs
  <2> QED  BY <1>4, <2>1, <2>3, <2>4
<1> HIDE DEF T
<1>10. Len(rs) \in T
  <2>1. Len(rs) \in 0..Len(rs)  BY <1>2
  <2> QED  BY <2>1, <1>2, <1>8, <1>9, UpTo
<1> QED  BY <1>1, <1>2, <1>10 DEF T

\* Nothing to delete: the rules are left as they are.
LEMMA NothingRemoved == ASSUME NEW rs PROVE Removed(rs, <<>>) = rs
<1> DEFINE drop(s, i) == IF Len(<<>>) < ResortThreshold THEN RemoveAt(s, i)
                                                        ELSE SwapRemove(s, i)
           Recurs(f) == f = [s \in SUBSET {} |->
                               IF s = {} THEN rs ELSE drop(f[s \ {Max(s)}], <<>>[Max(s)])]
           iter == CHOOSE f : Recurs(f)
           all == [s \in SUBSET {} |-> rs]
<1>1. DOMAIN <<>> = {}  OBVIOUS
<1>2. Removed(rs, <<>>) = iter[{}]
  BY <1>1 DEF Removed, FoldLeft, MapThenFoldSet
<1> HIDE DEF drop
<1>3. Recurs(all)  OBVIOUS
<1>4. Recurs(iter)  BY <1>3
<1> HIDE DEF iter
<1> QED  BY <1>2, <1>4

-----------------------------------------------------------------------------
(* What the first k rules draw at a pixel.                                 *)

\* The members of S below i.
Below(S, i) == {j \in S : j < i}

\* The n-th of a set of numbers.
Nth(S, n) == CHOOSE i \in S : Cardinality(Below(S, i)) = n - 1

\* The sets counted are finite.
LEMMA FiniteBelow ==
    ASSUME NEW k \in Nat, NEW S \in SUBSET (1..k)
    PROVE  /\ IsFiniteSet(S) /\ Cardinality(S) \in Nat
           /\ \A i : IsFiniteSet(Below(S, i)) /\ Cardinality(Below(S, i)) \in Nat
<1>1. IsFiniteSet(1..k)  BY FS_Interval
<1>2. \A i : Below(S, i) \in SUBSET (1..k)  BY DEF Below
<1>3. \A T \in SUBSET (1..k) : IsFiniteSet(T) /\ Cardinality(T) \in Nat
  BY <1>1, FS_Subset, FS_CardinalityType
<1> QED  BY <1>2, <1>3

\* Two members of a set do not have the same number of members below them.
LEMMA OneRank ==
    ASSUME NEW k \in Nat, NEW S \in SUBSET (1..k), NEW i \in S, NEW j \in S,
           Cardinality(Below(S, i)) = Cardinality(Below(S, j))
    PROVE  i = j
<1>1. ASSUME NEW a \in S, NEW b \in S, a < b
      PROVE  Cardinality(Below(S, a)) # Cardinality(Below(S, b))
  <2>1. Below(S, a) \subseteq Below(S, b) /\ a \in Below(S, b) /\ a \notin Below(S, a)
    <3>1. a \in Nat /\ b \in Nat /\ \A s \in S : s \in Nat  OBVIOUS
    <3>2. \A s \in S : s < a => s < b  BY <1>1, <3>1
    <3>3. ~ (a < a)  BY <3>1
    <3> QED  BY <1>1, <3>2, <3>3 DEF Below
  <2>2. IsFiniteSet(Below(S, b))  BY FiniteBelow
  <2> QED  BY <2>1, <2>2, FS_Subset
<1>2. i \in Nat /\ j \in Nat  OBVIOUS
<1> QED  BY <1>1, <1>2

\* Every rank is taken.
LEMMA Ranks ==
    ASSUME NEW k \in Nat, NEW S \in SUBSET (1..k), NEW n \in 1..Cardinality(S)
    PROVE  \E i \in S : Cardinality(Below(S, i)) = n - 1
<1> DEFINE Ranked(R) == \A m \in 1..Cardinality(R) :
                            \E i \in R : Cardinality(Below(R, i)) = m - 1
           T == {l \in 0..k : \A R \in SUBSET (1..l) : Ranked(R)}
<1>1. 0 \in T
  <2>1. 1..0 = {} /\ Cardinality({}) = 0 /\ 0 \in 0..k  BY FS_EmptySet
  <2> QED  BY <2>1
<1>2. \A l \in 0..(k - 1) : l \in T => l + 1 \in T
  <2> SUFFICES ASSUME NEW l \in 0..(k - 1), l \in T, NEW R \in SUBSET (1..(l + 1))
               PROVE  Ranked(R)
    <3>1. \A l \in 0..(k - 1) : l + 1 \in 0..k  OBVIOUS
    <3> HIDE DEF Ranked
    <3> QED  BY <3>1
  <2> DEFINE Q == R \ {l + 1}
  <2>1. Q \in SUBSET (1..l) /\ l \in Nat  OBVIOUS
  <2>2. Ranked(Q)  BY <2>1
  <2>3. CASE l + 1 \notin R  BY <2>2, <2>3
  <2>4. CASE l + 1 \in R
    <3>1. R = Q \cup {l + 1} /\ l + 1 \notin Q  BY <2>4
    <3> HIDE DEF Q
    <3>2. Cardinality(R) = Cardinality(Q) + 1 /\ Cardinality(Q) \in Nat
      <4>1. IsFiniteSet(Q) /\ Cardinality(Q) \in Nat  BY <2>1, FiniteBelow
      <4> QED  BY <3>1, <4>1, FS_AddElement
    <3>0. \A q \in Q : q \in Nat /\ q < l + 1 /\ ~ (l + 1 < q)  BY <2>1
    <3>3. \A i \in Q : Below(R, i) = Below(Q, i)  BY <3>0, <3>1 DEF Below
    <3>4. Below(R, l + 1) = Q
      <4>1. ~ (l + 1 < l + 1)  BY <2>1
      <4>2. \A j : j \in R /\ j < l + 1 <=> j \in Q  BY <3>0, <3>1, <4>1
      <4> QED  BY <4>2 DEF Below
    <3> SUFFICES ASSUME NEW m \in 1..Cardinality(R)
                 PROVE  \E i \in R : Cardinality(Below(R, i)) = m - 1
      OBVIOUS
    <3>5. CASE m \in 1..Cardinality(Q)  BY <2>2, <3>1, <3>3, <3>5
    <3>6. CASE m = Cardinality(Q) + 1  BY <2>4, <3>2, <3>4, <3>6
    <3> QED  BY <3>2, <3>5, <3>6
  <2> QED  BY <2>3, <2>4
<1> HIDE DEF T
<1>3. k \in T
  <2>1. k \in 0..k  OBVIOUS
  <2> QED  BY <2>1, <1>1, <1>2, UpTo
<1> QED  BY <1>3 DEF T

\* The n-th has n - 1 members below it, and it is the only one.
LEMMA NthHasRank ==
    ASSUME NEW k \in Nat, NEW S \in SUBSET (1..k), NEW n \in 1..Cardinality(S)
    PROVE  Nth(S, n) \in S /\ Cardinality(Below(S, Nth(S, n))) = n - 1
BY Ranks DEF Nth

LEMMA NthOfRank ==
    ASSUME NEW k \in Nat, NEW S \in SUBSET (1..k), NEW i \in S
    PROVE  Nth(S, Cardinality(Below(S, i)) + 1) = i
<1> DEFINE n == Cardinality(Below(S, i)) + 1
<1>1. Cardinality(Below(S, i)) = n - 1
  <2>1. Cardinality(Below(S, i)) \in Nat  BY FiniteBelow
  <2> QED  BY <2>1
<1> HIDE DEF n
<1>2. Nth(S, n) \in S /\ Cardinality(Below(S, Nth(S, n))) = n - 1
  BY <1>1 DEF Nth
<1>3. Nth(S, n) = i  BY <1>1, <1>2, OneRank
<1> QED  BY <1>3 DEF n

\* Of the first k rules of rs, those that are seen at the pixel (x, y): no
\* opaque rule that touches the pixel comes after them.
Seen(rs, k, x, y) ==
    {p \in 1..k : /\ Touches(rs[p], x, y)
                  /\ \A q \in (p + 1)..k : Touches(rs[q], x, y) => rs[q].alpha # "opaque"}

\* Byte c of the pixel after the first k rules, for frame f of size d.
Drawing(f, d, rs, k, x, y, c) ==
    [n \in 1..Cardinality(Seen(rs, k, x, y)) |->
        <<f, SourceIndex(rs[Nth(Seen(rs, k, x, y), n)], d, x, y, c)>>]

\* No rule draws black.
LEMMA NothingDrawn ==
    ASSUME NEW f, NEW d, NEW rs, NEW x, NEW y, NEW c
    PROVE  Drawing(f, d, rs, 0, x, y, c) = <<>>
<1> DEFINE S == Seen(rs, 0, x, y)
           byte(n) == <<f, SourceIndex(rs[Nth(S, n)], d, x, y, c)>>
<1>1. S = {}  BY DEF Seen
<1> HIDE DEF S
<1>2. Cardinality(S) = 0  BY <1>1, FS_EmptySet
<1> HIDE DEF byte
<1>3. [n \in 1..0 |-> byte(n)] = <<>>  OBVIOUS
<1> QED  BY <1>2, <1>3 DEF Drawing, S, byte

\* What one more rule changes of it.
SeenGrows(rs, k, x, y) ==
    LET S == Seen(rs, k, x, y)
        R == Seen(rs, k + 1, x, y)
    IN  /\ ~ Touches(rs[k + 1], x, y) => R = S
        /\ Touches(rs[k + 1], x, y) /\ rs[k + 1].alpha = "opaque" => R = {k + 1}
        /\ Touches(rs[k + 1], x, y) /\ rs[k + 1].alpha # "opaque" => R = S \cup {k + 1}

LEMMA SeenNext ==
    ASSUME NEW rs, NEW k \in Nat, NEW x, NEW y
    PROVE  SeenGrows(rs, k, x, y)
<1> DEFINE t(p) == Touches(rs[p], x, y)
           o(p) == rs[p].alpha = "opaque"
           clear(p, n) == \A q \in (p + 1)..n : t(q) => ~ o(q)
<1>1. \A n : \A p : p \in Seen(rs, n, x, y) <=> p \in 1..n /\ t(p) /\ clear(p, n)
  BY DEF Seen
<1> HIDE DEF t, o
<1>2. \A p \in 1..k : clear(p, k + 1) <=> clear(p, k) /\ (t(k + 1) => ~ o(k + 1))
  OBVIOUS
<1>3. clear(k + 1, k + 1)  OBVIOUS
<1> HIDE DEF clear
<1>4. \A p : p \in 1..(k + 1) <=> p \in 1..k \/ p = k + 1  OBVIOUS
<1> DEFINE S == Seen(rs, k, x, y)
           R == Seen(rs, k + 1, x, y)
           m == k + 1
<1>5. /\ \A p : p \in R <=> (p \in 1..k \/ p = m) /\ t(p) /\ clear(p, m)
      /\ \A p : p \in S <=> p \in 1..k /\ t(p) /\ clear(p, k)
      /\ \A p \in 1..k : clear(p, m) <=> clear(p, k) /\ (t(m) => ~ o(m))
      /\ clear(m, m)
  BY <1>1, <1>2, <1>3, <1>4
<1> HIDE DEF S, R, m
<1>6. ~ t(m) => R = S  BY <1>5
<1>7. t(m) /\ o(m) => R = {m}  BY <1>5
<1>8. t(m) /\ ~ o(m) => R = S \cup {m}  BY <1>5
<1> QED  BY <1>6, <1>7, <1>8 DEF t, o, S, R, m, SeenGrows

\* A rule more is a byte mixed in where the rule touches.
DrawingGrows(f, d, rs, k, x, y, c) ==
    LET r   == rs[k + 1]
        was == Drawing(f, d, rs, k, x, y, c)
    IN  Drawing(f, d, rs, k + 1, x, y, c) =
            IF Touches(r, x, y) THEN Mix(<<f, SourceIndex(r, d, x, y, c)>>, was, r.alpha)
                                ELSE was

LEMMA DrawingNext ==
    ASSUME NEW f, NEW d, NEW rs, NEW k \in Nat, NEW x, NEW y, NEW c
    PROVE  DrawingGrows(f, d, rs, k, x, y, c)
<1> DEFINE S == Seen(rs, k, x, y)
           R == Seen(rs, k + 1, x, y)
           byte(p) == <<f, SourceIndex(rs[p], d, x, y, c)>>
<1>1. /\ Drawing(f, d, rs, k, x, y, c) = [n \in 1..Cardinality(S) |-> byte(Nth(S, n))]
      /\ Drawing(f, d, rs, k + 1, x, y, c) = [n \in 1..Cardinality(R) |-> byte(Nth(R, n))]
  BY DEF Drawing
<1>2. S \in SUBSET (1..k) /\ S \in SUBSET (1..(k + 1)) /\ k + 1 \in Nat
  BY DEF Seen
<1>0. /\ ~ Touches(rs[k + 1], x, y) => R = S
      /\ Touches(rs[k + 1], x, y) /\ rs[k + 1].alpha = "opaque" => R = {k + 1}
      /\ Touches(rs[k + 1], x, y) /\ rs[k + 1].alpha # "opaque" => R = S \cup {k + 1}
  <2>1. SeenGrows(rs, k, x, y)  BY SeenNext
  <2> QED  BY <2>1 DEF SeenGrows
<1>6. k + 1 \in Nat /\ ~ (k + 1 < k + 1) /\ \A p \in S : p \in Nat /\ p # k + 1 /\ p < k + 1
  BY <1>2
<1> HIDE DEF S, R, byte
<1>3. CASE ~ Touches(rs[k + 1], x, y)
  <2>1. R = S  BY <1>0, <1>3
  <2> QED  BY <1>1, <1>3, <2>1 DEF DrawingGrows
<1>4. CASE Touches(rs[k + 1], x, y) /\ rs[k + 1].alpha = "opaque"
  <2>1. R = {k + 1}  BY <1>0, <1>4
  <2>2. Cardinality(R) = 1 /\ Cardinality(Below(R, k + 1)) + 1 = 1
    <3>1. Below(R, k + 1) = {}  BY <1>6, <2>1 DEF Below
    <3>2. Cardinality(R) = 1  BY <2>1, FS_Singleton
    <3>3. Cardinality({}) = 0  BY FS_EmptySet
    <3> QED  BY <3>1, <3>2, <3>3
  <2>3. Nth(R, 1) = k + 1
    <3>1. R \in SUBSET (1..(k + 1)) /\ k + 1 \in R  BY <2>1
    <3> QED  BY <1>2, <2>2, <3>1, NthOfRank
  <2>4. [n \in 1..Cardinality(R) |-> byte(Nth(R, n))] = <<byte(k + 1)>>
    <3>1. 1..1 = {1}  OBVIOUS
    <3>2. \A n \in 1..1 : byte(Nth(R, n)) = byte(k + 1)  BY <2>3, <3>1
    <3> QED  BY <2>2, <3>2
  <2> QED  BY <1>1, <1>4, <2>4 DEF Mix, byte, DrawingGrows
<1>5. CASE Touches(rs[k + 1], x, y) /\ rs[k + 1].alpha # "opaque"
  <2>1. R = S \cup {k + 1} /\ k + 1 \notin S /\ R \in SUBSET (1..(k + 1))
    <3>1. R = S \cup {k + 1}  BY <1>0, <1>5
    <3> QED  BY <1>2, <1>6, <3>1
  <2>2. Cardinality(R) = Cardinality(S) + 1 /\ Cardinality(S) \in Nat
    BY <1>2, <2>1, FiniteBelow, FS_AddElement
  <2>3. Nth(R, Cardinality(S) + 1) = k + 1
    <3>1. \A p : p \in R /\ p < k + 1 <=> p \in S  BY <1>6, <2>1
    <3>2. Below(R, k + 1) = S /\ k + 1 \in R  BY <2>1, <3>1 DEF Below
    <3> QED  BY <1>2, <2>1, <3>2, NthOfRank
  <2>4. ASSUME NEW n \in 1..Cardinality(S) PROVE Nth(R, n) = Nth(S, n)
    <3> DEFINE i == Nth(S, n)
    <3>1. i \in S /\ Cardinality(Below(S, i)) = n - 1  BY <1>2, NthHasRank
    <3> HIDE DEF i
    <3>2. Below(R, i) = Below(S, i)
      <4>1. i \in 1..k /\ ~ (k + 1 < i)  BY <1>2, <3>1
      <4>2. \A j : j \in R /\ j < i <=> j \in S /\ j < i  BY <2>1, <4>1
      <4> QED  BY <4>2 DEF Below
    <3>3. Cardinality(Below(R, i)) + 1 = n /\ i \in R
      <4>1. Cardinality(Below(R, i)) = n - 1 /\ n \in Int  BY <3>1, <3>2
      <4>2. i \in R  BY <2>1, <3>1
      <4> QED  BY <4>1, <4>2
    <3>4. Nth(R, Cardinality(Below(R, i)) + 1) = i
      BY <1>2, <2>1, <3>3, NthOfRank
    <3> QED  BY <3>3, <3>4 DEF i
  <2> DEFINE u == Drawing(f, d, rs, k, x, y, c)
  <2>5. u = [n \in 1..Cardinality(S) |-> byte(Nth(S, n))]  BY <1>1
  <2> HIDE DEF u
  <2>6. Append(u, byte(k + 1)) = [n \in 1..Cardinality(R) |-> byte(Nth(R, n))]
    <3> DEFINE N == Cardinality(S)
               g(n) == byte(Nth(S, n))
               h(n) == byte(Nth(R, n))
    <3>1. N \in Nat /\ Cardinality(R) = N + 1 /\ h(N + 1) = byte(k + 1)
          /\ \A n \in 1..N : h(n) = g(n)
      BY <2>2, <2>3, <2>4
    <3>2. u = [n \in 1..N |-> g(n)]  BY <2>5
    <3> HIDE DEF N, g, h
    <3>3. Len(u) = N /\ \A n \in 1..N : u[n] = g(n)  BY <3>1, <3>2
    <3>4. Append(u, byte(k + 1)) =
            [n \in 1..(N + 1) |-> IF n = N + 1 THEN byte(k + 1) ELSE u[n]]
      BY <3>3
    <3>5. \A n \in 1..(N + 1) : (IF n = N + 1 THEN byte(k + 1) ELSE u[n]) = h(n)
      BY <3>1, <3>3
    <3>6. Append(u, byte(k + 1)) = [n \in 1..(N + 1) |-> h(n)]  BY <3>4, <3>5
    <3> QED  BY <3>1, <3>6 DEF h
  <2> QED  BY <1>1, <1>5, <2>6 DEF Mix, u, byte, DrawingGrows
<1> QED  BY <1>3, <1>4, <1>5

-----------------------------------------------------------------------------
(* The buffer is, after each rule, what the rules so far draw.             *)

\* Every rectangle lies in the frames, and the occlusion pass deletes nothing.
Plain == GoodRules /\ ~ (input.occlude /\ HasEmptyOpaque)

\* Each pixel of the buffer is what the first k rules, in their order, draw.
Painted(k) ==
    \A x \in 0..(input.tgtDim.width - 1), y \in 0..(input.tgtDim.height - 1),
       c \in 0..(BytesPerPixel - 1) :
        tgt[Addr(input.tgtDim, x, y, c)] = Drawing(fr, input.srcDim, rects, k, x, y, c)

\* The rules are sorted once and stay so, and the buffer is after each rule
\* what the rules applied so far draw.
PictureInv ==
    /\ pc \in {"header", "build"} => rects = input.rects
    /\ Plain /\ pc \in {"occlude", "start", "read", "process", "blit"}
         => rects \in SortRules(input.rects)
    /\ Plain /\ pc = "blit" =>
         /\ DOMAIN tgt = 0..(U32(CalcSize(input.tgtDim)) - 1) /\ IsFcn(tgt)
         /\ next \in 1..(Len(rects) + 1)
         /\ Painted(next - 1)

\* What the invariant gives of the call.
LEMMA PictureTypes ==
    ASSUME IInv
    PROVE  /\ input.srcDim \in Dim /\ input.tgtDim \in Dim /\ input.rects \in Seq(RuleRect)
           /\ GoodRules => /\ CalcStride(input.tgtDim) < Word
                           /\ CalcSize(input.tgtDim) < Word
BY InputAssumption DEF IInv, Input, GoodRules

\* A scan that ends has met no rule at which it stops.
LEMMA ScanEnds ==
    ASSUME NEW rs \in Seq(RuleRect), NEW d, NEW checks, ScanStop(rs, d, checks) = 0
    PROVE  \A i \in DOMAIN rs : rs[i].alpha # "over" /\ ~ ScanPanics(rs[i], d, checks)
<1> DEFINE stops == {i \in DOMAIN rs : rs[i].alpha = "over" \/ ScanPanics(rs[i], d, checks)}
<1> SUFFICES ASSUME stops # {} PROVE FALSE
  OBVIOUS
<1>1. stops \in SUBSET (1..Len(rs)) /\ Len(rs) \in Nat  OBVIOUS
<1>2. 0 = CHOOSE i \in stops : \A j \in stops : j <= i  BY DEF ScanStop
<1> HIDE DEF stops
<1>3. Max(stops) \in stops /\ \A j \in stops : Max(stops) >= j
  BY <1>1, Greatest
<1>4. \A j \in stops : j <= Max(stops)  BY <1>1, <1>3
<1>5. 0 \in stops  BY <1>2, <1>3, <1>4
<1> QED  BY <1>1, <1>5

\* The occlusion pass, when it returns, has deleted nothing.
LEMMA OcclusionKeeps ==
    ASSUME NEW rs \in Seq(RuleRect), NEW d, NEW checks, ScanStop(rs, d, checks) = 0,
           \A i \in DOMAIN rs : rs[i].alpha = "opaque" => rs[i].dim.width # 0
    PROVE  ToDelete(rs) = <<>> /\ Removed(rs, ToDelete(rs)) = rs
<1>1. ASSUME NEW i \in DOMAIN rs, rs[i].alpha = "opaque"
      PROVE  rs[i].dim.height = 0
  <2>1. rs[i].dim.width \in Nat /\ rs[i].dim.height \in Nat
    BY RuleFields DEF RuleRect, Dim
  <2>2. ~ ScanPanics(rs[i], d, checks)  BY ScanEnds
  <2> QED  BY <1>1, <2>1, <2>2 DEF ScanPanics
<1> QED  BY <1>1, NothingToDelete, NothingRemoved

\* A cleared buffer is what no rule draws.
LEMMA ClearedIsPainted ==
    ASSUME NEW d \in Dim, CalcStride(d) < Word, CalcSize(d) < Word, NEW s, NEW rs, NEW f
    PROVE  LET black == Black(U32(CalcSize(d)))
           IN  /\ DOMAIN black = 0..(U32(CalcSize(d)) - 1) /\ IsFcn(black)
               /\ \A x \in 0..(d.width - 1), y \in 0..(d.height - 1),
                     c \in 0..(BytesPerPixel - 1) :
                    black[Addr(d, x, y, c)] = Drawing(f, s, rs, 0, x, y, c)
<1> DEFINE black == Black(U32(CalcSize(d)))
           w == d.width
           h == d.height
           p == BytesPerPixel
<1>1. DOMAIN black = 0..(U32(CalcSize(d)) - 1) /\ IsFcn(black)
      /\ \A b \in 0..(U32(CalcSize(d)) - 1) : black[b] = <<>>
  BY DEF Black, IsFcn
<1>2. w \in Nat /\ h \in Nat /\ p \in Nat \ {0} /\ U32(CalcSize(d)) = w * h * p
  BY FitsInWord
<1> HIDE DEF black, w, h, p
<1>3. ASSUME NEW x \in 0..(w - 1), NEW y \in 0..(h - 1), NEW c \in 0..(p - 1)
      PROVE  black[Addr(d, x, y, c)] = Drawing(f, s, rs, 0, x, y, c)
  <2>1. Addr(d, x, y, c) \in 0..(w * h * p - 1)
    BY <1>2, AddrInside DEF Addr, w, p
  <2> QED  BY <1>1, <1>2, <2>1, NothingDrawn
<1> QED  BY <1>1, <1>3 DEF black, w, h, p

\* No rule is sorted or drawn yet.
LEMMA InitPicture == Init => PictureInv
BY DEF Init, PictureInv

\* A rule more, drawn into the buffer: what process_frame does in a step.
LEMMA BlitPaints ==
    ASSUME IInv, PictureInv, Plain, pc = "blit", next <= Len(rects), input' = input,
           rects' = rects, fr' = fr, next' = next + 1,
           tgt' = Blit(SrcBuf, tgt, rects[next], input.srcDim, input.tgtDim)
    PROVE  /\ DOMAIN tgt' = 0..(U32(CalcSize(input.tgtDim)) - 1) /\ IsFcn(tgt')
           /\ next' \in 1..(Len(rects') + 1)
           /\ Painted(next - 1)'
<1> DEFINE r == rects[next]
           sd == input.srcDim
           td == input.tgtDim
           new == Blit(FrameBytes(fr, sd), tgt, r, sd, td)
<1>1. GoodRules /\ rects \in SortRules(input.rects) /\ Painted(next - 1)
      /\ DOMAIN tgt = 0..(U32(CalcSize(td)) - 1) /\ IsFcn(tgt)
  BY DEF PictureInv, Plain
<1>2. sd \in Dim /\ td \in Dim /\ input.rects \in Seq(RuleRect)
      /\ CalcStride(td) < Word /\ CalcSize(td) < Word
  BY <1>1, PictureTypes
<1>3. CalcStride(sd) < Word /\ CalcSize(sd) < Word  BY <1>2, SourceFits DEF IInv
<1>4. rects \in Seq(RuleRect) /\ next \in Nat /\ next - 1 \in Nat /\ next - 1 + 1 = next
      /\ Len(rects) \in Nat
  BY <1>1, <1>2, SortKeeps DEF IInv
<1>5. r \in RuleRect /\ Within(r.ul, r.dim, sd) /\ Within(r.dest, r.dim, td)
  <2>1. next \in DOMAIN rects  BY <1>4 DEF IInv
  <2>2. PICK j \in DOMAIN input.rects : r = input.rects[j]
    BY <1>1, <1>2, <2>1, SortKeeps
  <2>3. input.rects[j] \in RuleRect  BY <1>2
  <2> QED  BY <1>1, <2>2, <2>3 DEF GoodRules
<1>6. tgt' = new  BY DEF SrcBuf, FrameBytes
<1> HIDE DEF r, sd, td
<1>7. DrawsPixels(new, fr, tgt, r, sd, td)  BY <1>1, <1>2, <1>3, <1>5, BlitPixel
<1> HIDE DEF new
<1>8. ASSUME NEW x \in 0..(td.width - 1), NEW y \in 0..(td.height - 1),
             NEW c \in 0..(BytesPerPixel - 1)
      PROVE  new[Addr(td, x, y, c)] = Drawing(fr, sd, rects, next, x, y, c)
  <2>1. tgt[Addr(td, x, y, c)] = Drawing(fr, sd, rects, next - 1, x, y, c)
    BY <1>1 DEF Painted, td, sd
  <2>2. DrawingGrows(fr, sd, rects, next - 1, x, y, c)  BY <1>4, DrawingNext
  <2> QED  BY <1>4, <1>7, <2>1, <2>2 DEF DrawingGrows, DrawsPixels, r
<1>9. Painted(next - 1)'
  <2>1. next' - 1 = next  BY <1>4
  <2> QED  BY <1>6, <1>8, <2>1 DEF Painted, sd, td
<1>10. DOMAIN tgt' = 0..(U32(CalcSize(input.tgtDim)) - 1) /\ IsFcn(tgt')
  BY <1>1, <1>6, <1>7 DEF DrawsPixels, td
<1>11. next' \in 1..(Len(rects') + 1)  BY <1>4
<1> QED  BY <1>9, <1>10, <1>11

\* Every step of the call keeps it.
LEMMA NextPicture == IInv /\ PictureInv /\ [Next]_vars => PictureInv'
<1> SUFFICES ASSUME IInv, PictureInv, [Next]_vars PROVE PictureInv'
  OBVIOUS
<1> USE DEF Goto
<1>0. input' = input => (Plain' <=> Plain)
  BY DEF Plain, GoodRules, HasEmptyOpaque
<1>1. CASE UNCHANGED vars
  BY <1>1 DEF vars, PictureInv, Plain, GoodRules, HasEmptyOpaque, Painted, IsFcn
<1>2. ASSUME pc' = "end" PROVE PictureInv'  BY <1>2 DEF PictureInv
<1>3. ASSUME NEW why, Stop(why) PROVE PictureInv'  BY <1>2, <1>3 DEF Stop
\* A step that leaves the sorted rules alone and the buffer to the next frame.
<1>4. ASSUME input' = input, pc \in {"occlude", "start", "read", "process", "blit"},
             pc' \in {"start", "read", "process"},
             Plain => rects' \in SortRules(input.rects)
      PROVE  PictureInv'
  BY <1>0, <1>4 DEF PictureInv
<1>5. ASSUME input' = input, pc \in {"occlude", "start", "read", "process", "blit"},
             pc' \in {"start", "read", "process"}, rects' = rects
      PROVE  PictureInv'
  BY <1>4, <1>5 DEF PictureInv
<1>6. CASE HeaderRefused  BY <1>3, <1>6 DEF HeaderRefused
<1>7. CASE ReadHeader  BY <1>7 DEF ReadHeader, PictureInv
<1>8. CASE BuildRefused  BY <1>3, <1>8 DEF BuildRefused
<1>9. CASE Build
  <2>1. rects' \in SortRules(input.rects) /\ input' = input /\ pc' \in {"occlude", "start"}
    BY <1>9 DEF Build, PictureInv
  <2> QED  BY <1>0, <2>1 DEF PictureInv
<1>10. CASE EliminateOcclusions
  <2>1. CASE \E why : Stop(why)  BY <1>3, <2>1
  <2>2. CASE ~ \E why : Stop(why)
    <3>1. /\ ScanStop(rects, input.tgtDim, input.checks) = 0
          /\ rects' \in (IF Len(ToDelete(rects)) < ResortThreshold
                         THEN {Removed(rects, ToDelete(rects))}
                         ELSE SortRules(Removed(rects, ToDelete(rects))))
          /\ pc = "occlude" /\ pc' = "start" /\ input' = input
      BY <1>10, <2>2 DEF EliminateOcclusions
    <3>2. ASSUME Plain PROVE rects' \in SortRules(input.rects)
      <4>1. rects \in SortRules(input.rects) /\ input.rects \in Seq(RuleRect)
        BY <3>1, <3>2, PictureTypes DEF PictureInv
      <4>2. rects \in Seq(RuleRect)
            /\ \A i \in DOMAIN rects :
                 \E j \in DOMAIN input.rects : rects[i] = input.rects[j]
        BY <4>1, SortKeeps
      <4>3. ~ HasEmptyOpaque  BY <3>1, <3>2 DEF Plain, IInv
      <4>4. \A i \in DOMAIN rects : rects[i].alpha = "opaque" => rects[i].dim.width # 0
        BY <4>2, <4>3 DEF HasEmptyOpaque
      <4>5. Removed(rects, ToDelete(rects)) = rects
        BY <3>1, <4>2, <4>4, OcclusionKeeps
      <4>6. rects' = rects \/ rects' \in SortRules(rects)  BY <3>1, <4>5
      <4> QED  BY <4>1, <4>6, SortTwice
    <3> QED  BY <1>4, <3>1, <3>2
  <2> QED  BY <2>1, <2>2
<1>11. CASE Start  BY <1>3, <1>5, <1>11 DEF Start
<1>12. CASE ReadFrame  BY <1>3, <1>5, <1>12 DEF ReadFrame
<1>13. CASE ClearTarget
  <2>1. /\ input' = input /\ rects' = rects /\ fr' = fr /\ pc = "process" /\ pc' = "blit"
        /\ tgt' = Black(U32(CalcSize(input.tgtDim))) /\ next' = 1
    BY <1>13 DEF ClearTarget
  <2>2. ASSUME Plain
        PROVE  /\ rects' \in SortRules(input.rects)
               /\ DOMAIN tgt' = 0..(U32(CalcSize(input.tgtDim)) - 1) /\ IsFcn(tgt')
               /\ next' \in 1..(Len(rects') + 1)
               /\ Painted(next - 1)'
    <3>1. rects \in SortRules(input.rects) /\ input.rects \in Seq(RuleRect) /\ GoodRules
          /\ input.srcDim \in Dim /\ input.tgtDim \in Dim
          /\ CalcStride(input.tgtDim) < Word /\ CalcSize(input.tgtDim) < Word
      BY <2>1, <2>2, PictureTypes DEF PictureInv, Plain
    <3>2. Len(rects) \in Nat  BY <3>1, SortKeeps
    <3>3. DOMAIN tgt' = 0..(U32(CalcSize(input.tgtDim)) - 1) /\ IsFcn(tgt')
          /\ \A x \in 0..(input.tgtDim.width - 1), y \in 0..(input.tgtDim.height - 1),
                c \in 0..(BytesPerPixel - 1) :
               tgt'[Addr(input.tgtDim, x, y, c)] =
                   Drawing(fr, input.srcDim, rects, 0, x, y, c)
      BY <2>1, <3>1, ClearedIsPainted
    <3>4. Painted(next - 1)'
      <4>1. next' - 1 = 0  BY <2>1
      <4> QED  BY <2>1, <3>3, <4>1 DEF Painted
    <3> QED  BY <2>1, <3>1, <3>2, <3>3, <3>4
  <2> QED  BY <1>0, <2>1, <2>2 DEF PictureInv, IsFcn
<1>14. CASE BlitRule
  <2>1. CASE Stop("panic")  BY <1>3, <2>1
  <2>2. CASE ~ Stop("panic")
    <3>1. /\ pc = "blit" /\ pc' = "blit" /\ next <= Len(rects) /\ input' = input
          /\ rects' = rects /\ fr' = fr /\ next' = next + 1
          /\ tgt' = Blit(SrcBuf, tgt, rects[next], input.srcDim, input.tgtDim)
      BY <1>14, <2>2 DEF BlitRule
    <3>2. ASSUME Plain
          PROVE  /\ rects' \in SortRules(input.rects)
                 /\ DOMAIN tgt' = 0..(U32(CalcSize(input.tgtDim)) - 1) /\ IsFcn(tgt')
                 /\ next' \in 1..(Len(rects') + 1)
                 /\ Painted(next - 1)'
      <4>1. rects' \in SortRules(input.rects)  BY <3>1, <3>2 DEF PictureInv
      <4> QED  BY <3>1, <3>2, <4>1, BlitPaints
    <3> QED  BY <1>0, <3>1, <3>2 DEF PictureInv, IsFcn
  <2> QED  BY <2>1, <2>2
<1>15. CASE WriteFrame  BY <1>3, <1>5, <1>15 DEF WriteFrame, Processed
<1>16. CASE Finish  BY <1>3, <1>16 DEF Finish
<1> QED
  BY <1>1, <1>6, <1>7, <1>8, <1>9, <1>10, <1>11, <1>12, <1>13, <1>14, <1>15, <1>16 DEF Next

-----------------------------------------------------------------------------
(* The order in which the rules are applied gives the layers.              *)

\* An injection keeps the size of a set.
LEMMA ImageSize ==
    ASSUME NEW D, NEW f \in Injection(D, D), NEW R \in SUBSET D, IsFiniteSet(R)
    PROVE  Cardinality({f[p] : p \in R}) = Cardinality(R)
<1> DEFINE I == {f[p] : p \in R}
           g == [p \in R |-> f[p]]
<1>1. \A p, q \in R : f[p] = f[q] => p = q  BY DEF Injection, IsInjective
<1>2. g \in Bijection(R, I)
  <2>1. g \in [R -> I] /\ \A p \in R : g[p] = f[p]  OBVIOUS
  <2>2. \A i \in I : \E p \in R : g[p] = i  OBVIOUS
  <2> HIDE DEF g, I
  <2> QED  BY <1>1, <2>1, <2>2 DEF Bijection, Injection, Surjection, IsInjective
<1>3. ExistsBijection(R, I)  BY <1>2 DEF ExistsBijection
<1> HIDE DEF I
<1> QED  BY <1>3, FS_Bijection DEF I

\* What the rules say of a pixel, from the rules as they were given, is what
\* the rules draw in the order in which they were sorted.
LEMMA CompositeIsDrawing ==
    ASSUME input.rects \in Seq(RuleRect), rects \in SortRules(input.rects),
           NEW x, NEW y, NEW c
    PROVE  Composite(x, y, c) = Drawing(fr, input.srcDim, rects, Len(rects), x, y, c)
<1> DEFINE given == input.rects
           N == Len(given)
           D == 1..N
           all == Touching(x, y)
           hidden == {i \in all : \E j \in all : Under(i, j) /\ given[j].alpha = "opaque"}
           byte(i) == <<fr, SourceIndex(given[i], input.srcDim, x, y, c)>>
           shown == all \ hidden
           under(i) == {j \in shown : Under(j, i)}
           at(n) == CHOOSE i \in shown : Cardinality(under(i)) = n - 1
           S == Seen(rects, N, x, y)
<1>1. PICK f : Sorts(f, given) /\ rects = [p \in DOMAIN given |-> given[f[p]]]
  BY SortedBy
<1>2. N \in Nat /\ D = DOMAIN given /\ Len(rects) = N /\ \A p \in D : rects[p] = given[f[p]]
  <2>1. rects \in Seq(RuleRect) /\ N \in Nat /\ D = DOMAIN given  BY SortKeeps
  <2>2. DOMAIN rects = D  BY <1>1, <2>1
  <2>3. Len(rects) = N  BY <2>1, <2>2
  <2> QED  BY <1>1, <2>1, <2>3
<1>3. /\ f \in Bijection(D, D) /\ f \in Injection(D, D)
      /\ \A p \in D : f[p] \in D
      /\ \A i \in D : \E p \in D : f[p] = i
      /\ \A p, q \in D : f[p] = f[q] => p = q
  <2>1. f \in Bijection(D, D)  BY <1>1, <1>2, SortPermutes
  <2> HIDE DEF D
  <2> QED  BY <2>1 DEF Bijection, Injection, Surjection, IsInjective
<1>4. \A p, q \in D : Under(f[p], f[q]) <=> p < q
  <2>1. \A p, q \in D : Before(given, f[p], f[q]) <=> p < q
    BY <1>1, <1>2, SortPermutes
  <2> QED  BY <1>2, <1>3, <2>1, UnderIsBefore
<1>5. Composite(x, y, c) = [n \in 1..Cardinality(shown) |-> byte(at(n))]
  BY DEF Composite, SourceIndex
<1>6. \A i : i \in all <=> i \in D /\ Touches(given[i], x, y)
  BY <1>2 DEF Touching, Touches
<1>7. \A p : p \in S <=> /\ p \in D /\ Touches(rects[p], x, y)
                         /\ \A q \in D : p < q /\ Touches(rects[q], x, y)
                                            => rects[q].alpha # "opaque"
  <2>1. \A p \in D : \A q : q \in (p + 1)..N <=> q \in D /\ p < q  BY <1>2
  <2> HIDE DEF D
  <2> QED  BY <2>1 DEF Seen, D
<1>8. S \in SUBSET D /\ IsFiniteSet(S)  BY <1>2, <1>7, FiniteBelow
<1> HIDE DEF given, N, D, all, byte, S
<1>9. \A p \in D : f[p] \in shown <=> p \in S
  <2> TAKE p \in D
  <2>1. f[p] \in all <=> Touches(rects[p], x, y)  BY <1>2, <1>3, <1>6
  <2>2. (\E j \in all : Under(f[p], j) /\ given[j].alpha = "opaque")
          <=> \E q \in D : p < q /\ Touches(rects[q], x, y) /\ rects[q].alpha = "opaque"
    <3>1. ASSUME NEW j \in all, Under(f[p], j), given[j].alpha = "opaque"
          PROVE  \E q \in D : p < q /\ Touches(rects[q], x, y) /\ rects[q].alpha = "opaque"
      <4>1. PICK q \in D : f[q] = j  BY <1>3, <1>6
      <4> QED  BY <1>2, <1>4, <1>6, <3>1, <4>1
    <3>2. ASSUME NEW q \in D, p < q, Touches(rects[q], x, y), rects[q].alpha = "opaque"
          PROVE  \E j \in all : Under(f[p], j) /\ given[j].alpha = "opaque"
      <4>1. f[q] \in all /\ Under(f[p], f[q]) /\ given[f[q]].alpha = "opaque"
        BY <1>2, <1>3, <1>4, <1>6, <3>2
      <4> QED  BY <4>1
    <3> QED  BY <3>1, <3>2
  <2> QED  BY <1>7, <2>1, <2>2
<1>10. \A i \in shown : i \in D  BY <1>6
<1> HIDE DEF shown
<1>11. shown = {f[p] : p \in S}  BY <1>3, <1>8, <1>9, <1>10
<1>12. Cardinality(shown) = Cardinality(S)  BY <1>3, <1>8, <1>11, ImageSize
<1>13. ASSUME NEW p \in S PROVE Cardinality(under(f[p])) = Cardinality(Below(S, p))
  <2>1. Below(S, p) \in SUBSET D /\ IsFiniteSet(Below(S, p))
    BY <1>2, <1>8, FiniteBelow DEF D, Below
  <2>2. under(f[p]) = {f[q] : q \in Below(S, p)}  BY <1>4, <1>8, <1>11 DEF Below
  <2> QED  BY <1>3, <2>1, <2>2, ImageSize
<1> HIDE DEF under
<1>14. ASSUME NEW n \in 1..Cardinality(S) PROVE at(n) = f[Nth(S, n)]
  <2> DEFINE m == Nth(S, n)
  <2>1. m \in S /\ Cardinality(Below(S, m)) = n - 1
    BY <1>2, <1>8, NthHasRank DEF D
  <2> HIDE DEF m
  <2>2. f[m] \in shown /\ Cardinality(under(f[m])) = n - 1
    BY <1>11, <1>13, <2>1
  <2>3. at(n) \in shown /\ Cardinality(under(at(n))) = n - 1  BY <2>2
  <2> HIDE DEF at
  <2>4. PICK p \in S : at(n) = f[p]  BY <1>11, <2>3
  <2>5. Cardinality(Below(S, p)) = n - 1  BY <1>13, <2>3, <2>4
  <2>6. p = m  BY <1>2, <1>8, <2>1, <2>5, OneRank DEF D
  <2> QED  BY <2>4, <2>6 DEF m
<1> HIDE DEF at
<1>15. ASSUME NEW n \in 1..Cardinality(S)
       PROVE  byte(at(n)) = <<fr, SourceIndex(rects[Nth(S, n)], input.srcDim, x, y, c)>>
  <2>1. Nth(S, n) \in D  BY <1>2, <1>8, NthHasRank DEF D
  <2> QED  BY <1>2, <1>14, <2>1 DEF byte
<1>16. Drawing(fr, input.srcDim, rects, N, x, y, c) =
         [n \in 1..Cardinality(S) |->
             <<fr, SourceIndex(rects[Nth(S, n)], input.srcDim, x, y, c)>>]
  BY DEF Drawing, S
<1> QED  BY <1>2, <1>5, <1>12, <1>15, <1>16

\* A frame is written as the rules say it, byte by byte of each pixel: for every
\* size of the frames, any number of rules and whatever their order in the file,
\* in either build, and with the occlusion pass when it has nothing to delete.
THEOREM FrameIsCompositeHolds == Spec => []FrameIsComposite
<1>1. IInv /\ PictureInv => FrameIsComposite
  <2> SUFFICES ASSUME IInv, PictureInv, Processed, Plain PROVE IsComposite
    BY DEF FrameIsComposite, Plain
  <2>1. input.rects \in Seq(RuleRect) /\ rects \in SortRules(input.rects)
    BY PictureTypes DEF PictureInv, Processed
  <2>2. Painted(Len(rects))
    <3>1. Len(rects) \in Nat  BY <2>1, SortKeeps
    <3>2. next - 1 = Len(rects)  BY <3>1 DEF Processed
    <3> QED  BY <3>2 DEF PictureInv, Processed
  <2> QED  BY <2>1, <2>2, CompositeIsDrawing DEF Painted, IsComposite, Addr
<1> QED  BY <1>1, InitIInv, NextIInv, InitPicture, NextPicture, PTL DEF Spec

-----------------------------------------------------------------------------
(* What the occlusion pass does with the rules it is made for.             *)

\* Some rule is opaque and has pixels.
HasOpaquePixel ==
    \E i \in DOMAIN input.rects : LET r == input.rects[i]
                                  IN  /\ r.alpha = "opaque"
                                      /\ r.dim.width > 0 /\ r.dim.height > 0

OcclusionDrawsNothing ==
    input.occlude /\ HasOpaquePixel => out = {} /\ result # "ok"

\* The call does not come past the pass, which sees the rules sorted.
OcclusionInv ==
    input.occlude /\ HasOpaquePixel =>
        /\ pc \in {"header", "build", "occlude", "end"}
        /\ pc = "build" => rects = input.rects
        /\ pc = "occlude" => rects \in SortRules(input.rects)
        /\ out = {} /\ result # "ok"

\* The scan stops at such a rule, wherever sorting has put it.
LEMMA OpaqueStopsScan ==
    ASSUME NEW d, NEW checks, input.rects \in Seq(RuleRect), HasOpaquePixel,
           rects \in SortRules(input.rects)
    PROVE  ScanStop(rects, d, checks) # 0
<1> DEFINE D == DOMAIN input.rects
<1>1. PICK f : Sorts(f, input.rects) /\ rects = [p \in D |-> input.rects[f[p]]]
  BY SortedBy
<1>2. PICK i \in D : input.rects[i].alpha = "opaque"
                    /\ input.rects[i].dim.width > 0 /\ input.rects[i].dim.height > 0
  BY DEF HasOpaquePixel
<1>3. PICK p \in D : f[p] = i
  <2>1. f \in Bijection(D, D)  BY <1>1, SortPermutes
  <2> HIDE DEF D
  <2> QED  BY <2>1 DEF Bijection, Surjection
<1>4. p \in DOMAIN rects /\ ScanPanics(rects[p], d, checks)
  BY <1>1, <1>2, <1>3 DEF ScanPanics
<1>5. rects \in Seq(RuleRect)  BY SortKeeps
<1> QED  BY <1>4, <1>5, ScanEnds

LEMMA NextOcclusion == IInv /\ PictureInv /\ OcclusionInv /\ [Next]_vars => OcclusionInv'
<1> SUFFICES ASSUME IInv, PictureInv, OcclusionInv, [Next]_vars PROVE OcclusionInv'
  OBVIOUS
<1> SUFFICES ASSUME input.occlude, HasOpaquePixel, input' = input PROVE OcclusionInv'
  <2>1. input' = input
    <3> USE DEF Stop, Goto
    <3>1. CASE HeaderRefused \/ ReadHeader \/ BuildRefused \/ Build
      BY <3>1 DEF HeaderRefused, ReadHeader, BuildRefused, Build
    <3>2. CASE EliminateOcclusions  BY <3>2 DEF EliminateOcclusions
    <3>3. CASE Start \/ ReadFrame \/ ClearTarget \/ WriteFrame \/ Finish
      BY <3>3 DEF Start, ReadFrame, ClearTarget, WriteFrame, Finish
    <3>4. CASE BlitRule  BY <3>4 DEF BlitRule
    <3>5. CASE UNCHANGED vars  BY <3>5 DEF vars
    <3> QED  BY <3>1, <3>2, <3>3, <3>4, <3>5 DEF Next
  <2> QED  BY <2>1 DEF OcclusionInv, HasOpaquePixel
<1>1. pc \in {"header", "build", "occlude", "end"} /\ out = {} /\ result # "ok"
  BY DEF OcclusionInv
<1>2. CASE UNCHANGED vars  BY <1>2 DEF vars, OcclusionInv
<1>3. ASSUME NEW why, why # "ok", Stop(why) PROVE OcclusionInv'
  BY <1>1, <1>3 DEF Stop, OcclusionInv
<1>4. CASE HeaderRefused  BY <1>3, <1>4 DEF HeaderRefused, Fault
<1>5. CASE ReadHeader
  BY <1>1, <1>5 DEF ReadHeader, Goto, PictureInv, OcclusionInv
<1>6. CASE BuildRefused  BY <1>3, <1>6 DEF BuildRefused
<1>7. CASE Build
  BY <1>1, <1>7 DEF Build, Goto, PictureInv, OcclusionInv
<1>8. CASE EliminateOcclusions
  <2>1. pc = "occlude" /\ rects \in SortRules(input.rects)
    BY <1>8 DEF EliminateOcclusions, OcclusionInv
  <2>2. ScanStop(rects, input.tgtDim, input.checks) # 0
    BY <2>1, PictureTypes, OpaqueStopsScan
  <2>3. \E why \in {"panic", "InvalidAlpha"} : Stop(why)
    BY <1>8, <2>2 DEF EliminateOcclusions
  <2> QED  BY <1>3, <2>3
<1>9. CASE Start \/ ReadFrame \/ ClearTarget \/ BlitRule \/ WriteFrame \/ Finish
  BY <1>1, <1>9 DEF Start, ReadFrame, ClearTarget, BlitRule, WriteFrame, Processed, Finish
<1> QED  BY <1>2, <1>4, <1>5, <1>6, <1>7, <1>8, <1>9 DEF Next

\* The finding of the run spstsc_occlude for every size and number of rules and
\* frames, and in either build: with the occlusion pass, a rule that is opaque
\* and has pixels makes the call fail before it writes a frame.
THEOREM OcclusionDrawsNothingHolds == Spec => []OcclusionDrawsNothing
<1>1. Init => OcclusionInv  BY DEF Init, OcclusionInv
<1>2. OcclusionInv => OcclusionDrawsNothing  BY DEF OcclusionInv, OcclusionDrawsNothing
<1> QED
  BY <1>1, <1>2, InitIInv, NextIInv, InitPicture, NextPicture, NextOcclusion, PTL DEF Spec
=============================================================================
