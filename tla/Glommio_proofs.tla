---------------------------- MODULE Glommio_proofs ----------------------------
(***************************************************************************)
(* Safety of the Glommio engine for every length of a file and every fault.*)
(*                                                                         *)
(* The loops hand blocks from read to process to write one pass after the  *)
(* other, so what each stack holds is a function of the frame they are at: *)
(* TableInv is that table, one line per place in the code, with the first  *)
(* passes as the special cases they are.  What the other executor has is   *)
(* not a function of the frame, but the order of the blocks on their way   *)
(* through it is (Pipe).  The table gives what a step of the loop writes;  *)
(* BlocksInv, that written, lost and waiting blocks make up those read;    *)
(* ReachInv, how far from its place one was written; and BuffersInv, that  *)
(* the stacks of free buffers hold what the next pops take.                *)
(* The table also says that what an executor waits for is with the other   *)
(* one (NeverStuckHolds), and how much is left to do (StepsBounded).       *)
(***************************************************************************)
EXTENDS Glommio, SequenceTheorems, FiniteSetTheorems, Integers, TLAPS

-----------------------------------------------------------------------------
(* Short sequences, and what a sequence holds. *)

\* A stack with one block.
LEMMA One ==
  ASSUME NEW x
  PROVE  /\ Len(<<x>>) = 1 /\ <<x>> # << >> /\ Head(<<x>>) = x /\ Tail(<<x>>) = << >>
         /\ Last(<<x>>) = x /\ Front(<<x>>) = << >>
         /\ ToSet(<<x>>) = {x} /\ Append(<< >>, x) = <<x>>
BY DEF Last, Front, ToSet

\* A stack of two or three blocks is what its elements are.
LEMMA PairIs ==
  ASSUME NEW S, NEW s \in Seq(S), Len(s) = 2
  PROVE  s = <<s[1], s[2]>>
<1> DEFINE t == <<s[1], s[2]>>
<1>1. s[1] \in S /\ s[2] \in S
  <2>1. 1 \in 1..Len(s) /\ 2 \in 1..Len(s)
    OBVIOUS
  <2> QED
    BY <2>1, ElementOfSeq
<1>2. t \in Seq(S) /\ Len(t) = 2 /\ t[1] = s[1] /\ t[2] = s[2]
  BY <1>1
<1> HIDE DEF t
<1>3. \A i \in 1..Len(s) : s[i] = t[i]
  BY <1>2
<1>4. s = t
  BY <1>2, <1>3, SeqEqual
<1> QED
  BY <1>4 DEF t

LEMMA TripleIs ==
  ASSUME NEW S, NEW s \in Seq(S), Len(s) = 3
  PROVE  s = <<s[1], s[2], s[3]>>
<1> DEFINE t == <<s[1], s[2], s[3]>>
<1>1. s[1] \in S /\ s[2] \in S /\ s[3] \in S
  BY SMTT(30)
<1>2. t \in Seq(S) /\ Len(t) = 3 /\ t[1] = s[1] /\ t[2] = s[2] /\ t[3] = s[3]
  BY <1>1
<1> HIDE DEF t
<1>3. \A i \in 1..Len(s) : s[i] = t[i]
  BY <1>2
<1>4. s = t
  BY <1>2, <1>3, SeqEqual
<1> QED
  BY <1>4 DEF t

LEMMA SingleIs ==
  ASSUME NEW S, NEW s \in Seq(S), Len(s) = 1
  PROVE  s = <<s[1]>>
OBVIOUS

\* A stack with two blocks.
LEMMA Two ==
  ASSUME NEW x, NEW y
  PROVE  /\ Len(<<x, y>>) = 2 /\ <<x, y>> # << >>
         /\ Head(<<x, y>>) = x /\ Tail(<<x, y>>) = <<y>>
         /\ Last(<<x, y>>) = y /\ ToSet(<<x, y>>) = {x, y}
<1>1. Len(<<x, y>>) = 2 /\ <<x, y>> # << >> /\ Head(<<x, y>>) = x
  OBVIOUS
<1>2. Tail(<<x, y>>) = <<y>>
  OBVIOUS
<1>3. Last(<<x, y>>) = y
  BY DEF Last
<1>4. ToSet(<<x, y>>) = {x, y}
  BY DEF ToSet
<1> QED
  BY <1>1, <1>2, <1>3, <1>4

LEMMA FrontOfTwo == ASSUME NEW x, NEW y PROVE Front(<<x, y>>) = <<x>>
<1>1. /\ Front(<<x, y>>) \in Seq({x, y}) /\ Len(Front(<<x, y>>)) = 1
      /\ Front(<<x, y>>)[1] = x
  BY DEF Front
<1> QED
  BY <1>1

LEMMA ReverseTwo == ASSUME NEW x, NEW y PROVE Reverse(<<x, y>>) = <<y, x>>
BY DEF Reverse

LEMMA PairUp == ASSUME NEW x, NEW y PROVE <<x>> \o <<y>> = <<x, y>>
<1> DEFINE s == <<x>> \o <<y>>
<1>1. <<x>> \in Seq({x, y}) /\ <<y>> \in Seq({x, y})
  OBVIOUS
<1>2. s \in Seq({x, y}) /\ Len(s) = 2 /\ s[1] = x /\ s[2] = y
  BY <1>1, ConcatProperties
<1>3. s = <<s[1], s[2]>>
  BY ONLY <1>2, PairIs
<1> QED
  BY <1>2, <1>3

LEMMA Three ==
  ASSUME NEW x, NEW y, NEW z
  PROVE  /\ Len(<<x, y, z>>) = 3 /\ Head(<<x, y, z>>) = x
         /\ Tail(<<x, y, z>>) = <<y, z>>
OBVIOUS

LEMMA ThreeHolds ==
  ASSUME NEW x, NEW y, NEW z
  PROVE  ToSet(<<x, y, z>>) = {x, y, z}
BY DEF ToSet

\* A third block behind two.
LEMMA AppendThird ==
  ASSUME NEW x, NEW y, NEW z
  PROVE  Append(<<x, y>>, z) = <<x, y, z>>
<1> DEFINE s == Append(<<x, y>>, z)
<1>1. <<x, y>> \in Seq({x, y, z}) /\ Len(<<x, y>>) = 2
  OBVIOUS
<1>2. s \in Seq({x, y, z}) /\ Len(s) = 3 /\ s[1] = x /\ s[2] = y /\ s[3] = z
  BY <1>1
<1>3. s = <<s[1], s[2], s[3]>>
  BY ONLY <1>2, TripleIs
<1> QED
  BY <1>2, <1>3

\* An empty stack holds nothing.
LEMMA Nil ==
  /\ Len(<< >>) = 0 /\ ToSet(<< >>) = {}
BY DEF ToSet

\* Two sequences put together hold what the two hold.
LEMMA ToSetConcat ==
  ASSUME NEW S, NEW s \in Seq(S), NEW t \in Seq(S)
  PROVE  ToSet(s \o t) = ToSet(s) \cup ToSet(t)
<1>1. s \o t \in Seq(S) /\ Len(s \o t) = Len(s) + Len(t) /\ Len(s) \in Nat /\ Len(t) \in Nat
  BY ConcatProperties, LenProperties
<1>2. ASSUME NEW x \in ToSet(s \o t) PROVE x \in ToSet(s) \cup ToSet(t)
  <2>1. PICK i \in 1..(Len(s) + Len(t)) : x = (s \o t)[i]
    BY <1>1 DEF ToSet
  <2>2. x = IF i <= Len(s) THEN s[i] ELSE t[i - Len(s)]
    BY <2>1, ConcatProperties
  <2> QED
    BY <1>1, <2>2 DEF ToSet
<1>3. ASSUME NEW x \in ToSet(s) PROVE x \in ToSet(s \o t)
  <2>1. PICK i \in 1..Len(s) : x = s[i]
    BY <1>1 DEF ToSet
  <2>2. x = (s \o t)[i] /\ i \in 1..Len(s \o t)
    BY <1>1, <2>1, ConcatProperties
  <2> QED
    BY <1>1, <2>2 DEF ToSet
<1>4. ASSUME NEW x \in ToSet(t) PROVE x \in ToSet(s \o t)
  <2>1. PICK i \in 1..Len(t) : x = t[i]
    BY <1>1 DEF ToSet
  <2>2. x = (s \o t)[i + Len(s)] /\ i + Len(s) \in 1..Len(s \o t)
    BY <1>1, <2>1, ConcatProperties
  <2> QED
    BY <1>1, <2>2 DEF ToSet
<1> QED
  BY <1>2, <1>3, <1>4

\* Two sequences of blocks put together hold what the two hold.
LEMMA Joined ==
  ASSUME NEW s \in Seq(Frames), NEW t \in Seq(Frames)
  PROVE  /\ s \o t \in Seq(Frames) /\ Len(s \o t) = Len(s) + Len(t)
         /\ ToSet(s \o t) = ToSet(s) \cup ToSet(t)
BY ConcatProperties, ToSetConcat

\* A sequence is its head and what follows, and the other way round.
LEMMA HeadThenTail ==
  ASSUME NEW S, NEW s \in Seq(S), s # << >>
  PROVE  /\ <<Head(s)>> \in Seq(S) /\ Tail(s) \in Seq(S)
         /\ <<Head(s)>> \o Tail(s) = s
<1>1. Head(s) \in S /\ Tail(s) \in Seq(S) /\ Len(s) \in Nat \ {0} /\ Head(s) = s[1]
  BY HeadTailProperties, EmptySeq
<1>2. 1 \in 1..Len(s) /\ Len(s) \in 1..Len(s) /\ 2 \in Int
  BY <1>1
<1>3. SubSeq(s, 1, Len(s)) = <<s[1]>> \o SubSeq(s, 1 + 1, Len(s))
  BY <1>2, SubSeqRecursiveFirst
<1>4. SubSeq(s, 1, Len(s)) = s /\ SubSeq(s, 1 + 1, Len(s)) = Tail(s)
  BY SubSeqFull, TailIsSubSeq
<1> QED
  BY <1>1, <1>3, <1>4

LEMMA HeadTailOfThis ==
  ASSUME NEW S, NEW h \in S, NEW q \in Seq(S)
  PROVE  /\ <<h>> \o q # << >> /\ Head(<<h>> \o q) = h /\ Tail(<<h>> \o q) = q
<1> DEFINE p == <<h>> \o q
<1>1. <<h>> \in Seq(S) /\ Len(<<h>>) = 1 /\ <<h>>[1] = h /\ Len(q) \in Nat
  OBVIOUS
<1>2. /\ p \in Seq(S) /\ Len(p) = 1 + Len(q)
      /\ \A i \in 1..1 + Len(q) : p[i] = IF i <= 1 THEN <<h>>[i] ELSE q[i - 1]
  BY <1>1, ConcatProperties
<1> HIDE DEF p
<1>3. p # << >> /\ p[1] = h
  BY <1>1, <1>2
<1>4. /\ Tail(p) \in Seq(S) /\ Len(Tail(p)) = Len(q) /\ Head(p) = p[1]
      /\ \A i \in 1..Len(Tail(p)) : Tail(p)[i] = p[i + 1]
  BY <1>1, <1>2, <1>3, HeadTailProperties
<1>5. \A i \in 1..Len(q) : i + 1 \in 1..1 + Len(q) /\ ~(i + 1 <= 1) /\ i + 1 - 1 = i
  BY <1>1
<1>6. \A i \in 1..Len(Tail(p)) : Tail(p)[i] = q[i]
  BY <1>2, <1>4, <1>5
<1>7. Tail(p) = q
  BY <1>4, <1>6, SeqEqual
<1> QED
  BY <1>3, <1>4, <1>7 DEF p

\* A block is put behind the others.
LEMMA AppendThis ==
  ASSUME NEW S, NEW s \in Seq(S), NEW x \in S
  PROVE  /\ <<x>> \in Seq(S) /\ Append(s, x) \in Seq(S) /\ Append(s, x) = s \o <<x>>
         /\ Len(Append(s, x)) = Len(s) + 1
         /\ ToSet(Append(s, x)) = ToSet(s) \cup {x}
<1>1. <<x>> \in Seq(S) /\ Len(<<x>>) = 1 /\ <<x>>[1] = x
  OBVIOUS
<1>2. /\ Append(s, x) \in Seq(S) /\ Len(Append(s, x)) = Len(s) + 1 /\ Len(s) \in Nat
      /\ \A i \in 1..Len(s) + 1 : Append(s, x)[i] = IF i <= Len(s) THEN s[i] ELSE x
  OBVIOUS
<1>3. /\ s \o <<x>> \in Seq(S) /\ Len(s \o <<x>>) = Len(s) + 1
      /\ \A i \in 1..Len(s) + 1 : (s \o <<x>>)[i] = IF i <= Len(s) THEN s[i] ELSE x
  <2>1. /\ s \o <<x>> \in Seq(S) /\ Len(s \o <<x>>) = Len(s) + Len(<<x>>)
        /\ \A i \in 1..Len(s) + Len(<<x>>) :
             (s \o <<x>>)[i] = IF i <= Len(s) THEN s[i] ELSE <<x>>[i - Len(s)]
    BY <1>1, ConcatProperties
  <2>2. \A i \in 1..Len(s) + 1 : ~(i <= Len(s)) => i - Len(s) = 1
    BY <1>2
  <2> QED
    BY SMTT(30), <1>1, <2>1, <2>2
<1>4. Append(s, x) = s \o <<x>>
  <2> DEFINE a == Append(s, x)
             c == s \o <<x>>
  <2>1. /\ a \in Seq(S) /\ c \in Seq(S) /\ Len(a) = Len(s) + 1 /\ Len(c) = Len(s) + 1
        /\ \A i \in 1..Len(s) + 1 : a[i] = c[i]
    BY <1>2, <1>3
  <2> HIDE DEF a, c
  <2>2. a = c
    BY <2>1, SeqEqual
  <2> QED
    BY <2>2 DEF a, c
<1>5. ToSet(s \o <<x>>) = ToSet(s) \cup {x}
  <2>1. ToSet(s \o <<x>>) = ToSet(s) \cup ToSet(<<x>>)
    BY <1>1, ToSetConcat
  <2> QED
    BY <2>1, One
<1> QED
  BY <1>1, <1>2, <1>4, <1>5

-----------------------------------------------------------------------------
(* The two channels and the block between them. *)

BlockOf(pc, b) == IF pc \in {"send", "panicked"} THEN <<b>> ELSE << >>

\* The blocks sent to the worker and not received back, the next one first.
Pipe == w2m \o (BlockOf(worker.pc, worker.block) \o m2w)

\* The parts of the pipe are sequences of blocks.
LEMMA PipeParts ==
  ASSUME TypeOK
  PROVE  /\ w2m \in Seq(Frames) /\ m2w \in Seq(Frames)
         /\ BlockOf(worker.pc, worker.block) \in Seq(Frames)
         /\ BlockOf(worker.pc, worker.block) \o m2w \in Seq(Frames)
         /\ Pipe \in Seq(Frames)
<1>1. w2m \in Seq(Frames) /\ m2w \in Seq(Frames) /\ worker.block \in Frames
  BY DEF TypeOK
<1>2. BlockOf(worker.pc, worker.block) \in Seq(Frames)
  BY <1>1 DEF BlockOf
<1> QED
  BY <1>1, <1>2, ConcatProperties DEF Pipe

\* The worker moves blocks along.
LEMMA PipeRecv ==
  ASSUME TypeOK, WorkerRecv
  PROVE  Pipe' = Pipe
<1>1. /\ worker.pc = "recv" /\ worker'.pc = "send" /\ worker'.block = Head(m2w)
      /\ m2w # << >> /\ m2w' = Tail(m2w) /\ w2m' = w2m /\ m2w \in Seq(Frames)
  BY PipeParts DEF WorkerRecv
<1>2. BlockOf(worker.pc, worker.block) \o m2w = m2w
  BY <1>1, ConcatEmptySeq DEF BlockOf
<1>3. BlockOf(worker'.pc, worker'.block) \o m2w' = m2w
  BY <1>1, HeadThenTail DEF BlockOf
<1> QED
  BY <1>1, <1>2, <1>3 DEF Pipe

LEMMA PipeSend ==
  ASSUME TypeOK, WorkerSend
  PROVE  Pipe' = Pipe
<1>1. /\ worker.pc = "send" /\ worker'.pc = "recv" /\ worker'.block = worker.block
      /\ m2w' = m2w /\ w2m' = Append(w2m, worker.block)
      /\ w2m \in Seq(Frames) /\ m2w \in Seq(Frames) /\ worker.block \in Frames
  BY PipeParts DEF WorkerSend, WorkerGoes, TypeOK
<1>2. w2m' = w2m \o <<worker.block>> /\ <<worker.block>> \in Seq(Frames)
  BY <1>1, AppendThis
<1>3. Pipe = (w2m \o <<worker.block>>) \o m2w
  BY <1>1, <1>2, ConcatAssociative DEF Pipe, BlockOf
<1>4. BlockOf(worker'.pc, worker'.block) \o m2w' = m2w
  BY <1>1, ConcatEmptySeq DEF BlockOf
<1> QED
  BY <1>2, <1>3, <1>4 DEF Pipe

LEMMA PipePanics ==
  ASSUME TypeOK, WorkerPanics
  PROVE  Pipe' = Pipe
BY DEF TypeOK, WorkerPanics, WorkerGoes, Pipe, BlockOf

LEMMA PipeEnds ==
  ASSUME TypeOK, WorkerEnds
  PROVE  Pipe' = Pipe
BY DEF TypeOK, WorkerEnds, WorkerGoes, Pipe, BlockOf

\* The reading executor receives from the one and sends to the other.
LEMMA PipeTake ==
  ASSUME TypeOK, w2m # << >>, w2m' = Tail(w2m), UNCHANGED <<worker, m2w>>
  PROVE  /\ Head(w2m) = Head(Pipe) /\ Pipe' = Tail(Pipe) /\ Pipe # << >>
         /\ Head(w2m) \in Frames /\ Pipe' \in Seq(Frames) /\ w2m' \in Seq(Frames)
         /\ Pipe = <<Head(w2m)>> \o Pipe'
         /\ Len(Pipe) = 1 + Len(Pipe') /\ ToSet(Pipe) = {Head(w2m)} \cup ToSet(Pipe')
<1> DEFINE rest == BlockOf(worker.pc, worker.block) \o m2w
<1>1. w2m \in Seq(Frames) /\ rest \in Seq(Frames)
  BY PipeParts
<1>2. Pipe = w2m \o rest /\ Pipe' = Tail(w2m) \o rest
  BY DEF Pipe
<1> HIDE DEF rest
<1>3. /\ w2m = <<Head(w2m)>> \o Tail(w2m) /\ Tail(w2m) \in Seq(Frames)
      /\ <<Head(w2m)>> \in Seq(Frames) /\ Head(w2m) \in Frames
  BY <1>1, HeadThenTail, HeadTailProperties
<1>4. Pipe = <<Head(w2m)>> \o Pipe' /\ Pipe' \in Seq(Frames)
  BY <1>1, <1>2, <1>3, ConcatAssociative, ConcatProperties
<1> DEFINE p == Pipe
           q == Pipe'
           h == Head(w2m)
<1>5. p = <<h>> \o q /\ q \in Seq(Frames) /\ h \in Frames
  BY <1>3, <1>4
<1> HIDE DEF p, q, h
<1>6. Head(p) = h /\ Tail(p) = q /\ p # << >>
  BY <1>5, HeadTailOfThis
<1>7. Len(p) = 1 + Len(q) /\ ToSet(p) = {h} \cup ToSet(q)
  <2>1. <<h>> \in Seq(Frames) /\ Len(<<h>>) = 1
    BY <1>5
  <2>2. Len(p) = Len(<<h>>) + Len(q) /\ ToSet(p) = ToSet(<<h>>) \cup ToSet(q)
    BY <1>5, <2>1, Joined
  <2> QED
    BY <2>1, <2>2, One
<1> QED
  BY <1>3, <1>4, <1>6, <1>7 DEF p, q, h

LEMMA PipePut ==
  ASSUME TypeOK, NEW s \in Seq(Frames), m2w' = m2w \o s, UNCHANGED <<worker, w2m>>
  PROVE  Pipe' = Pipe \o s
<1> DEFINE b == BlockOf(worker.pc, worker.block)
<1>1. /\ w2m \in Seq(Frames) /\ b \in Seq(Frames) /\ m2w \in Seq(Frames)
      /\ b \o m2w \in Seq(Frames) /\ s \in Seq(Frames)
  BY PipeParts
<1>2. Pipe' = w2m \o (b \o (m2w \o s)) /\ Pipe = w2m \o (b \o m2w)
  BY DEF Pipe
<1> HIDE DEF b
<1>3. b \o (m2w \o s) = (b \o m2w) \o s
  BY ONLY SMTT(30), <1>1, ConcatAssociative
<1> DEFINE c == b \o m2w
<1>4. w2m \o (c \o s) = (w2m \o c) \o s
  <2>1. w2m \in Seq(Frames) /\ c \in Seq(Frames) /\ s \in Seq(Frames)
    BY <1>1
  <2> HIDE DEF c
  <2> QED
    BY ONLY SMTT(30), <2>1, ConcatAssociative
<1> QED
  BY <1>2, <1>3, <1>4

LEMMA PipeSame == UNCHANGED <<worker, m2w, w2m>> => Pipe' = Pipe
BY DEF Pipe

-----------------------------------------------------------------------------
(* What the stacks hold, by where the reading executor is. *)

\* The group on out_stack, if any.
OutGroup == IF outStack = << >> THEN << >> ELSE Last(outStack)

\* The loop for frame f finds a group on out_stack, and this one.
Grouped(f) == f >= (IF input.mt THEN 4 ELSE 1)
Group(f) ==
    IF input.mt THEN IF f = 4 THEN <<3, 0>> ELSE IF f = 6 THEN <<2, 1>> ELSE <<f - 3, f - 4>>
                ELSE IF f = 1 THEN <<0>> ELSE <<f - 2>>
OutAt(f) == IF Grouped(f) THEN <<Group(f)>> ELSE << >>
\* What waits to be processed, and what the other executor has.
ProcAt(f) ==
    IF input.mt THEN IF f >= 6 THEN <<f - 2, f - 1>> ELSE << >>
                ELSE IF f >= 2 THEN <<f - 1>> ELSE << >>
PipeAt(f) ==
    IF ~input.mt THEN << >>
    ELSE IF f = 2 THEN <<0, 1>> ELSE IF f = 4 THEN <<1, 2>> ELSE << >>
\* The pair the other executor and proc_done make up in a later pass.
PairAt(f) == IF f = 4 THEN <<1, 2>> ELSE <<f - 2, f - 1>>

\* The frames pairs start at; a lone executor has no channel, and a worker that
\* ended was given no more blocks.
WorkersInv ==
    /\ input.mt => exe.fr \in {0, 2, 4, 6} \/ exe.fr >= 8
    /\ ~input.mt => /\ worker.pc = "recv" /\ w2m = << >> /\ m2w = << >>
                    /\ exe.pc \notin {"receive", "drain"}
    /\ worker.pc = "done" => m2w = << >> /\ ~MainHasSender

\* The table, by the place of the executor.
LoopInv ==
    exe.pc = "loop" =>
        /\ outStack = OutAt(exe.fr) /\ procStack = ProcAt(exe.fr)
        /\ procDone = << >> /\ held = << >>
        /\ Pipe = PipeAt(exe.fr) /\ read = exe.fr /\ lost = {}

ReceiveInv ==
    exe.pc = "receive" =>
        /\ exe.fr < input.total
        /\ outStack = << >> /\ procStack = << >> /\ lost = {}
        /\ \/ /\ exe.fr = 2 /\ held = << >> /\ procDone = <<3>>
              /\ Pipe = <<0, 1, 2>> /\ read = 4
           \/ /\ exe.fr >= 4 /\ held = Group(exe.fr)
              /\ procDone \o Pipe = PairAt(exe.fr) /\ read = exe.fr

FinishInv ==
    exe.pc = "finish" =>
        /\ exe.fr < input.total /\ Grouped(exe.fr) /\ exe.fr >= 2
        /\ outStack = <<Group(exe.fr + Width)>> /\ held = Group(exe.fr)
        /\ procStack = << >> /\ procDone = << >> /\ Pipe = << >>
        /\ read = exe.fr /\ lost = {}

TailInv ==
    exe.pc = "tail" =>
        /\ outStack = OutAt(exe.fr) /\ Pipe = PipeAt(exe.fr)
        /\ \/ procStack \in {<< >>, ProcAt(exe.fr)}
           \/ input.mt /\ exe.fr >= 6 /\ procStack = <<exe.fr - 2>>

DrainInv ==
    exe.pc = "drain" =>
        /\ outStack = OutAt(exe.fr) /\ procStack = << >>
        /\ \/ Pipe \in {<< >>, PipeAt(exe.fr)}
           \/ exe.fr = 2 /\ Pipe = <<1>>
           \/ exe.fr = 4 /\ Pipe = <<2>>

FlushInv ==
    /\ exe.pc = "flush" => outStack \in {<< >>, OutAt(exe.fr)}
    /\ exe.pc = "done" => outStack = << >>
    /\ exe.pc \in {"flush", "done"} => procStack = << >> /\ (WorkerUp => Pipe = << >>)

\* After the loop nothing is read any more.
EndInv ==
    exe.pc \in {"tail", "drain", "flush", "done"} =>
        held = << >> /\ procDone = << >> /\ read = exe.fr

TableInv ==
    /\ WorkersInv /\ LoopInv /\ ReceiveInv /\ FinishInv
    /\ TailInv /\ DrainInv /\ FlushInv /\ EndInv

\* The blocks read and neither written nor lost.
Rest == ToSet(OutGroup) \cup ToSet(procStack) \cup ToSet(procDone) \cup ToSet(held)
        \cup ToSet(Pipe)

Waiting == Len(OutGroup) + Len(procStack) + Len(procDone) + Len(held) + Len(Pipe)

\* What is written, lost and waiting is what was read, each block once.
BlocksInv ==
    /\ Len(out) + Cardinality(lost) + Waiting = read
    /\ ToSet(out) \cup lost \cup Rest = 0..(read - 1)
    /\ lost \cap Rest = {}
    /\ read <= input.present

LiveInv == exe.pc # "panicked" => TableInv /\ BlocksInv

\* Block b may be written in place i.
Near(i, b) == i <= b + 1 + Reach /\ b + 1 <= i + Reach

ReachInv == lost = {} /\ WorkerUp => \A i \in DOMAIN out : Near(i, out[i])

\* The buffers free and made.
Buf(b, f, m) == b.free = f /\ b.made = m

BuffersInv ==
    LET f == exe.fr IN
    /\ src.made <= 2 * Width /\ tgt.made <= 2 * Width
    /\ exe.pc = "loop" /\ ~input.mt =>
         /\ Buf(src, IF f = 1 \/ f >= 3 THEN 1 ELSE 0, IF f < 2 THEN f ELSE IF f = 2 THEN 1 ELSE 2)
         /\ Buf(tgt, IF f >= 3 THEN 1 ELSE 0, IF f = 0 THEN 0 ELSE IF f <= 2 THEN 1 ELSE 2)
    /\ exe.pc = "finish" /\ ~input.mt => Buf(src, 1, 2) /\ Buf(tgt, 0, 2)
    /\ exe.pc = "loop" /\ input.mt =>
         /\ Buf(src, IF f >= 4 THEN 2 ELSE 0, IF f >= 4 THEN 4 ELSE f)
         /\ Buf(tgt, IF f >= 6 THEN 2 ELSE 0, IF f >= 4 THEN 4 ELSE f)
    /\ exe.pc = "receive" =>
         Buf(src, IF f = 2 THEN 0 ELSE Len(procDone), 4) /\ Buf(tgt, 0, 4)
    /\ exe.pc = "finish" /\ input.mt => Buf(src, 2, 4) /\ Buf(tgt, 0, 4)
    /\ exe.pc = "tail" => \/ tgt.free >= Len(procStack)
                          \/ tgt.made + Len(procStack) <= 2 * Width

IInv == TypeOK /\ LiveInv /\ ReachInv /\ BuffersInv

-----------------------------------------------------------------------------
(* The steps of one executor. *)

\* The executor moves to another place, or to another frame.
LEMMA ExeGoes ==
  ASSUME TypeOK, NEW pc, Goes(pc)
  PROVE  exe'.pc = pc /\ exe'.fr = exe.fr
BY DEF TypeOK, Goes

\* One block, and the two operations of a stack of buffers, have their types.
LEMMA OneIn == ASSUME NEW S, NEW x \in S PROVE <<x>> \in Seq(S)
OBVIOUS

LEMMA BufferTypes ==
  ASSUME NEW b \in [free : Nat, made : Nat], NEW k \in Nat
  PROVE  /\ Pop(b, k) \in [free : Nat, made : Nat]
         /\ Push(b, k) \in [free : Nat, made : Nat]
BY DEF Pop, Push

\* The numbers the steps compare.
LEMMA Numbers ==
  ASSUME TypeOK
  PROVE  /\ exe.fr \in Nat /\ read \in Nat /\ Len(out) \in Nat
         /\ input.total \in 0..MaxFrames /\ input.present \in 0..MaxFrames
         /\ Frames = 0..MaxFrames /\ MaxFrames \in Nat
BY GlommioAssumption, LenProperties DEF TypeOK, Input, Frames

\* The table from the third frame on, with one worker and with several.
LEMMA StAt ==
  ASSUME ~input.mt, NEW f \in Nat, f >= 2
  PROVE  /\ Grouped(f) /\ Group(f) = <<f - 2>> /\ OutAt(f) = << <<f - 2>> >>
         /\ ProcAt(f) = <<f - 1>> /\ PipeAt(f) = << >>
BY DEF Grouped, Group, OutAt, ProcAt, PipeAt

\* A step that moves blocks about, and one that reads some.
LEMMA BlocksKept ==
  ASSUME BlocksInv, UNCHANGED <<input, out, lost, read>>, Rest' = Rest, Waiting' = Waiting
  PROVE  BlocksInv'
BY DEF BlocksInv

LEMMA BlocksRead ==
  ASSUME TypeOK, BlocksInv, lost = {}, UNCHANGED <<input, out, lost>>,
         NEW k \in {1, 2}, read' = read + k, HasRead(k),
         Waiting \in Nat, Waiting' = Waiting + k,
         Rest' = Rest \cup read..(read + k - 1)
  PROVE  BlocksInv'
<1>1. read \in Nat /\ Len(out) \in Nat /\ Cardinality(lost) = 0
  BY Numbers, FS_EmptySet
<1>2. Len(out') + Cardinality(lost') + Waiting' = read'
  BY <1>1 DEF BlocksInv
<1>3. 0..(read' - 1) = 0..(read - 1) \cup read..(read + k - 1)
  BY <1>1
<1>4. ToSet(out') \cup lost' \cup Rest' = 0..(read' - 1)
  BY <1>3 DEF BlocksInv
<1> QED
  BY <1>2, <1>4 DEF BlocksInv, HasRead

\* The passes of the loop with one worker.
LEMMA StFirstStep ==
  ASSUME IInv, StFirst
  PROVE  IInv'
<1>1. /\ ~input.mt /\ exe.pc = "loop" /\ exe.fr = 0 /\ 0 < input.total
      /\ read' = 1 /\ outStack' = <<  <<0>> >> /\ HasRead(1)
      /\ src' = Push(Pop(src, 1), 1) /\ tgt' = Pop(tgt, 1)
      /\ UNCHANGED <<input, procStack, procDone, held, m2w, w2m, worker, out, lost, mixed, result>>
      /\ exe' = [pc |-> "loop", fr |-> 1]
  BY DEF StFirst, InLoop, channels, file, Advance
<1>2. /\ outStack = << >> /\ procStack = << >> /\ procDone = << >> /\ held = << >>
      /\ Pipe = << >> /\ read = 0 /\ lost = {} /\ TypeOK
      /\ TableInv /\ BlocksInv /\ BuffersInv /\ ReachInv
  BY <1>1 DEF IInv, LiveInv, TableInv, LoopInv, OutAt, ProcAt, PipeAt, Grouped
<1>3. Pipe' = << >>
  BY <1>1, <1>2, PipeSame
<1>4. TypeOK'
  <2>1. 0 \in Frames /\ 1 \in 0..(MaxFrames + 1)
    BY GlommioAssumption DEF Frames
  <2>2. outStack' \in Seq(Seq(Frames))
    BY <1>1, <2>1, OneIn
  <2>3. src' \in [free : Nat, made : Nat] /\ tgt' \in [free : Nat, made : Nat]
    BY <1>1, <1>2, BufferTypes DEF TypeOK
  <2> QED
    BY <1>1, <1>2, <2>1, <2>2, <2>3 DEF TypeOK
<1>5. TableInv'
  <2>1. WorkersInv'
    BY <1>1, <1>2 DEF TableInv, WorkersInv, MainHasSender
  <2>2. LoopInv'
    BY <1>1, <1>2, <1>3 DEF LoopInv, OutAt, ProcAt, PipeAt, Grouped, Group
  <2> QED
    BY <1>1, <2>1, <2>2 DEF TableInv, ReceiveInv, FinishInv, TailInv, DrainInv, FlushInv, EndInv
<1>6. BlocksInv'
  <2>1. OutGroup = << >> /\ OutGroup' = <<0>>
    BY <1>1, <1>2, One DEF OutGroup
  <2>2. Rest = {} /\ Rest' = {0} /\ 0..(0 + 1 - 1) = {0}
    BY <1>1, <1>2, <1>3, <2>1, One, Nil DEF Rest
  <2>3. Waiting = 0 /\ Waiting' = 1
    BY <1>1, <1>2, <1>3, <2>1, One, Nil DEF Waiting
  <2> QED
    BY <1>1, <1>2, <2>2, <2>3, BlocksRead
<1>7. ReachInv'
  BY <1>1, <1>2 DEF ReachInv, WorkerUp, Near, Reach
<1>8. BuffersInv'
  <2>1. src = [free |-> 0, made |-> 0] /\ tgt = [free |-> 0, made |-> 0]
    BY <1>1, <1>2 DEF BuffersInv, TypeOK, Buf
  <2>2. src' = [free |-> 1, made |-> 1] /\ tgt' = [free |-> 0, made |-> 1]
    BY <1>1, <2>1 DEF Push, Pop
  <2> QED
    BY <1>1, <2>2 DEF BuffersInv, Width, Buf
<1> QED
  BY <1>4, <1>5, <1>6, <1>7, <1>8 DEF IInv, LiveInv

LEMMA StSecondStep ==
  ASSUME IInv, StSecond
  PROVE  IInv'
<1>1. /\ ~input.mt /\ exe.pc = "loop" /\ exe.fr = 1 /\ 1 < input.total
      /\ read' = 2 /\ procStack' = <<1>> /\ HasRead(1)
      /\ src' = Pop(src, 1)
      /\ UNCHANGED <<input, outStack, procDone, held, m2w, w2m, worker, tgt, out, lost,
                     mixed, result>>
      /\ exe' = [pc |-> "loop", fr |-> 2]
  BY DEF StSecond, InLoop, channels, file, Advance
<1>2. /\ outStack = << <<0>> >> /\ procStack = << >> /\ procDone = << >> /\ held = << >>
      /\ Pipe = << >> /\ read = 1 /\ lost = {} /\ TypeOK
      /\ TableInv /\ BlocksInv /\ BuffersInv /\ ReachInv
  BY <1>1 DEF IInv, LiveInv, TableInv, LoopInv, OutAt, ProcAt, PipeAt, Grouped, Group
<1>3. Pipe' = << >>
  BY <1>1, <1>2, PipeSame
<1>4. TypeOK'
  <2>1. 1 \in Frames /\ 2 \in 0..(MaxFrames + 1)
    BY <1>1, <1>2, GlommioAssumption DEF Frames, TypeOK, Input, HasRead
  <2>2. procStack' \in Seq(Frames)
    BY <1>1, <2>1, OneIn
  <2>3. src' \in [free : Nat, made : Nat]
    BY <1>1, <1>2, BufferTypes DEF TypeOK
  <2> QED
    BY <1>1, <1>2, <2>1, <2>2, <2>3 DEF TypeOK
<1>5. TableInv'
  <2>1. WorkersInv'
    BY <1>1, <1>2 DEF TableInv, WorkersInv, MainHasSender
  <2>2. LoopInv'
    BY <1>1, <1>2, <1>3 DEF LoopInv, OutAt, ProcAt, PipeAt, Grouped, Group
  <2> QED
    BY <1>1, <2>1, <2>2 DEF TableInv, ReceiveInv, FinishInv, TailInv, DrainInv, FlushInv, EndInv
<1>6. BlocksInv'
  <2>1. OutGroup = <<0>> /\ OutGroup' = <<0>>
    BY <1>1, <1>2, One DEF OutGroup
  <2>2. Rest = {0} /\ Rest' = {0, 1} /\ 1..(1 + 1 - 1) = {1}
    BY <1>1, <1>2, <1>3, <2>1, One, Nil DEF Rest
  <2>3. Waiting = 1 /\ Waiting' = 2
    BY <1>1, <1>2, <1>3, <2>1, One, Nil DEF Waiting
  <2> QED
    BY <1>1, <1>2, <2>2, <2>3, BlocksRead
<1>7. ReachInv'
  BY <1>1, <1>2 DEF ReachInv, WorkerUp, Near, Reach
<1>8. BuffersInv'
  <2>1. src = [free |-> 1, made |-> 1] /\ tgt = [free |-> 0, made |-> 1]
    BY <1>1, <1>2 DEF BuffersInv, TypeOK, Buf
  <2>2. src' = [free |-> 0, made |-> 1] /\ tgt' = [free |-> 0, made |-> 1]
    BY <1>1, <2>1 DEF Push, Pop
  <2> QED
    BY <1>1, <2>2 DEF BuffersInv, Width, Buf
<1> QED
  BY <1>4, <1>5, <1>6, <1>7, <1>8 DEF IInv, LiveInv

LEMMA StProcessStep ==
  ASSUME IInv, StProcess
  PROVE  IInv'
<1>0. PICK f \in Nat : exe.fr = f
  BY Numbers DEF IInv
<1>1. /\ ~input.mt /\ exe.pc = "loop" /\ f >= 2 /\ f < input.total
      /\ held' = Last(outStack)
      /\ outStack' = Append(Front(outStack), <<Last(procStack)>>)
      /\ mixed' = mixed \cup {Last(procStack)}
      /\ procStack' = << >>
      /\ src' = Push(Pop(src, 1), 1) /\ tgt' = Pop(tgt, 1) /\ Goes("finish")
      /\ UNCHANGED <<input, procDone, m2w, w2m, worker, read, out, lost, result>>
  BY <1>0 DEF StProcess, InLoop, channels, file
<1>2. TypeOK /\ TableInv /\ BlocksInv /\ BuffersInv /\ ReachInv
  BY <1>1 DEF IInv, LiveInv
<1>3. /\ exe.fr = f /\ f \in Nat /\ f < MaxFrames /\ MaxFrames \in Nat
      /\ exe'.pc = "finish" /\ exe'.fr = f
  BY <1>0, <1>1, <1>2, Numbers, ExeGoes
<1>a. /\ outStack = << <<f - 2>> >> /\ procStack = <<f - 1>> /\ procDone = << >>
      /\ held = << >> /\ Pipe = << >> /\ read = f /\ lost = {}
  BY <1>1, <1>2, <1>3, StAt DEF TableInv, LoopInv
<1>b. Pipe' = << >>
  BY <1>1, <1>a, PipeSame
<1>4. /\ held' = <<f - 2>> /\ outStack' = << <<f - 1>> >> /\ mixed' = mixed \cup {f - 1}
  BY <1>1, <1>a, One
<1>5. TypeOK'
  <2>1. f - 1 \in Frames /\ f - 2 \in Frames
    BY <1>1, <1>3 DEF Frames
  <2>2. <<f - 2>> \in Seq(Frames) /\ <<f - 1>> \in Seq(Frames)
    BY <2>1, OneIn
  <2>5. held' \in Seq(Frames) /\ outStack' \in Seq(Seq(Frames)) /\ procStack' \in Seq(Frames)
    <3>1. <<  <<f - 1>> >> \in Seq(Seq(Frames)) /\ << >> \in Seq(Frames)
      BY <2>2, OneIn
    <3> QED
      BY <1>1, <1>4, <2>2, <3>1
  <2>3. src' \in [free : Nat, made : Nat] /\ tgt' \in [free : Nat, made : Nat]
    BY <1>1, <1>2, BufferTypes DEF TypeOK
  <2>4. exe' \in [pc : {"loop", "receive", "finish", "tail", "drain", "flush",
                        "done", "panicked"}, fr : 0..(MaxFrames + 1)]
    BY <1>1, <1>2 DEF TypeOK, Goes
  <2>6. mixed' \subseteq Frames
    BY <1>2, <1>4, <2>1 DEF TypeOK
  <2>7. UNCHANGED <<input, procDone, m2w, w2m, worker, read, out, lost, result>>
    BY <1>1
  <2> QED
    BY <1>2, <2>3, <2>4, <2>5, <2>6, <2>7 DEF TypeOK
<1>6. TableInv'
  <2>1. WorkersInv'
    BY <1>1, <1>2, <1>3 DEF TableInv, WorkersInv, MainHasSender
  <2>2. /\ Grouped(f)' /\ Group(f)' = <<f - 2>> /\ Group(f + 1)' = <<f - 1>> /\ Width' = 1
    <3>1. Group(f + 1) = <<f + 1 - 2>> /\ f + 1 - 2 = f - 1 /\ Group(f) = <<f - 2>> /\ Grouped(f)
      BY <1>1, <1>3, StAt
    <3> QED
      BY <1>1, <3>1 DEF Grouped, Group, Width
  <2>3. FinishInv'
    BY <1>1, <1>3, <1>a, <1>b, <1>4, <2>2 DEF FinishInv
  <2> QED
    BY <1>3, <2>1, <2>3 DEF TableInv, LoopInv, EndInv, ReceiveInv, TailInv, DrainInv, FlushInv, EndInv
<1>7. BlocksInv'
  <2>1. OutGroup = <<f - 2>> /\ OutGroup' = <<f - 1>>
    BY <1>1, <1>a, <1>4, One DEF OutGroup
  <2>2. Rest' = Rest
    BY <1>1, <1>2, <1>3, <1>a, <1>b, <1>4, <2>1, One, Nil DEF Rest
  <2>3. Waiting' = Waiting
    BY <1>1, <1>a, <1>b, <1>4, <2>1, One, Nil DEF Waiting
  <2> QED
    BY <1>1, <1>2, <2>2, <2>3, BlocksKept
<1>8. ReachInv'
  BY <1>1, <1>2 DEF ReachInv, WorkerUp, Near, Reach
<1>9. BuffersInv'
  <2>1. src.free \in {0, 1} /\ src.made = (IF src.free = 0 THEN 1 ELSE 2)
    BY <1>1, <1>2, <1>3 DEF BuffersInv, Buf
  <2>2. tgt.free \in {0, 1} /\ tgt.made = (IF tgt.free = 0 THEN 1 ELSE 2)
    BY <1>1, <1>2, <1>3 DEF BuffersInv, Buf
  <2>3. src' = [free |-> 1, made |-> 2] /\ tgt' = [free |-> 0, made |-> 2]
    <3>1. \A b \in [free : Nat, made : Nat] :
            b.free \in {0, 1} /\ b.made = (IF b.free = 0 THEN 1 ELSE 2) =>
              Pop(b, 1) = [free |-> 0, made |-> 2]
      BY DEF Pop
    <3>2. Push([free |-> 0, made |-> 2], 1) = [free |-> 1, made |-> 2]
      BY DEF Push
    <3> QED
      BY <1>1, <1>2, <2>1, <2>2, <3>1, <3>2 DEF TypeOK
  <2> QED
    BY <1>1, <1>3, <2>3 DEF BuffersInv, Width, Buf
<1> QED
  BY <1>5, <1>6, <1>7, <1>8, <1>9 DEF IInv, LiveInv

-----------------------------------------------------------------------------
(* The steps over pairs. *)

LEMMA MtAt ==
  ASSUME input.mt
  PROVE  /\ OutAt(0) = << >> /\ ProcAt(0) = << >> /\ PipeAt(0) = << >>
         /\ OutAt(2) = << >> /\ ProcAt(2) = << >> /\ PipeAt(2) = <<0, 1>>
         /\ OutAt(4) = << <<3, 0>> >> /\ ProcAt(4) = << >> /\ PipeAt(4) = <<1, 2>>
         /\ \A f \in Nat : f >= 4 => Grouped(f) /\ OutAt(f) = <<Group(f)>>
         /\ \A f \in Nat : f >= 6 => ProcAt(f) = <<f - 2, f - 1>> /\ PipeAt(f) = << >>
         /\ Group(4) = <<3, 0>> /\ Group(6) = <<2, 1>>
         /\ \A f \in Nat : f >= 8 => Group(f) = <<f - 3, f - 4>>
<1>1. /\ OutAt(0) = << >> /\ ProcAt(0) = << >> /\ PipeAt(0) = << >>
      /\ OutAt(2) = << >> /\ ProcAt(2) = << >> /\ PipeAt(2) = <<0, 1>>
  BY DEF OutAt, ProcAt, PipeAt, Grouped
<1>2. /\ Group(4) = <<3, 0>> /\ Group(6) = <<2, 1>>
      /\ \A f \in Nat : f >= 8 => Group(f) = <<f - 3, f - 4>>
  BY DEF Group
<1>3. \A f \in Nat : f >= 4 => Grouped(f) /\ OutAt(f) = <<Group(f)>>
  BY DEF OutAt, Grouped
<1>4. \A f \in Nat : f >= 6 => ProcAt(f) = <<f - 2, f - 1>> /\ PipeAt(f) = << >>
  BY DEF ProcAt, PipeAt
<1>5. ProcAt(4) = << >> /\ PipeAt(4) = <<1, 2>>
  BY DEF ProcAt, PipeAt
<1> QED
  BY <1>1, <1>2, <1>3, <1>4, <1>5

LEMMA TwoIn == ASSUME NEW S, NEW x \in S, NEW y \in S PROVE <<x, y>> \in Seq(S)
OBVIOUS

\* The first two passes of the loop over pairs.
LEMMA MtFirstStep ==
  ASSUME IInv, MtFirst
  PROVE  IInv'
<1>1. /\ input.mt /\ exe.pc = "loop" /\ exe.fr = 0 /\ 0 < input.total
      /\ read' = 2 /\ m2w' = m2w \o <<0, 1>> /\ HasRead(2) /\ WorkerUp
      /\ src' = Pop(src, 2) /\ tgt' = Pop(tgt, 2)
      /\ UNCHANGED <<input, outStack, procStack, procDone, held, w2m, worker, out, lost,
                     mixed, result>>
      /\ exe' = [pc |-> "loop", fr |-> 2]
  BY DEF MtFirst, InLoop, stacks, file, Advance, CanSend
<1>2. TypeOK /\ TableInv /\ BlocksInv /\ BuffersInv /\ ReachInv
  BY <1>1 DEF IInv, LiveInv
<1>3. /\ outStack = << >> /\ procStack = << >> /\ procDone = << >> /\ held = << >>
      /\ Pipe = << >> /\ read = 0 /\ lost = {}
  BY <1>1, <1>2, MtAt DEF TableInv, LoopInv
<1>4. 2 <= MaxFrames /\ MaxFrames \in Nat
  BY <1>1, <1>2, <1>3, Numbers DEF HasRead
<1>5. <<0, 1>> \in Seq(Frames)
  BY <1>4, TwoIn DEF Frames
<1>6. Pipe' = <<0, 1>>
  BY <1>1, <1>2, <1>3, <1>5, PipePut, ConcatEmptySeq
<1>7. TypeOK'
  <2>1. m2w' \in Seq(Frames)
    BY <1>1, <1>2, <1>5, ConcatProperties, PipeParts
  <2>2. src' \in [free : Nat, made : Nat] /\ tgt' \in [free : Nat, made : Nat]
    BY <1>1, <1>2, BufferTypes DEF TypeOK
  <2>3. exe' \in [pc : {"loop", "receive", "finish", "tail", "drain", "flush",
                        "done", "panicked"}, fr : 0..(MaxFrames + 1)]
    BY <1>1, <1>4
  <2>4. UNCHANGED <<input, outStack, procStack, procDone, held, w2m, worker, out, lost,
                    mixed, result>> /\ read' \in Nat
    BY <1>1
  <2> QED
    BY SMTT(30), <1>2, <2>1, <2>2, <2>3, <2>4 DEF TypeOK
<1>8. TableInv'
  <2>1. WorkersInv'
    BY <1>1, <1>2 DEF TableInv, WorkersInv, MainHasSender
  <2>2. OutAt(2)' = << >> /\ ProcAt(2)' = << >> /\ PipeAt(2)' = <<0, 1>>
    BY <1>1, MtAt DEF OutAt, ProcAt, PipeAt, Grouped, Group
  <2>3. LoopInv'
    BY <1>1, <1>3, <1>6, <2>2 DEF LoopInv
  <2> QED
    BY <1>1, <2>1, <2>3 DEF TableInv, ReceiveInv, FinishInv, TailInv, DrainInv, FlushInv, EndInv
<1>9. BlocksInv'
  <2>1. OutGroup = << >> /\ OutGroup' = << >>
    BY <1>1, <1>3 DEF OutGroup
  <2>2. Rest = {} /\ Rest' = {0, 1} /\ 0..(0 + 2 - 1) = {0, 1}
    <3>1. ToSet(<<0, 1>>) = {0, 1}
      BY Two
    <3> QED
      BY <1>1, <1>3, <1>6, <2>1, <3>1, Nil DEF Rest
  <2>3. Waiting = 0 /\ Waiting' = 2
    BY <1>1, <1>3, <1>6, <2>1, Two, Nil DEF Waiting
  <2> QED
    BY <1>1, <1>2, <1>3, <2>2, <2>3, BlocksRead
<1>10. ReachInv'
  BY <1>1, <1>2 DEF ReachInv, WorkerUp, Near, Reach
<1>11. BuffersInv'
  <2>1. src = [free |-> 0, made |-> 0] /\ tgt = [free |-> 0, made |-> 0]
    BY <1>1, <1>2 DEF BuffersInv, TypeOK, Buf
  <2>2. src' = [free |-> 0, made |-> 2] /\ tgt' = [free |-> 0, made |-> 2]
    BY <1>1, <2>1 DEF Pop
  <2> QED
    BY <1>1, <2>2 DEF BuffersInv, Width, Buf
<1> QED
  BY <1>7, <1>8, <1>9, <1>10, <1>11 DEF IInv, LiveInv

LEMMA MtSecondStep ==
  ASSUME IInv, MtSecond
  PROVE  IInv'
<1>1. /\ input.mt /\ exe.pc = "loop" /\ exe.fr = 2 /\ 2 < input.total
      /\ read' = 4 /\ m2w' = Append(m2w, 2) /\ HasRead(2) /\ WorkerUp
      /\ procDone' = <<3>>
      /\ src' = Pop(src, 2) /\ tgt' = Pop(tgt, 2)
      /\ UNCHANGED <<input, outStack, procStack, held, w2m, worker, out, lost, mixed, result>>
      /\ Goes("receive")
  BY DEF MtSecond, InLoop, stacks, file, CanSend
<1>2. TypeOK /\ TableInv /\ BlocksInv /\ BuffersInv /\ ReachInv
  BY <1>1 DEF IInv, LiveInv
<1>3. /\ outStack = << >> /\ procStack = << >> /\ procDone = << >> /\ held = << >>
      /\ Pipe = <<0, 1>> /\ read = 2 /\ lost = {}
      /\ exe'.pc = "receive" /\ exe'.fr = 2
  BY <1>1, <1>2, MtAt, ExeGoes DEF TableInv, LoopInv
<1>4. 4 <= MaxFrames /\ MaxFrames \in Nat
  BY <1>1, <1>2, <1>3, Numbers DEF HasRead
<1>5. 2 \in Frames /\ 3 \in Frames /\ m2w \in Seq(Frames)
  BY <1>2, <1>4, PipeParts DEF Frames
<1>6. Pipe' = <<0, 1, 2>> /\ m2w' \in Seq(Frames)
  <2>1. <<2>> \in Seq(Frames) /\ m2w' \in Seq(Frames) /\ m2w' = m2w \o <<2>>
    BY <1>1, <1>5, AppendThis
  <2>2. Pipe' = <<0, 1>> \o <<2>>
    BY <1>1, <1>2, <1>3, <2>1, PipePut
  <2>3. 0 \in Nat /\ 1 \in Nat /\ 2 \in Nat /\ <<0, 1>> \in Seq(Nat)
    BY TwoIn
  <2>4. Append(<<0, 1>>, 2) = <<0, 1>> \o <<2>>
    BY <2>3, AppendThis
  <2>5. Append(<<0, 1>>, 2) = <<0, 1, 2>>
    BY AppendThird
  <2> QED
    BY <2>1, <2>2, <2>4, <2>5
<1>7. TypeOK'
  <2>1. procDone' \in Seq(Frames)
    BY <1>1, <1>5, OneIn
  <2>2. src' \in [free : Nat, made : Nat] /\ tgt' \in [free : Nat, made : Nat]
    BY <1>1, <1>2, BufferTypes DEF TypeOK
  <2>3. exe' \in [pc : {"loop", "receive", "finish", "tail", "drain", "flush",
                        "done", "panicked"}, fr : 0..(MaxFrames + 1)]
    BY <1>1, <1>2 DEF TypeOK, Goes
  <2> QED
    BY SMTT(30), <1>1, <1>2, <1>4, <1>6, <2>1, <2>2, <2>3 DEF TypeOK
<1>8. TableInv'
  <2>1. WorkersInv'
    BY <1>1, <1>2, <1>3 DEF TableInv, WorkersInv, MainHasSender
  <2>3. ReceiveInv'
    BY <1>1, <1>3, <1>6 DEF ReceiveInv
  <2> QED
    BY <1>3, <2>1, <2>3 DEF TableInv, LoopInv, FinishInv, TailInv, DrainInv, FlushInv, EndInv
<1>9. BlocksInv'
  <2>1. OutGroup = << >> /\ OutGroup' = << >>
    BY <1>1, <1>3 DEF OutGroup
  <2>2. Rest = {0, 1} /\ Rest' = {0, 1, 2, 3} /\ 2..(2 + 2 - 1) = {2, 3}
    <3>1. ToSet(<<3>>) = {3}
      BY One
    <3>2. ToSet(<<0, 1>>) = {0, 1}
      BY Two
    <3>3. ToSet(<<0, 1, 2>>) = {0, 1, 2}
      BY ThreeHolds
    <3> QED
      BY <1>1, <1>3, <1>6, <2>1, <3>1, <3>2, <3>3, Nil DEF Rest
  <2>3. Waiting = 2 /\ Waiting' = 4
    BY <1>1, <1>3, <1>6, <2>1, One, Two, Three, Nil DEF Waiting
  <2> QED
    BY <1>1, <1>2, <1>3, <2>2, <2>3, BlocksRead
<1>10. ReachInv'
  BY <1>1, <1>2 DEF ReachInv, WorkerUp, Near, Reach
<1>11. BuffersInv'
  <2>1. src = [free |-> 0, made |-> 2] /\ tgt = [free |-> 0, made |-> 2]
    BY <1>1, <1>2 DEF BuffersInv, TypeOK, Buf
  <2>2. src' = [free |-> 0, made |-> 4] /\ tgt' = [free |-> 0, made |-> 4]
    BY <1>1, <2>1 DEF Pop
  <2> QED
    BY <1>1, <1>3, <2>2 DEF BuffersInv, Width, Buf
<1> QED
  BY <1>7, <1>8, <1>9, <1>10, <1>11, <1>3 DEF IInv, LiveInv

LEMMA MtSecondReceiveStep ==
  ASSUME IInv, MtSecondReceive
  PROVE  IInv'
<1>1. /\ input.mt /\ exe.pc = "receive" /\ exe.fr = 2 /\ w2m # << >>
      /\ w2m' = Tail(w2m) /\ src' = Push(src, 2)
      /\ outStack' = Append(outStack, procDone \o <<Head(w2m)>>)
      /\ procDone' = << >> /\ exe' = [pc |-> "loop", fr |-> 4]
      /\ UNCHANGED <<input, procStack, held, m2w, worker, tgt, read, out, lost, mixed, result>>
  BY DEF MtSecondReceive, file, Advance
<1>2. TypeOK /\ TableInv /\ BlocksInv /\ BuffersInv /\ ReachInv
  BY <1>1 DEF IInv, LiveInv
<1>3. /\ outStack = << >> /\ procStack = << >> /\ procDone = <<3>> /\ held = << >>
      /\ Pipe = <<0, 1, 2>> /\ read = 4 /\ lost = {} /\ 2 < input.total
  BY <1>1, <1>2 DEF TableInv, ReceiveInv
<1>4. 3 <= MaxFrames /\ MaxFrames \in Nat /\ read <= MaxFrames /\ w2m \in Seq(Frames)
  BY <1>2, <1>3, Numbers, PipeParts DEF BlocksInv
<1>5. Head(w2m) = 0 /\ Pipe' = <<1, 2>>
  <2>1. Head(w2m) = Head(Pipe) /\ Pipe' = Tail(Pipe)
    BY <1>1, <1>2, PipeTake
  <2>2. Head(<<0, 1, 2>>) = 0
    BY Three
  <2>3. Tail(<<0, 1, 2>>) = <<1, 2>>
    BY Three
  <2> QED
    BY <1>3, <2>1, <2>2, <2>3
<1>6. outStack' = << <<3, 0>> >>
  <2>1. <<3>> \o <<0>> = <<3, 0>>
    BY PairUp
  <2> QED
    BY <1>1, <1>3, <1>5, <2>1, One
<1>7. TypeOK'
  <2>1. w2m' \in Seq(Frames)
    BY <1>1, <1>4, HeadTailProperties
  <2>2. outStack' \in Seq(Seq(Frames))
    <3>1. <<3, 0>> \in Seq(Frames)
      BY <1>4, TwoIn DEF Frames
    <3> QED
      BY <1>6, <3>1, OneIn
  <2>3. src' \in [free : Nat, made : Nat]
    BY <1>1, <1>2, BufferTypes DEF TypeOK
  <2>4. exe' \in [pc : {"loop", "receive", "finish", "tail", "drain", "flush",
                        "done", "panicked"}, fr : 0..(MaxFrames + 1)]
    BY <1>1, <1>4
  <2>5. procDone' \in Seq(Frames)
    BY <1>1
  <2> QED
    BY SMTT(30), <1>1, <1>2, <2>1, <2>2, <2>3, <2>4, <2>5 DEF TypeOK
<1>8. TableInv'
  <2>1. WorkersInv'
    BY <1>1, <1>2 DEF TableInv, WorkersInv, MainHasSender
  <2>2. OutAt(4)' = << <<3, 0>> >> /\ ProcAt(4)' = << >> /\ PipeAt(4)' = <<1, 2>>
    BY <1>1, MtAt DEF OutAt, ProcAt, PipeAt, Grouped, Group
  <2>3. LoopInv'
    BY <1>1, <1>3, <1>5, <1>6, <2>2 DEF LoopInv
  <2> QED
    BY <1>1, <2>1, <2>3 DEF TableInv, ReceiveInv, FinishInv, TailInv, DrainInv, FlushInv, EndInv
<1>9. BlocksInv'
  <2>1. OutGroup = << >> /\ OutGroup' = <<3, 0>>
    BY <1>3, <1>6, One DEF OutGroup
  <2>2. Rest = {0, 1, 2, 3} /\ Rest' = {0, 1, 2, 3}
    <3>1. ToSet(<<3>>) = {3}
      BY One
    <3>2. ToSet(<<1, 2>>) = {1, 2}
      BY Two
    <3>3. ToSet(<<3, 0>>) = {3, 0}
      BY Two
    <3>4. ToSet(<<0, 1, 2>>) = {0, 1, 2}
      BY ThreeHolds
    <3> QED
      BY <1>1, <1>3, <1>5, <2>1, <3>1, <3>2, <3>3, <3>4, Nil DEF Rest
  <2>3. Waiting = 4 /\ Waiting' = 4
    BY <1>1, <1>3, <1>5, <2>1, One, Two, Three, Nil DEF Waiting
  <2> QED
    BY <1>1, <1>2, <1>3, <2>2, <2>3, BlocksKept
<1>10. ReachInv'
  BY <1>1, <1>2 DEF ReachInv, WorkerUp, Near, Reach
<1>11. BuffersInv'
  <2>1. src = [free |-> 0, made |-> 4] /\ tgt = [free |-> 0, made |-> 4]
    BY <1>1, <1>2 DEF BuffersInv, TypeOK, Buf
  <2>2. src' = [free |-> 2, made |-> 4] /\ tgt' = [free |-> 0, made |-> 4]
    BY <1>1, <2>1 DEF Push
  <2> QED
    BY <1>1, <2>2 DEF BuffersInv, Width, Buf
<1> QED
  BY <1>1, <1>7, <1>8, <1>9, <1>10, <1>11 DEF IInv, LiveInv

\* What `MtProcess` sends and what it keeps.
LEMMA Slices ==
  ASSUME NEW x, NEW y
  PROVE  /\ Reverse(SubSeq(<< >>, 2, 0)) = << >> /\ SubSeq(<< >>, 1, 0) = << >>
         /\ Reverse(SubSeq(<<x, y>>, 2, 2)) = <<y>> /\ SubSeq(<<x, y>>, 1, 1) = <<x>>
<1>1. Reverse(SubSeq(<< >>, 2, 0)) = << >> /\ SubSeq(<< >>, 1, 0) = << >>
  BY SubSeqEmpty DEF Reverse
<1> DEFINE s == <<x, y>>
<1>a. s \in Seq({x, y}) /\ Len(s) = 2 /\ s[1] = x /\ s[2] = y
  OBVIOUS
<1>2. SubSeq(s, 1, 1) = <<x>>
  <2>1. /\ SubSeq(s, 1, 1) \in Seq({x, y}) /\ Len(SubSeq(s, 1, 1)) = 1
        /\ SubSeq(s, 1, 1)[1] = x
    <3> HIDE DEF s
    <3> QED
      BY <1>a
  <2> QED
    BY ONLY <2>1, SingleIs
<1>3. SubSeq(s, 2, 2) = <<y>>
  <2>1. /\ SubSeq(s, 2, 2) \in Seq({x, y}) /\ Len(SubSeq(s, 2, 2)) = 1
        /\ SubSeq(s, 2, 2)[1] = y
    <3> HIDE DEF s
    <3> QED
      BY <1>a
  <2> QED
    BY ONLY <2>1, SingleIs
<1>4. Reverse(<<y>>) = <<y>>
  BY DEF Reverse
<1> QED
  BY <1>1, <1>2, <1>3, <1>4

\* The later passes.
LEMMA MtProcessStep ==
  ASSUME IInv, MtProcess
  PROVE  IInv'
<1>0. PICK f \in Nat : exe.fr = f
  BY Numbers DEF IInv
<1> DEFINE n == Len(procStack)
           s == Reverse(SubSeq(procStack, 2, n))
           d == SubSeq(procStack, 1, IF n > 0 THEN 1 ELSE 0)
<1>1. /\ input.mt /\ exe.pc = "loop" /\ f >= 4 /\ f < input.total
      /\ n > 1 => WorkerUp
      /\ held' = Last(outStack) /\ outStack' = Front(outStack)
      /\ m2w' = m2w \o s /\ procDone' = d /\ procStack' = << >>
      /\ src' = Push(Pop(src, 2), Len(d)) /\ tgt' = Pop(tgt, n) /\ Goes("receive")
      /\ UNCHANGED <<input, w2m, worker, read, out, lost, mixed, result>>
  BY <1>0 DEF MtProcess, InLoop, file, CanSend
<1>2. TypeOK /\ TableInv /\ BlocksInv /\ BuffersInv /\ ReachInv
  BY <1>1 DEF IInv, LiveInv
<1>3. f < MaxFrames /\ MaxFrames \in Nat /\ exe'.pc = "receive" /\ exe'.fr = f
  BY <1>0, <1>1, <1>2, Numbers, ExeGoes
<1>4. /\ outStack = <<Group(f)>> /\ procStack = ProcAt(f) /\ procDone = << >>
      /\ held = << >> /\ Pipe = PipeAt(f) /\ read = f /\ lost = {}
  BY <1>0, <1>1, <1>2, <1>3, MtAt DEF TableInv, LoopInv
<1>5. held' = Group(f) /\ outStack' = << >>
  BY <1>1, <1>4, One
<1>6. f = 4 \/ f >= 6
  BY <1>0, <1>1, <1>2 DEF TableInv, WorkersInv
\* What happens to the blocks read before.
<1>7. /\ s \in Seq(Frames) /\ d \in Seq(Frames) /\ d \o (Pipe \o s) = PairAt(f)
      /\ ToSet(procStack) \cup ToSet(Pipe) = ToSet(d) \cup ToSet(Pipe \o s)
      /\ n + Len(Pipe) = Len(d) + Len(Pipe \o s) /\ n = (IF f = 4 THEN 0 ELSE 2)
  <2>1. CASE f = 4
    <3>1. procStack = << >> /\ n = 0 /\ Pipe = <<1, 2>>
      BY <1>1, <1>4, <2>1, MtAt
    <3>2. s = << >> /\ d = << >>
      BY <3>1, Slices
    <3>3. <<1, 2>> \in Seq(Nat)
      BY TwoIn
    <3>4. Pipe \o s = <<1, 2>> /\ d \o <<1, 2>> = <<1, 2>>
      BY <3>1, <3>2, <3>3, ConcatEmptySeq
    <3> HIDE DEF s, d
    <3> QED
      BY <2>1, <3>1, <3>2, <3>4 DEF PairAt
  <2>2. CASE f >= 6
    <3>1. procStack = <<f - 2, f - 1>> /\ n = 2 /\ Pipe = << >>
      BY <1>1, <1>4, <2>2, MtAt
    <3>2. s = <<f - 1>> /\ d = <<f - 2>>
      BY <3>1, Slices
    <3> HIDE DEF n, s, d
    <3>3. f - 1 \in Frames /\ f - 2 \in Frames
      BY <1>1, <1>3 DEF Frames
    <3>4. s \in Seq(Frames) /\ d \in Seq(Frames)
      BY <3>2, <3>3, OneIn
    <3>5. Pipe \o s = <<f - 1>>
      BY <3>1, <3>2, <3>4, ConcatEmptySeq
    <3>6. d \o <<f - 1>> = <<f - 2, f - 1>>
      BY <3>2, PairUp
    <3>7. /\ ToSet(<<f - 2, f - 1>>) = {f - 2, f - 1}
          /\ ToSet(<<f - 1>>) = {f - 1} /\ ToSet(<<f - 2>>) = {f - 2}
      <4>1. ToSet(<<f - 2, f - 1>>) = {f - 2, f - 1}
        BY Two
      <4> QED
        BY <4>1, One
    <3>8. Len(<<f - 1>>) = 1 /\ Len(<<f - 2>>) = 1
      OBVIOUS
    <3> QED
      BY <2>2, <3>1, <3>2, <3>4, <3>5, <3>6, <3>7, <3>8, Nil DEF PairAt
  <2> QED
    BY <1>6, <2>1, <2>2
<1>8. n \in Nat /\ Len(d) \in Nat
  BY <1>7, LenProperties
<1> HIDE DEF n, s, d
<1>9. Pipe' = Pipe \o s
  BY <1>1, <1>2, <1>7, PipePut
<1>10. TypeOK'
  <2>1. m2w' \in Seq(Frames)
    BY <1>1, <1>2, <1>7, ConcatProperties, PipeParts
  <2>2. src' \in [free : Nat, made : Nat] /\ tgt' \in [free : Nat, made : Nat]
    BY <1>1, <1>2, <1>8, BufferTypes DEF TypeOK
  <2>3. exe' \in [pc : {"loop", "receive", "finish", "tail", "drain", "flush",
                        "done", "panicked"}, fr : 0..(MaxFrames + 1)]
    BY <1>1, <1>2 DEF TypeOK, Goes
  <2>4. held' \in Seq(Frames) /\ outStack' \in Seq(Seq(Frames))
    <3>1. outStack \in Seq(Seq(Frames)) /\ Len(outStack) = 1 /\ outStack[1] = Group(f)
      BY <1>2, <1>4 DEF TypeOK
    <3>2. Group(f) \in Seq(Frames)
      <4>1. 1 \in 1..Len(outStack)
        BY <3>1
      <4> QED
        BY <3>1, <4>1, ElementOfSeq
    <3> QED
      BY <1>5, <3>2
  <2>5. procStack' \in Seq(Frames) /\ procDone' \in Seq(Frames)
    BY <1>1, <1>7
  <2>6. UNCHANGED <<input, w2m, worker, read, out, lost, mixed, result>>
    BY <1>1
  <2> QED
    BY <1>2, <2>1, <2>2, <2>3, <2>4, <2>5, <2>6 DEF TypeOK
<1>11. TableInv'
  <2>1. WorkersInv'
    BY <1>0, <1>1, <1>2, <1>3 DEF TableInv, WorkersInv, MainHasSender
  <2>2. Group(f)' = Group(f)
    BY <1>1 DEF Group
  <2>3. ReceiveInv'
    BY <1>1, <1>3, <1>4, <1>5, <1>7, <1>9, <2>2 DEF ReceiveInv
  <2> QED
    BY <1>3, <2>1, <2>3 DEF TableInv, LoopInv, FinishInv, TailInv, DrainInv, FlushInv, EndInv
<1>12. BlocksInv'
  <2>1. OutGroup = Group(f) /\ OutGroup' = << >>
    BY <1>4, <1>5, One DEF OutGroup
  <2>2. Rest' = Rest
    BY <1>1, <1>4, <1>5, <1>7, <1>9, <2>1, Nil DEF Rest
  <2>3. Waiting' = Waiting
    <3>1. Pipe \in Seq(Frames) /\ Pipe' \in Seq(Frames)
      BY <1>2, <1>7, <1>9, PipeParts, ConcatProperties
    <3>3. Group(f) \in Seq(Frames)
      BY <1>5, <1>10 DEF TypeOK
    <3>2. Len(Group(f)) \in Nat /\ Len(Pipe) \in Nat /\ Len(Pipe') \in Nat
      BY <3>1, <3>3, LenProperties
    <3>4. Waiting = Len(Group(f)) + n + 0 + 0 + Len(Pipe)
      BY <1>4, <2>1, Nil DEF Waiting, n
    <3>5. Waiting' = 0 + 0 + Len(d) + Len(Group(f)) + Len(Pipe')
      BY <1>1, <1>5, <2>1, Nil DEF Waiting
    <3> QED
      BY <1>7, <1>8, <1>9, <3>2, <3>4, <3>5
  <2> QED
    BY <1>1, <1>2, <2>2, <2>3, BlocksKept
<1>13. ReachInv'
  BY <1>1, <1>2 DEF ReachInv, WorkerUp, Near, Reach
<1>14. BuffersInv'
  <2>1. /\ src = [free |-> 2, made |-> 4]
        /\ tgt = (IF f = 4 THEN [free |-> 0, made |-> 4] ELSE [free |-> 2, made |-> 4])
    BY <1>0, <1>1, <1>2, <1>6 DEF BuffersInv, TypeOK, Buf
  <2>2. src' = [free |-> Len(d), made |-> 4]
    <3>1. Pop(src, 2) = [free |-> 0, made |-> 4]
      BY <2>1 DEF Pop
    <3> QED
      BY <1>1, <1>8, <3>1 DEF Push
  <2>3. tgt' = [free |-> 0, made |-> 4]
    BY <1>1, <1>6, <1>7, <2>1 DEF Pop
  <2> QED
    BY <1>1, <1>3, <2>2, <2>3 DEF BuffersInv, Width, Buf
<1> QED
  BY <1>10, <1>11, <1>12, <1>13, <1>14 DEF IInv, LiveInv

LEMMA MtReceiveStep ==
  ASSUME IInv, MtReceive
  PROVE  IInv'
<1>0. PICK f \in Nat : exe.fr = f
  BY Numbers DEF IInv
<1> DEFINE h == Head(w2m)
<1>1. /\ input.mt /\ exe.pc = "receive" /\ f >= 4 /\ Len(procDone) < 2 /\ w2m # << >>
      /\ w2m' = Tail(w2m) /\ src' = Push(src, 1) /\ procDone' = Append(procDone, h)
      /\ UNCHANGED <<input, exe, procStack, outStack, held, m2w, worker, tgt, read, out,
                     lost, mixed, result>>
  BY <1>0 DEF MtReceive, file
<1>2. TypeOK /\ TableInv /\ BlocksInv /\ BuffersInv /\ ReachInv
  BY <1>1 DEF IInv, LiveInv
<1>3. /\ f < input.total /\ outStack = << >> /\ procStack = << >> /\ lost = {}
      /\ held = Group(f) /\ procDone \o Pipe = PairAt(f) /\ read = f
  BY <1>0, <1>1, <1>2 DEF TableInv, ReceiveInv
<1>4. /\ h \in Frames /\ Pipe' \in Seq(Frames) /\ Pipe = <<h>> \o Pipe'
      /\ Len(Pipe) = 1 + Len(Pipe') /\ ToSet(Pipe) = {h} \cup ToSet(Pipe')
      /\ w2m' \in Seq(Frames)
  BY <1>1, <1>2, PipeTake
<1>5. procDone \in Seq(Frames) /\ Len(procDone) \in Nat /\ Len(Pipe') \in Nat
  BY <1>2, <1>4, LenProperties DEF TypeOK
<1> HIDE DEF h
<1>6. /\ procDone' \in Seq(Frames) /\ procDone' = procDone \o <<h>>
      /\ Len(procDone') = Len(procDone) + 1 /\ ToSet(procDone') = ToSet(procDone) \cup {h}
      /\ <<h>> \in Seq(Frames)
  BY <1>1, <1>4, <1>5, AppendThis
<1>7. procDone' \o Pipe' = PairAt(f)
  <2> DEFINE a == procDone
             q == Pipe'
  <2>1. a \in Seq(Frames) /\ q \in Seq(Frames) /\ <<h>> \in Seq(Frames)
    BY <1>4, <1>5, <1>6
  <2>2. (a \o <<h>>) \o q = a \o (<<h>> \o q)
    <3> HIDE DEF a, q
    <3> QED
      BY <2>1, ConcatAssociative
  <2> QED
    BY <1>3, <1>4, <1>6, <2>2
<1>8. TypeOK'
  <2>1. src' \in [free : Nat, made : Nat]
    BY <1>1, <1>2, BufferTypes DEF TypeOK
  <2>2. w2m' \in Seq(Frames) /\ procDone' \in Seq(Frames)
    BY <1>4, <1>6
  <2>3. UNCHANGED <<input, exe, procStack, outStack, held, m2w, worker, tgt, read, out,
                    lost, mixed, result>>
    BY <1>1
  <2> QED
    BY <1>2, <2>1, <2>2, <2>3 DEF TypeOK
<1>9. TableInv'
  <2>1. WorkersInv'
    BY <1>1, <1>2 DEF TableInv, WorkersInv, MainHasSender
  <2>2. Group(f)' = Group(f)
    BY <1>1 DEF Group
  <2>3. ReceiveInv'
    BY <1>0, <1>1, <1>3, <1>7, <2>2 DEF ReceiveInv
  <2> QED
    BY <1>1, <2>1, <2>3 DEF TableInv, LoopInv, FinishInv, TailInv, DrainInv, FlushInv, EndInv
<1>10. BlocksInv'
  <2>1. OutGroup = << >> /\ OutGroup' = << >>
    BY <1>1, <1>3 DEF OutGroup
  <2>2. Rest' = Rest
    BY <1>1, <1>4, <1>6, <2>1 DEF Rest
  <2>3. Waiting' = Waiting
    <3>1. Len(held) \in Nat
      BY <1>2, LenProperties DEF TypeOK
    <3>2. /\ Waiting = 0 + 0 + Len(procDone) + Len(held) + Len(Pipe)
          /\ Waiting' = 0 + 0 + Len(procDone') + Len(held) + Len(Pipe')
      BY <1>1, <1>3, <2>1, Nil DEF Waiting
    <3> QED
      BY <1>4, <1>5, <1>6, <3>1, <3>2
  <2> QED
    BY <1>1, <1>2, <2>2, <2>3, BlocksKept
<1>11. ReachInv'
  BY <1>1, <1>2 DEF ReachInv, WorkerUp, Near, Reach
<1>12. BuffersInv'
  <2>1. src = [free |-> Len(procDone), made |-> 4] /\ Buf(tgt, 0, 4)
    BY <1>0, <1>1, <1>2 DEF BuffersInv, TypeOK, Buf
  <2>2. src' = [free |-> Len(procDone'), made |-> 4]
    BY <1>1, <1>6, <2>1 DEF Push
  <2> QED
    BY <1>0, <1>1, <2>1, <2>2 DEF BuffersInv, Width, Buf
<1> QED
  BY <1>8, <1>9, <1>10, <1>11, <1>12 DEF IInv, LiveInv

LEMMA MtPairedStep ==
  ASSUME IInv, MtPaired
  PROVE  IInv'
<1>0. PICK f \in Nat : exe.fr = f
  BY Numbers DEF IInv
<1>1. /\ input.mt /\ exe.pc = "receive" /\ f >= 4 /\ Len(procDone) = 2
      /\ outStack' = Append(outStack, Reverse(procDone))
      /\ procDone' = << >> /\ Goes("finish")
      /\ UNCHANGED <<input, procStack, held, m2w, w2m, worker, src, tgt, read, out,
                     lost, mixed, result>>
  BY <1>0 DEF MtPaired, file, channels, buffers
<1>2. TypeOK /\ TableInv /\ BlocksInv /\ BuffersInv /\ ReachInv
  BY <1>1 DEF IInv, LiveInv
<1>3. /\ f < input.total /\ outStack = << >> /\ procStack = << >> /\ lost = {}
      /\ held = Group(f) /\ procDone \o Pipe = PairAt(f) /\ read = f
      /\ f \in {4, 6} \/ f >= 8
  BY <1>0, <1>1, <1>2 DEF TableInv, ReceiveInv, WorkersInv
<1>4. exe'.pc = "finish" /\ exe'.fr = f /\ procDone \in Seq(Frames) /\ Pipe \in Seq(Frames)
  BY <1>0, <1>1, <1>2, ExeGoes, PipeParts DEF TypeOK
<1>5. procDone = PairAt(f) /\ Pipe = << >>
  <2>1. Len(PairAt(f)) = 2
    BY DEF PairAt
  <2>2. Len(Pipe) = 0
    <3>1. Len(procDone \o Pipe) = Len(procDone) + Len(Pipe) /\ Len(Pipe) \in Nat
      BY <1>4, ConcatProperties, LenProperties
    <3> QED
      BY <1>1, <1>3, <2>1, <3>1
  <2>3. Pipe = << >>
    BY <1>4, <2>2, EmptySeq
  <2> QED
    BY <1>3, <1>4, <2>3, ConcatEmptySeq
<1>6. PICK x \in Frames, y \in Frames : /\ procDone = <<x, y>> /\ Group(f + 2) = <<y, x>>
  <2>1. /\ procDone = <<procDone[1], procDone[2]>>
        /\ procDone[1] \in Frames /\ procDone[2] \in Frames
    <3>1. 1 \in 1..Len(procDone) /\ 2 \in 1..Len(procDone)
      BY <1>1
    <3> QED
      BY <1>1, <1>4, <3>1, PairIs, ElementOfSeq
  <2>2. Group(f + 2) = <<PairAt(f)[2], PairAt(f)[1]>>
    <3>1. CASE f = 4
      BY <1>1, <3>1, MtAt DEF PairAt
    <3>2. CASE f >= 6
      <4>1. f + 2 >= 8 /\ f + 2 - 3 = f - 1 /\ f + 2 - 4 = f - 2 /\ f + 2 \in Nat
        BY <3>2
      <4>2. Group(f + 2) = <<f + 2 - 3, f + 2 - 4>>
        BY <1>1, <4>1, MtAt
      <4> QED
        BY <3>2, <4>1, <4>2 DEF PairAt
    <3> QED
      BY <1>3, <3>1, <3>2
  <2> QED
    BY <1>5, <2>1, <2>2
<1>7. outStack' = << <<y, x>> >>
  BY <1>1, <1>3, <1>6, ReverseTwo, One
<1>8. TypeOK'
  <2>1. outStack' \in Seq(Seq(Frames))
    <3>1. <<y, x>> \in Seq(Frames)
      BY TwoIn
    <3> QED
      BY <1>7, <3>1, OneIn
  <2>2. exe' \in [pc : {"loop", "receive", "finish", "tail", "drain", "flush",
                        "done", "panicked"}, fr : 0..(MaxFrames + 1)]
    BY <1>1, <1>2 DEF TypeOK, Goes
  <2>3. procDone' \in Seq(Frames)
    BY <1>1
  <2>4. UNCHANGED <<input, procStack, held, m2w, w2m, worker, src, tgt, read, out,
                    lost, mixed, result>>
    BY <1>1
  <2> QED
    BY <1>2, <2>1, <2>2, <2>3, <2>4 DEF TypeOK
<1>9. TableInv'
  <2>1. WorkersInv'
    BY <1>0, <1>1, <1>2, <1>4 DEF TableInv, WorkersInv, MainHasSender
  <2>2. Group(f)' = Group(f) /\ Group(f + 2)' = Group(f + 2) /\ Grouped(f)' /\ Width' = 2
    BY <1>1 DEF Group, Grouped, Width
  <2>3. Pipe' = << >>
    BY <1>1, <1>5, PipeSame
  <2>4. FinishInv'
    BY <1>1, <1>3, <1>4, <1>6, <1>7, <2>2, <2>3 DEF FinishInv
  <2> QED
    BY <1>4, <2>1, <2>4 DEF TableInv, LoopInv, ReceiveInv, TailInv, DrainInv, FlushInv, EndInv
<1>10. BlocksInv'
  <2>1. OutGroup = << >> /\ OutGroup' = <<y, x>>
    BY <1>3, <1>7, One DEF OutGroup
  <2>2. Pipe' = Pipe
    BY <1>1, PipeSame
  <2>3. Rest' = Rest
    <3>1. ToSet(<<x, y>>) = {x, y} /\ ToSet(<<y, x>>) = {y, x}
      BY Two
    <3> QED
      BY <1>1, <1>6, <2>1, <2>2, <3>1, Nil DEF Rest
  <2>4. Waiting' = Waiting
    <3>1. Len(<<x, y>>) = 2 /\ Len(<<y, x>>) = 2
      OBVIOUS
    <3> QED
      BY <1>1, <1>6, <2>1, <2>2, <3>1, Nil DEF Waiting
  <2> QED
    BY <1>1, <1>2, <2>3, <2>4, BlocksKept
<1>11. ReachInv'
  BY <1>1, <1>2 DEF ReachInv, WorkerUp, Near, Reach
<1>12. BuffersInv'
  <2>1. Buf(src, 2, 4) /\ Buf(tgt, 0, 4)
    BY <1>0, <1>1, <1>2 DEF BuffersInv, Buf
  <2> QED
    BY <1>1, <1>4, <2>1 DEF BuffersInv, Width, Buf
<1> QED
  BY <1>8, <1>9, <1>10, <1>11, <1>12 DEF IInv, LiveInv

-----------------------------------------------------------------------------
(* The end of both loops. *)

\* Blocks near their places, put behind others that are.
LEMMA NearConcat ==
  ASSUME NEW s \in Seq(Frames), NEW t \in Seq(Frames),
         \A i \in DOMAIN s : Near(i, s[i]),
         \A j \in 1..Len(t) : Near(Len(s) + j, t[j])
  PROVE  \A i \in DOMAIN (s \o t) : Near(i, (s \o t)[i])
<1>1. /\ Len(s) \in Nat /\ Len(t) \in Nat /\ DOMAIN s = 1..Len(s)
      /\ DOMAIN (s \o t) = 1..Len(s) + Len(t)
      /\ \A i \in 1..Len(s) + Len(t) : (s \o t)[i] = IF i <= Len(s) THEN s[i] ELSE t[i - Len(s)]
  BY ConcatProperties, LenProperties
<1> SUFFICES ASSUME NEW i \in 1..Len(s) + Len(t) PROVE Near(i, (s \o t)[i])
  BY <1>1
<1>2. CASE i <= Len(s)
  <2>1. i \in DOMAIN s
    BY <1>1, <1>2
  <2>2. Near(i, s[i])
    BY <2>1
  <2> QED
    BY <1>1, <1>2, <2>2
<1>3. CASE ~(i <= Len(s))
  <2>1. i - Len(s) \in 1..Len(t) /\ Len(s) + (i - Len(s)) = i
    BY <1>1, <1>3
  <2>2. Near(Len(s) + (i - Len(s)), t[i - Len(s)])
    BY <2>1
  <2> QED
    BY <1>1, <1>3, <2>1, <2>2
<1> QED
  BY <1>2, <1>3

LEMMA NearOne ==
  ASSUME NEW s \in Seq(Frames), NEW b \in Frames,
         \A i \in DOMAIN s : Near(i, s[i]), Near(Len(s) + 1, b)
  PROVE  \A i \in DOMAIN Append(s, b) : Near(i, Append(s, b)[i])
<1>1. <<b>> \in Seq(Frames) /\ Append(s, b) = s \o <<b>> /\ Len(<<b>>) = 1 /\ <<b>>[1] = b
  BY AppendThis
<1>2. \A j \in 1..Len(<<b>>) : Near(Len(s) + j, <<b>>[j])
  BY <1>1
<1> QED
  BY <1>1, <1>2, NearConcat

LEMMA NearTwo ==
  ASSUME NEW s \in Seq(Frames), NEW x \in Frames, NEW y \in Frames,
         \A i \in DOMAIN s : Near(i, s[i]), Near(Len(s) + 1, x), Near(Len(s) + 2, y)
  PROVE  \A i \in DOMAIN (s \o <<x, y>>) : Near(i, (s \o <<x, y>>)[i])
<1>1. <<x, y>> \in Seq(Frames) /\ Len(<<x, y>>) = 2
  BY TwoIn
<1>2. \A j \in 1..Len(<<x, y>>) : Near(Len(s) + j, <<x, y>>[j])
  BY <1>1
<1> QED
  BY <1>1, <1>2, NearConcat

\* Every group holds Width blocks.
LEMMA GroupOf ==
  ASSUME NEW f \in Nat, Grouped(f), input.mt => f \in {4, 6} \/ f >= 8
  PROVE  /\ ~input.mt => \E x \in Nat : Group(f) = <<x>> /\ x < f
         /\ input.mt => \E x \in Nat, y \in Nat : Group(f) = <<x, y>> /\ x < f /\ y < f
<1>1. CASE ~input.mt
  <2>1. f >= 1 /\ Group(f) = IF f = 1 THEN <<0>> ELSE <<f - 2>>
    BY <1>1 DEF Group, Grouped
  <2>2. CASE f = 1
    BY <1>1, <2>1, <2>2
  <2>3. CASE f # 1
    <3>1. f - 2 \in Nat /\ f - 2 < f /\ Group(f) = <<f - 2>>
      BY <2>1, <2>3
    <3> QED
      BY <1>1, <3>1
  <2> QED
    BY <2>2, <2>3
<1>2. CASE input.mt
  <2>1. CASE f = 4
    BY <1>2, <2>1, MtAt
  <2>2. CASE f = 6
    BY <1>2, <2>2, MtAt
  <2>3. CASE f >= 8
    <3>1. Group(f) = <<f - 3, f - 4>> /\ f - 3 \in Nat /\ f - 4 \in Nat /\ f - 3 < f /\ f - 4 < f
      BY <1>2, <2>3, MtAt
    <3> QED
      BY <1>2, <3>1
  <2> QED
    BY <1>2, <2>1, <2>2, <2>3
<1> QED
  BY <1>1, <1>2

LEMMA GroupLength ==
  ASSUME NEW f \in Nat, Grouped(f), input.mt => f \in {4, 6} \/ f >= 8
  PROVE  Len(Group(f)) = Width
<1>1. CASE ~input.mt
  BY <1>1, GroupOf, One DEF Width
<1>2. CASE input.mt
  <2>1. PICK x \in Nat, y \in Nat : Group(f) = <<x, y>>
    BY <1>2, GroupOf
  <2> QED
    BY <1>2, <2>1, Two DEF Width
<1> QED
  BY <1>1, <1>2

\* Where the blocks of a group go: `out` then holds two groups' worth less than
\* what is read.
LEMMA GroupNear ==
  ASSUME NEW f \in Nat, f >= 2, Grouped(f), input.mt => f \in {4, 6} \/ f >= 8,
         NEW s \in Seq(Frames), Group(f) \in Seq(Frames), Len(s) = f - 2 * Width,
         \A i \in DOMAIN s : Near(i, s[i])
  PROVE  \A i \in DOMAIN (s \o Group(f)) : Near(i, (s \o Group(f))[i])
<1>1. CASE ~input.mt
  <2>1. Group(f) = <<f - 2>> /\ Len(s) = f - 2
    BY <1>1, StAt DEF Width
  <2>2. f - 2 \in Frames
    <3>1. Len(Group(f)) = 1 /\ Group(f)[1] = f - 2 /\ 1 \in 1..1
      BY <2>1
    <3> QED
      BY <3>1, ElementOfSeq
  <2>3. Near(Len(s) + 1, f - 2)
    BY <1>1, <2>1 DEF Near, Reach
  <2>4. Append(s, f - 2) = s \o Group(f)
    BY <2>1, <2>2, AppendThis
  <2> HIDE DEF Near
  <2>5. \A i \in DOMAIN Append(s, f - 2) : Near(i, Append(s, f - 2)[i])
    BY <2>2, <2>3, NearOne
  <2> QED
    BY <2>4, <2>5
<1>2. CASE input.mt
  <2>1. PICK x \in Nat, y \in Nat : /\ Group(f) = <<x, y>>
                                    /\ Near(f - 3, x) /\ Near(f - 2, y)
    <3>1. CASE f = 4
      <4>1. Near(f - 3, 3) /\ Near(f - 2, 0)
        BY <1>2, <3>1 DEF Near, Reach
      <4> QED
        BY <1>2, <3>1, <4>1, MtAt
    <3>2. CASE f = 6
      <4>1. Near(f - 3, 2) /\ Near(f - 2, 1)
        BY <1>2, <3>2 DEF Near, Reach
      <4> QED
        BY <1>2, <3>2, <4>1, MtAt
    <3>3. CASE f >= 8
      <4>1. Near(f - 3, f - 3) /\ Near(f - 2, f - 4) /\ f - 3 \in Nat /\ f - 4 \in Nat
        BY <1>2, <3>3 DEF Near, Reach
      <4> QED
        BY <1>2, <3>3, <4>1, MtAt
    <3> QED
      BY <1>2, <3>1, <3>2, <3>3
  <2>2. x \in Frames /\ y \in Frames
    <3>1. Len(Group(f)) = 2 /\ Group(f)[1] = x /\ Group(f)[2] = y /\ 1 \in 1..2 /\ 2 \in 1..2
      BY <2>1
    <3> QED
      BY <3>1, ElementOfSeq
  <2>3. Len(s) + 1 = f - 3 /\ Len(s) + 2 = f - 2
    BY <1>2 DEF Width
  <2> QED
    BY <2>1, <2>2, <2>3, NearTwo
<1> QED
  BY <1>1, <1>2

\* A pair, or one block, is read and another one written.
LEMMA FinishStep ==
  ASSUME IInv, Finish
  PROVE  IInv'
<1>0. PICK f \in Nat : exe.fr = f
  BY Numbers DEF IInv
<1>a. PICK k \in {1, 2} : Width = k
  BY DEF Width
<1>1. /\ exe.pc = "finish" /\ HasRead(k)
      /\ procStack' = [i \in 1..k |-> f + i - 1]
      /\ read' = read + k /\ out' = out \o held /\ held' = << >>
      /\ tgt' = Push(tgt, k) /\ exe' = [pc |-> "loop", fr |-> f + k]
      /\ UNCHANGED <<input, outStack, procDone, m2w, w2m, worker, src, lost, mixed, result>>
  BY <1>0, <1>a DEF Finish, channels, Advance
<1>2. TypeOK /\ TableInv /\ BlocksInv /\ BuffersInv /\ ReachInv
  BY <1>1 DEF IInv, LiveInv
<1>3. /\ f < input.total /\ Grouped(f) /\ f >= 2 /\ read = f
      /\ outStack = <<Group(f + k)>> /\ held = Group(f)
      /\ procStack = << >> /\ procDone = << >> /\ Pipe = << >> /\ lost = {}
      /\ input.mt => f \in {4, 6} \/ f >= 8
  BY <1>0, <1>a, <1>1, <1>2 DEF TableInv, FinishInv, WorkersInv, Grouped
<1>4. /\ k \in {1, 2} /\ f < MaxFrames /\ MaxFrames \in Nat /\ f + k <= MaxFrames
      /\ f + k \in Nat
  BY <1>a, <1>1, <1>2, <1>3, Numbers DEF HasRead
<1>5. /\ Grouped(f + k)
      /\ input.mt => f + k = 6 \/ f + k >= 8
      /\ input.mt => f + k \in {4, 6} \/ f + k >= 8
  BY <1>a, <1>3, <1>4 DEF Grouped, Width
<1>6. Pipe' = << >>
  BY <1>1, <1>3, PipeSame
<1>7. procStack' = ProcAt(f + k) /\ ToSet(procStack') = f..(f + k - 1)
      /\ Len(procStack') = k /\ procStack' \in Seq(Frames)
  <2>1. CASE ~input.mt
    <3>1. k = 1 /\ procStack' = <<f>>
      BY <1>a, <1>1, <2>1 DEF Width
    <3>2. ProcAt(f + 1) = <<f + 1 - 1>> /\ f + 1 - 1 = f
      BY <1>3, <2>1, StAt
    <3>3. ToSet(<<f>>) = {f} /\ f \in Frames
      BY <1>4, One DEF Frames
    <3> QED
      BY <3>1, <3>2, <3>3
  <2>2. CASE input.mt
    <3>1. k = 2 /\ procStack' = <<f, f + 1>>
      BY <1>a, <1>1, <2>2 DEF Width
    <3>2. ProcAt(f + 2) = <<f + 2 - 2, f + 2 - 1>> /\ f + 2 - 2 = f /\ f + 2 - 1 = f + 1
      BY <1>3, <2>2, MtAt
    <3>3. ToSet(<<f, f + 1>>) = {f, f + 1}
      BY Two
    <3>4. f \in Frames /\ f + 1 \in Frames
      BY <1>4, <3>1 DEF Frames
    <3>5. <<f, f + 1>> \in Seq(Frames) /\ Len(<<f, f + 1>>) = 2
      BY <3>4, TwoIn
    <3>6. f..(f + 2 - 1) = {f, f + 1}
      OBVIOUS
    <3> QED
      BY <3>1, <3>2, <3>3, <3>5, <3>6
  <2> QED
    BY <2>1, <2>2
<1>8. held \in Seq(Frames) /\ out \in Seq(Frames) /\ Len(out) \in Nat
      /\ Len(held) = k /\ Len(Group(f + k)) = k
  <2>1. Len(Group(f)) = k
    BY <1>a, <1>3, GroupLength
  <2>2. Len(Group(f + k)) = k
    BY <1>a, <1>4, <1>5, GroupLength
  <2>3. held \in Seq(Frames) /\ out \in Seq(Frames)
    BY <1>2 DEF TypeOK
  <2> QED
    BY <1>3, <2>1, <2>2, <2>3, LenProperties
<1>9. OutGroup = Group(f + k) /\ OutGroup' = Group(f + k)
  BY <1>1, <1>3, One DEF OutGroup
<1>10. Waiting = 2 * k /\ Waiting' = 2 * k /\ Len(out) = f - 2 * k
  <2>1. Waiting = k + 0 + 0 + k + 0
    BY <1>3, <1>8, <1>9, Nil DEF Waiting
  <2>2. Waiting' = k + k + 0 + 0 + 0
    BY <1>1, <1>3, <1>6, <1>7, <1>8, <1>9, Nil DEF Waiting
  <2>3. Len(out) + 0 + Waiting = f
    BY <1>2, <1>3, FS_EmptySet DEF BlocksInv
  <2> QED
    BY <1>4, <1>8, <2>1, <2>2, <2>3
<1>11. TypeOK'
  <2>1. out' \in Seq(Frames)
    BY <1>1, <1>8, ConcatProperties
  <2>2. tgt' \in [free : Nat, made : Nat]
    BY <1>1, <1>2, <1>4, BufferTypes DEF TypeOK
  <2>3. exe' \in [pc : {"loop", "receive", "finish", "tail", "drain", "flush",
                        "done", "panicked"}, fr : 0..(MaxFrames + 1)]
    BY <1>1, <1>4
  <2>4. read' \in Nat /\ held' \in Seq(Frames)
    BY <1>1, <1>3, <1>4
  <2> QED
    BY SMTT(30), <1>1, <1>2, <1>7, <2>1, <2>2, <2>3, <2>4 DEF TypeOK
<1>12. TableInv'
  <2>1. WorkersInv'
    BY <1>1, <1>2, <1>5 DEF TableInv, WorkersInv, MainHasSender
  <2>2. /\ OutAt(f + k)' = <<Group(f + k)>> /\ ProcAt(f + k)' = ProcAt(f + k)
        /\ PipeAt(f + k)' = << >>
    <3>1. OutAt(f + k) = <<Group(f + k)>>
      BY <1>5 DEF OutAt, Grouped
    <3>2. PipeAt(f + k) = << >>
      <4>1. input.mt => f + k # 2 /\ f + k # 4
        BY <1>4, <1>5
      <4> QED
        BY <4>1 DEF PipeAt
    <3> QED
      BY <1>1, <3>1, <3>2 DEF OutAt, ProcAt, PipeAt, Group, Grouped, Width
  <2>3. LoopInv'
    BY <1>1, <1>3, <1>6, <1>7, <2>2 DEF LoopInv
  <2> QED
    BY <1>1, <2>1, <2>3 DEF TableInv, ReceiveInv, FinishInv, TailInv, DrainInv, FlushInv, EndInv
<1>13. BlocksInv'
  <2>1. ToSet(out') = ToSet(out) \cup ToSet(held) /\ Len(out') = Len(out) + k
    BY <1>1, <1>8, ConcatProperties, ToSetConcat
  <2>2. Rest = ToSet(Group(f + k)) \cup ToSet(held)
    BY <1>3, <1>9, Nil DEF Rest
  <2>3. Rest' = ToSet(Group(f + k)) \cup f..(f + k - 1)
    BY <1>1, <1>3, <1>6, <1>7, <1>9, Nil DEF Rest
  <2>4. 0..(f + k - 1) = 0..(f - 1) \cup f..(f + k - 1)
    BY <1>4
  <2>5. ToSet(out') \cup lost' \cup Rest' = 0..(read' - 1)
    BY <1>1, <1>2, <1>3, <2>1, <2>2, <2>3, <2>4 DEF BlocksInv
  <2>6. Len(out') + Cardinality(lost') + Waiting' = read'
    BY <1>1, <1>3, <1>4, <1>8, <1>10, <2>1, FS_EmptySet
  <2> QED
    BY <1>1, <1>3, <2>5, <2>6 DEF BlocksInv, HasRead
<1>14. ReachInv'
  <2> SUFFICES ASSUME WorkerUp PROVE (\A i \in DOMAIN out : Near(i, out[i]))'
    BY <1>1 DEF ReachInv, WorkerUp
  <2>1. \A i \in DOMAIN out : Near(i, out[i])
    BY <1>2, <1>3 DEF ReachInv
  <2>2. \A i \in DOMAIN (out \o held) : Near(i, (out \o held)[i])
    BY <1>3, <1>8, <1>10, <1>a, <2>1, GroupNear
  <2> QED
    BY <1>1, <2>2 DEF Near, Reach
<1>15. BuffersInv'
  <2>1. CASE ~input.mt
    <3>1. Buf(src, 1, 2) /\ tgt = [free |-> 0, made |-> 2] /\ k = 1
      BY <1>a, <1>1, <1>2, <2>1 DEF BuffersInv, TypeOK, Buf, Width
    <3>2. tgt' = [free |-> 1, made |-> 2]
      BY <1>1, <3>1 DEF Push
    <3> QED
      BY <1>1, <1>3, <2>1, <3>1, <3>2 DEF BuffersInv, Width, Buf
  <2>2. CASE input.mt
    <3>1. Buf(src, 2, 4) /\ tgt = [free |-> 0, made |-> 4] /\ k = 2 /\ f >= 4
      BY <1>a, <1>1, <1>2, <1>3, <2>2 DEF BuffersInv, TypeOK, Buf, Width
    <3>2. tgt' = [free |-> 2, made |-> 4]
      BY <1>1, <3>1 DEF Push
    <3> QED
      BY <1>1, <1>3, <2>2, <3>1, <3>2 DEF BuffersInv, Width, Buf
  <2> QED
    BY <2>1, <2>2
<1> QED
  BY <1>11, <1>12, <1>13, <1>14, <1>15 DEF IInv, LiveInv

\* The table depends on the input alone.
LEMMA TableSame ==
  ASSUME UNCHANGED input, NEW f \in Nat
  PROVE  /\ OutAt(f)' = OutAt(f) /\ ProcAt(f)' = ProcAt(f) /\ PipeAt(f)' = PipeAt(f)
         /\ Group(f)' = Group(f) /\ Width' = Width /\ Reach' = Reach
         /\ Grouped(f)' <=> Grouped(f)
BY DEF OutAt, ProcAt, PipeAt, Grouped, Group, Width, Reach

LEMMA PcTypes ==
  ASSUME TypeOK, NEW pc \in {"loop", "receive", "finish", "tail", "drain", "flush",
                             "done", "panicked"}, Goes(pc)
  PROVE  exe' \in [pc : {"loop", "receive", "finish", "tail", "drain", "flush",
                         "done", "panicked"}, fr : 0..(MaxFrames + 1)]
BY DEF TypeOK, Goes

\* A step that only moves the reading executor on.
LEMMA OnlyGoes ==
  ASSUME TypeOK, BlocksInv, ReachInv,
         NEW pc \in {"loop", "receive", "finish", "tail", "drain", "flush",
                     "done", "panicked"}, Goes(pc),
         UNCHANGED <<input, stacks, channels, buffers, read, file, mixed, result>>
  PROVE  /\ TypeOK' /\ BlocksInv' /\ ReachInv' /\ Pipe' = Pipe
<1>1. /\ UNCHANGED <<input, procStack, procDone, outStack, held, m2w, w2m, worker, src, tgt,
                     read, out, lost, mixed, result>>
  BY DEF stacks, channels, buffers, file
<1>2. TypeOK'
  BY <1>1, PcTypes DEF TypeOK
<1>3. Pipe' = Pipe
  BY <1>1, PipeSame
<1>4. Rest' = Rest /\ Waiting' = Waiting
  BY <1>1, <1>3 DEF Rest, Waiting, OutGroup
<1> QED
  BY <1>1, <1>2, <1>3, <1>4, BlocksKept DEF ReachInv, WorkerUp, Near, Reach

LEMMA EndInputStep ==
  ASSUME IInv, EndInput
  PROVE  IInv'
<1>0. PICK f \in Nat : exe.fr = f
  BY Numbers DEF IInv
<1>1. /\ exe.pc = "loop" /\ Goes("tail")
      /\ UNCHANGED <<input, stacks, channels, buffers, read, file, mixed, result>>
      /\ UNCHANGED <<input, procStack, procDone, outStack, held, m2w, w2m, worker, src, tgt,
                     read, lost>>
  BY DEF EndInput, stacks, channels, buffers, file
<1>2. TypeOK /\ TableInv /\ BlocksInv /\ BuffersInv /\ ReachInv
  BY <1>1 DEF IInv, LiveInv
<1>3. /\ outStack = OutAt(f) /\ procStack = ProcAt(f) /\ procDone = << >> /\ held = << >>
      /\ Pipe = PipeAt(f) /\ read = f /\ exe'.pc = "tail" /\ exe'.fr = f
      /\ input.mt => f \in {0, 2, 4, 6} \/ f >= 8
  BY <1>0, <1>1, <1>2, ExeGoes DEF TableInv, LoopInv, WorkersInv
<1>4. TypeOK' /\ BlocksInv' /\ ReachInv' /\ Pipe' = Pipe
  BY <1>1, <1>2, OnlyGoes
<1>5. TableInv'
  <2>1. WorkersInv'
    BY <1>0, <1>1, <1>2, <1>3 DEF TableInv, WorkersInv, MainHasSender
  <2>2. TailInv' /\ EndInv'
    BY <1>1, <1>3, <1>4, TableSame DEF TailInv, EndInv
  <2> QED
    BY <1>3, <2>1, <2>2 DEF TableInv, LoopInv, ReceiveInv, FinishInv, DrainInv, FlushInv
<1>6. BuffersInv'
  <2>1. CASE ~input.mt
    <3>1. CASE f <= 1
      <4>1. procStack = << >> /\ tgt.free >= 0
        BY <1>2, <1>3, <2>1, <3>1 DEF ProcAt, TypeOK
      <4> QED
        BY <1>1, <1>2, <1>3, <2>1, <4>1, Nil DEF BuffersInv, Width
    <3>2. CASE f >= 2
      <4>1. procStack = <<f - 1>> /\ Len(procStack) = 1
        BY <1>3, <2>1, <3>2, StAt
      <4>2. tgt.free >= 1 \/ tgt.made = 1
        BY <1>0, <1>1, <1>2, <2>1, <3>2 DEF BuffersInv, Buf
      <4>3. src.made <= 2 /\ tgt.made <= 2
        BY <1>2, <2>1 DEF BuffersInv, Width
      <4> QED
        BY <1>1, <1>3, <2>1, <4>1, <4>2, <4>3 DEF BuffersInv, Width
    <3> QED
      BY <3>1, <3>2
  <2>2. CASE input.mt
    <3>1. CASE f \in {0, 2, 4}
      <4>1. procStack = << >> /\ tgt.free >= 0
        BY <1>2, <1>3, <2>2, <3>1, MtAt DEF TypeOK
      <4> QED
        BY <1>1, <1>2, <1>3, <2>2, <4>1, Nil DEF BuffersInv, Width
    <3>2. CASE f >= 6
      <4>1. procStack = <<f - 2, f - 1>> /\ Len(procStack) = 2
        BY <1>3, <2>2, <3>2, MtAt, Two
      <4>2. tgt.free >= 2
        BY <1>0, <1>1, <1>2, <2>2, <3>2 DEF BuffersInv, Buf
      <4>3. src.made <= 4 /\ tgt.made <= 4
        BY <1>2, <2>2 DEF BuffersInv, Width
      <4> QED
        BY <1>1, <1>3, <2>2, <4>1, <4>2, <4>3 DEF BuffersInv, Width
    <3> QED
      BY <1>3, <2>2, <3>1, <3>2
  <2> QED
    BY <2>1, <2>2
<1> QED
  BY <1>4, <1>5, <1>6 DEF IInv, LiveInv

LEMMA AppendedFrame ==
  ASSUME NEW s \in Seq(Frames), NEW x \in Frames
  PROVE  Len(Append(s, x)) = Len(s) + 1 /\ ToSet(Append(s, x)) = ToSet(s) \cup {x}
<1>1. Len(Append(s, x)) = Len(s) + 1 /\ <<x>> \in Seq(Frames)
  OBVIOUS
<1>2. Append(s, x) = s \o <<x>>
  BY AppendThis
<1>3. ToSet(s \o <<x>>) = ToSet(s) \cup ToSet(<<x>>)
  BY <1>1, ToSetConcat
<1>4. ToSet(<<x>>) = {x}
  BY One
<1> QED
  BY <1>1, <1>2, <1>3, <1>4

\* A write whose error is not looked at: the block is in the output, or lost.
LEMMA BlocksWritten ==
  ASSUME TypeOK, BlocksInv, NEW b \in Frames, WriteUnchecked(b), UNCHANGED <<input, read>>,
         Rest = Rest' \cup {b}, b \notin Rest', Waiting' \in Nat, Waiting = Waiting' + 1
  PROVE  BlocksInv'
<1>1. /\ out \in Seq(Frames) /\ Len(out) \in Nat /\ IsFiniteSet(lost)
      /\ Cardinality(lost) \in Nat /\ b \notin lost
  <2>1. IsFiniteSet(Frames) /\ lost \subseteq Frames
    BY GlommioAssumption, FS_Interval DEF TypeOK, Frames
  <2> QED
    BY <2>1, FS_Subset, FS_CardinalityType, LenProperties DEF TypeOK, BlocksInv
<1>2. Len(out) + Cardinality(lost) + (Waiting' + 1) = read
  BY DEF BlocksInv
<1>3. CASE out' = Append(out, b) /\ lost' = lost
  <2>1. Len(out') = Len(out) + 1 /\ ToSet(out') = ToSet(out) \cup {b}
    <3>1. out \in Seq(Frames) /\ b \in Frames /\ out' = Append(out, b)
      BY <1>1, <1>3
    <3>2. /\ Len(Append(out, b)) = Len(out) + 1
          /\ ToSet(Append(out, b)) = ToSet(out) \cup {b}
      BY <3>1, AppendedFrame
    <3> QED
      BY <3>1, <3>2
  <2>2. Len(out') + Cardinality(lost') + Waiting' = read'
    BY <1>1, <1>2, <1>3, <2>1
  <2> QED
    BY <1>3, <2>1, <2>2 DEF BlocksInv
<1>4. CASE lost' = lost \cup {b} /\ out' = out
  <2>1. Cardinality(lost') = Cardinality(lost) + 1
    BY <1>1, <1>4, FS_AddElement
  <2>2. Len(out') + Cardinality(lost') + Waiting' = read'
    BY <1>1, <1>2, <1>4, <2>1
  <2> QED
    BY <1>4, <2>2 DEF BlocksInv
<1> QED
  BY <1>3, <1>4 DEF WriteUnchecked

LEMMA ReachWritten ==
  ASSUME TypeOK, ReachInv, NEW b \in Frames, WriteUnchecked(b), UNCHANGED <<input, worker>>,
         lost = {} /\ WorkerUp => Near(Len(out) + 1, b)
  PROVE  ReachInv'
<1> SUFFICES ASSUME lost' = {}, WorkerUp PROVE (\A i \in DOMAIN out : Near(i, out[i]))'
  BY DEF ReachInv, WorkerUp
<1>1. lost = {} /\ out' = Append(out, b) /\ out \in Seq(Frames)
  BY DEF WriteUnchecked, TypeOK
<1>2. \A i \in DOMAIN out : Near(i, out[i])
  BY <1>1 DEF ReachInv
<1>3. \A i \in DOMAIN Append(out, b) : Near(i, Append(out, b)[i])
  BY <1>1, <1>2, NearOne
<1> QED
  BY <1>1, <1>3 DEF Near, Reach

LEMMA WriteTypes ==
  ASSUME TypeOK, NEW b \in Frames, WriteUnchecked(b)
  PROVE  out' \in Seq(Frames) /\ lost' \subseteq Frames
<1>1. out \in Seq(Frames) /\ lost \subseteq Frames
  BY DEF TypeOK
<1>2. Append(out, b) \in Seq(Frames)
  BY <1>1, AppendThis
<1> QED
  BY <1>1, <1>2 DEF WriteUnchecked

\* The blocks of the last pair written are older than those read with it, and
\* may be written last.
LEMMA LastGroup ==
  ASSUME NEW f \in Nat, input.mt, f = 6 \/ f >= 8
  PROVE  \E x \in Nat, y \in Nat : /\ Group(f) = <<x, y>> /\ x < f - 2 /\ y < f - 2
                                   /\ Near(f - 1, x) /\ Near(f, y)
<1>1. CASE f = 6
  <2>1. Group(f) = <<2, 1>> /\ Near(f - 1, 2) /\ Near(f, 1)
    BY <1>1, MtAt DEF Near, Reach
  <2> QED
    BY <1>1, <2>1
<1>2. CASE f >= 8
  <2>1. /\ Group(f) = <<f - 3, f - 4>> /\ f - 3 \in Nat /\ f - 4 \in Nat
        /\ f - 3 < f - 2 /\ f - 4 < f - 2 /\ Near(f - 1, f - 3) /\ Near(f, f - 4)
    BY <1>2, MtAt DEF Near, Reach
  <2> QED
    BY <2>1
<1> QED
  BY <1>1, <1>2

\* After the loop: the blocks not processed, ...
LEMMA TailProcessStep ==
  ASSUME IInv, TailProcess
  PROVE  IInv'
<1>0. PICK f \in Nat : exe.fr = f
  BY Numbers DEF IInv
<1> DEFINE b == Last(procStack)
<1>1. /\ exe.pc = "tail" /\ procStack # << >> /\ tgt' = Pop(tgt, 1) /\ WriteUnchecked(b)
      /\ procStack' = Front(procStack)
      /\ UNCHANGED <<input, exe, procDone, outStack, held, m2w, w2m, worker, src, read,
                     mixed, result>>
  BY DEF TailProcess, channels
<1>2. TypeOK /\ TableInv /\ BlocksInv /\ BuffersInv /\ ReachInv
  BY <1>1 DEF IInv, LiveInv
<1>3. /\ outStack = OutAt(f) /\ procDone = << >> /\ held = << >> /\ Pipe = PipeAt(f) /\ read = f
      /\ procStack = ProcAt(f) \/ (input.mt /\ f >= 6 /\ procStack = <<f - 2>>)
      /\ input.mt => f \in {0, 2, 4, 6} \/ f >= 8
  BY <1>0, <1>1, <1>2 DEF TableInv, TailInv, EndInv, WorkersInv
<1>4. f <= MaxFrames /\ MaxFrames \in Nat /\ procStack \in Seq(Frames)
  BY <1>2, <1>3, Numbers DEF BlocksInv, TypeOK
<1>5. Pipe' = Pipe
  BY <1>1, PipeSame
\* The cases: one block, or the first or the second of a pair.
<1>6. /\ b \in Frames /\ procStack' \in Seq(Frames)
      /\ Rest = Rest' \cup {b} /\ b \notin Rest'
      /\ Waiting' \in Nat /\ Waiting = Waiting' + 1
      /\ lost = {} => Near(Len(out) + 1, b)
      /\ Len(procStack) = Len(procStack') + 1 /\ Len(procStack') \in Nat
      /\ procStack' = << >> \/ (input.mt /\ f >= 6 /\ procStack' = <<f - 2>>)
  <2>0. lost = {} => Len(out) \in Nat /\ Len(out) + Waiting = f
    <3> SUFFICES ASSUME lost = {} PROVE Len(out) \in Nat /\ Len(out) + Waiting = f
      OBVIOUS
    <3>1. Len(out) \in Nat /\ Len(out) + 0 + Waiting = f
      BY <1>2, <1>3, Numbers, FS_EmptySet DEF BlocksInv
    <3>2. Waiting \in Nat
      <4>1. /\ OutGroup \in Seq(Frames) /\ procStack \in Seq(Frames) /\ Pipe \in Seq(Frames)
        <5>1. outStack # << >> => outStack = <<Group(f)>>
          BY <1>3 DEF OutAt
        <5>2. outStack # << >> => Len(outStack) = 1 /\ Last(outStack) = outStack[1] /\ 1 \in 1..1
          BY <5>1 DEF Last
        <5>3. outStack \in Seq(Seq(Frames))
          BY <1>2 DEF TypeOK
        <5>4. outStack # << >> => Last(outStack) \in Seq(Frames)
          BY <5>2, <5>3, ElementOfSeq
        <5> QED
          BY <1>2, <1>4, <5>4, PipeParts DEF OutGroup
      <4>2. Len(OutGroup) \in Nat /\ Len(procStack) \in Nat /\ Len(Pipe) \in Nat
        BY <4>1, LenProperties
      <4> QED
        BY <1>3, <4>2, Nil DEF Waiting
    <3> QED
      BY <3>1, <3>2
  <2>1. CASE ~input.mt
    <3>1. f >= 2 /\ procStack = <<f - 1>> /\ outStack = << <<f - 2>> >> /\ Pipe = << >>
      <4>1. f >= 2
        BY <1>1, <1>3, <2>1 DEF ProcAt
      <4> QED
        BY <1>1, <1>3, <2>1, <4>1, StAt
    <3>2. b = f - 1 /\ procStack' = << >>
      BY <1>1, <3>1, One
    <3>3. OutGroup = <<f - 2>> /\ OutGroup' = <<f - 2>>
      BY <1>1, <3>1, One DEF OutGroup
    <3>4. f - 1 \in Frames /\ f - 1 # f - 2
      BY <1>4, <3>1 DEF Frames
    <3>5. Rest = {f - 1, f - 2} /\ Rest' = {f - 2}
      BY <1>1, <1>3, <1>5, <3>1, <3>2, <3>3, One, Nil DEF Rest
    <3>6. Waiting = 2 /\ Waiting' = 1 /\ Len(procStack) = 1 /\ Len(procStack') = 0
      BY <1>1, <1>3, <1>5, <3>1, <3>2, <3>3, One, Nil DEF Waiting
    <3>7. lost = {} => Near(Len(out) + 1, f - 1)
      BY <2>0, <2>1, <3>1, <3>6 DEF Near, Reach
    <3> QED
      BY <3>2, <3>4, <3>5, <3>6, <3>7
  <2>2. CASE input.mt /\ procStack = <<f - 2>> /\ f >= 6
    <3>1. PICK x \in Nat, y \in Nat : Group(f) = <<x, y>> /\ x < f - 2 /\ y < f - 2
      BY <1>3, <2>2, LastGroup
    <3>2. outStack = << <<x, y>> >> /\ Pipe = << >>
      BY <1>3, <2>2, <3>1, MtAt
    <3>3. b = f - 2 /\ procStack' = << >>
      BY <1>1, <2>2, One
    <3>4. OutGroup = <<x, y>> /\ OutGroup' = <<x, y>>
      BY <1>1, <3>2, One DEF OutGroup
    <3>5. f - 2 \in Frames /\ f - 2 # x /\ f - 2 # y
      BY <1>4, <2>2, <3>1 DEF Frames
    <3>6. Rest = {x, y, f - 2} /\ Rest' = {x, y}
      <4>1. ToSet(<<x, y>>) = {x, y}
        BY Two
      <4> QED
        BY <1>1, <1>3, <1>5, <2>2, <3>2, <3>3, <3>4, <4>1, One, Nil DEF Rest
    <3>7. Waiting = 3 /\ Waiting' = 2 /\ Len(procStack) = 1 /\ Len(procStack') = 0
      BY <1>1, <1>3, <1>5, <2>2, <3>2, <3>3, <3>4, One, Two, Nil DEF Waiting
    <3>8. lost = {} => Near(Len(out) + 1, f - 2)
      BY <2>0, <2>2, <3>7 DEF Near, Reach
    <3> QED
      BY <3>3, <3>5, <3>6, <3>7, <3>8
  <2>3. CASE input.mt /\ procStack = ProcAt(f)
    <3>0. f >= 6
      BY <1>1, <1>3, <2>3, MtAt
    <3>1. PICK x \in Nat, y \in Nat : Group(f) = <<x, y>> /\ x < f - 2 /\ y < f - 2
      BY <1>3, <2>3, <3>0, LastGroup
    <3>2. outStack = << <<x, y>> >> /\ Pipe = << >> /\ procStack = <<f - 2, f - 1>>
      BY <1>3, <2>3, <3>0, <3>1, MtAt
    <3>3. b = f - 1 /\ procStack' = <<f - 2>>
      <4>1. Last(<<f - 2, f - 1>>) = f - 1
        BY Two
      <4>2. Front(<<f - 2, f - 1>>) = <<f - 2>>
        BY FrontOfTwo
      <4> QED
        BY <1>1, <3>2, <4>1, <4>2
    <3>4. OutGroup = <<x, y>> /\ OutGroup' = <<x, y>>
      BY <1>1, <3>2, One DEF OutGroup
    <3>5. f - 1 \in Frames /\ f - 2 \in Frames /\ f - 1 # x /\ f - 1 # y /\ f - 1 # f - 2
      BY <1>4, <3>0, <3>1 DEF Frames
    <3>6. Rest = {x, y, f - 2, f - 1} /\ Rest' = {x, y, f - 2}
      <4>1. ToSet(<<x, y>>) = {x, y} /\ ToSet(<<f - 2, f - 1>>) = {f - 2, f - 1}
        BY Two
      <4>2. ToSet(<<f - 2>>) = {f - 2}
        BY One
      <4> QED
        BY <1>1, <1>3, <1>5, <3>2, <3>3, <3>4, <4>1, <4>2, Nil DEF Rest
    <3>7. Waiting = 4 /\ Waiting' = 3 /\ Len(procStack) = 2 /\ Len(procStack') = 1
      BY <1>1, <1>3, <1>5, <3>2, <3>3, <3>4, One, Two, Nil DEF Waiting
    <3>8. lost = {} => Near(Len(out) + 1, f - 1)
      BY <2>0, <2>3, <3>0, <3>7 DEF Near, Reach
    <3>9. <<f - 2>> \in Seq(Frames)
      BY <3>5, OneIn
    <3> QED
      BY <2>3, <3>0, <3>3, <3>5, <3>6, <3>7, <3>8, <3>9
  <2> QED
    BY <1>3, <2>1, <2>2, <2>3
<1> HIDE DEF b
<1>7. TypeOK'
  <2>1. tgt' \in [free : Nat, made : Nat]
    BY <1>1, <1>2, BufferTypes DEF TypeOK
  <2>2. out' \in Seq(Frames) /\ lost' \subseteq Frames
    BY <1>1, <1>2, <1>6, WriteTypes
  <2> QED
    BY <1>1, <1>2, <1>6, <2>1, <2>2 DEF TypeOK
<1>8. TableInv'
  <2>1. WorkersInv'
    BY <1>1, <1>2 DEF TableInv, WorkersInv, MainHasSender
  <2>2. TailInv' /\ EndInv'
    BY <1>0, <1>1, <1>3, <1>5, <1>6, TableSame DEF TailInv, EndInv
  <2> QED
    BY <1>1, <2>1, <2>2 DEF TableInv, LoopInv, ReceiveInv, FinishInv, DrainInv, FlushInv
<1>9. BlocksInv'
  BY <1>1, <1>2, <1>6, BlocksWritten
<1>10. ReachInv'
  BY <1>1, <1>2, <1>6, ReachWritten
<1>11. BuffersInv'
  <2>1. tgt.free >= Len(procStack) \/ tgt.made + Len(procStack) <= 2 * Width
    BY <1>1, <1>2 DEF BuffersInv
  <2>2. /\ src.made <= 2 * Width /\ tgt.made <= 2 * Width /\ tgt \in [free : Nat, made : Nat]
        /\ Width \in Nat
    BY <1>2 DEF BuffersInv, TypeOK, Width
  <2>3. /\ tgt'.free >= Len(procStack') \/ tgt'.made + Len(procStack') <= 2 * Width
        /\ tgt'.made <= 2 * Width
    <3>1. CASE tgt.free >= 1
      <4>1. tgt'.free = tgt.free - 1 /\ tgt'.made = tgt.made
        BY <1>1, <2>2, <3>1 DEF Pop
      <4> QED
        BY <1>6, <2>1, <2>2, <4>1
    <3>2. CASE tgt.free = 0
      <4>1. tgt'.free = 0 /\ tgt'.made = tgt.made + 1
        BY <1>1, <2>2, <3>2 DEF Pop
      <4> QED
        BY <1>6, <2>1, <2>2, <3>2, <4>1
    <3> QED
      BY <2>2, <3>1, <3>2
  <2> QED
    BY <1>1, <2>2, <2>3 DEF BuffersInv, Width
<1> QED
  BY <1>7, <1>8, <1>9, <1>10, <1>11 DEF IInv, LiveInv

LEMMA TailEndsStep ==
  ASSUME IInv, TailEnds
  PROVE  IInv'
<1>0. PICK f \in Nat : exe.fr = f
  BY Numbers DEF IInv
<1> DEFINE pc == IF input.mt THEN "drain" ELSE "flush"
<1>1. /\ exe.pc = "tail" /\ procStack = << >> /\ Goes(pc)
      /\ UNCHANGED <<input, stacks, channels, buffers, read, file, mixed, result>>
      /\ UNCHANGED <<input, procStack, procDone, outStack, held, m2w, w2m, worker, src, tgt,
                     read, lost>>
  BY DEF TailEnds, stacks, channels, buffers, file
<1>2. TypeOK /\ TableInv /\ BlocksInv /\ BuffersInv /\ ReachInv
  BY <1>1 DEF IInv, LiveInv
<1>3. /\ outStack = OutAt(f) /\ procDone = << >> /\ held = << >>
      /\ Pipe = PipeAt(f) /\ read = f /\ exe'.pc = pc /\ exe'.fr = f
  BY <1>0, <1>1, <1>2, ExeGoes DEF TableInv, TailInv, EndInv
<1>4. TypeOK' /\ BlocksInv' /\ ReachInv' /\ Pipe' = Pipe
  BY <1>1, <1>2, OnlyGoes
<1>5. TableInv'
  <2>1. WorkersInv'
    BY <1>0, <1>1, <1>2, <1>3 DEF TableInv, WorkersInv, MainHasSender
  <2>2. DrainInv' /\ EndInv'
    BY <1>1, <1>3, <1>4, TableSame DEF DrainInv, EndInv
  <2>3. ~input.mt => Pipe = << >>
    BY <1>3 DEF PipeAt
  <2>4. FlushInv'
    BY <1>1, <1>3, <1>4, <2>3, TableSame DEF FlushInv
  <2> QED
    BY <1>3, <2>1, <2>2, <2>4 DEF TableInv, LoopInv, ReceiveInv, FinishInv, TailInv
<1>6. BuffersInv'
  BY <1>1, <1>2, <1>3 DEF BuffersInv, Width
<1> QED
  BY <1>4, <1>5, <1>6 DEF IInv, LiveInv

\* ... those the other executor has, ...
LEMMA DrainStep ==
  ASSUME IInv, Drain
  PROVE  IInv'
<1>0. PICK f \in Nat : exe.fr = f
  BY Numbers DEF IInv
<1> DEFINE b == Head(w2m)
<1>1. /\ exe.pc = "drain" /\ w2m # << >> /\ WriteUnchecked(b) /\ w2m' = Tail(w2m)
      /\ UNCHANGED <<input, exe, procStack, procDone, outStack, held, m2w, worker, src, tgt,
                     read, mixed, result>>
  BY DEF Drain, stacks, buffers
<1>2. TypeOK /\ TableInv /\ BlocksInv /\ BuffersInv /\ ReachInv
  BY <1>1 DEF IInv, LiveInv
<1>3. /\ b = Head(Pipe) /\ Pipe' = Tail(Pipe) /\ Pipe # << >> /\ b \in Frames
      /\ w2m' \in Seq(Frames)
  BY <1>1, <1>2, PipeTake
<1>4. /\ outStack = OutAt(f) /\ procStack = << >> /\ procDone = << >> /\ held = << >>
      /\ read = f /\ input.mt
      /\ Pipe = PipeAt(f) \/ (f = 2 /\ Pipe = <<1>>) \/ (f = 4 /\ Pipe = <<2>>)
      /\ f \in {0, 2, 4, 6} \/ f >= 8
  <2>1. input.mt
    BY <1>1, <1>2 DEF TableInv, WorkersInv
  <2> QED
    BY <1>0, <1>1, <1>2, <1>3, <2>1 DEF TableInv, DrainInv, EndInv, WorkersInv
\* The four blocks it may be.
<1>5. /\ Rest = Rest' \cup {b} /\ b \notin Rest'
      /\ Waiting' \in Nat /\ Waiting = Waiting' + 1
      /\ lost = {} => Near(Len(out) + 1, b)
      /\ Pipe' = << >> \/ (f = 2 /\ Pipe' = <<1>>) \/ (f = 4 /\ Pipe' = <<2>>)
  <2>1. ASSUME NEW w \in Nat, Waiting = w, lost = {}
        PROVE  Len(out) \in Nat /\ Len(out) = f - w
    <3>1. Len(out) \in Nat /\ Len(out) + 0 + w = f
      BY <1>2, <1>4, <2>1, Numbers, FS_EmptySet DEF BlocksInv
    <3> QED
      BY <3>1
  <2>2. f \in {2, 4}
    <3>1. f = 0 => Pipe = << >>
      BY <1>4, MtAt
    <3>2. f >= 6 => Pipe = << >>
      BY <1>4, MtAt
    <3> QED
      BY <1>3, <1>4, <3>1, <3>2
  <2>3. CASE f = 2
    <3>1. OutGroup = << >> /\ OutGroup' = << >>
      BY <1>1, <1>4, <2>3, MtAt DEF OutGroup
    <3>2. CASE Pipe = <<0, 1>>
      <4>1. Head(<<0, 1>>) = 0 /\ Tail(<<0, 1>>) = <<1>> /\ ToSet(<<0, 1>>) = {0, 1}
        BY Two
      <4>2. b = 0 /\ Pipe' = <<1>>
        BY <1>3, <3>2, <4>1
      <4>3. Rest = {0, 1} /\ Rest' = {1}
        BY <1>1, <1>4, <3>1, <3>2, <4>1, <4>2, One, Nil DEF Rest
      <4>4. Waiting = 2 /\ Waiting' = 1
        BY <1>1, <1>4, <3>1, <3>2, <4>2, One, Two, Nil DEF Waiting
      <4>5. lost = {} => Near(Len(out) + 1, 0)
        BY <1>4, <2>1, <2>3, <4>4 DEF Near, Reach
      <4> QED
        BY <2>3, <4>2, <4>3, <4>4, <4>5
    <3>3. CASE Pipe = <<1>>
      <4>1. b = 1 /\ Pipe' = << >>
        BY <1>3, <3>3, One
      <4>2. Rest = {1} /\ Rest' = {}
        BY <1>1, <1>4, <3>1, <3>3, <4>1, One, Nil DEF Rest
      <4>3. Waiting = 1 /\ Waiting' = 0
        BY <1>1, <1>4, <3>1, <3>3, <4>1, One, Nil DEF Waiting
      <4>4. lost = {} => Near(Len(out) + 1, 1)
        BY <1>4, <2>1, <2>3, <4>3 DEF Near, Reach
      <4> QED
        BY <4>1, <4>2, <4>3, <4>4
    <3> QED
      BY <1>4, <2>3, <3>2, <3>3, MtAt
  <2>4. CASE f = 4
    <3>1. OutGroup = <<3, 0>> /\ OutGroup' = <<3, 0>>
      BY <1>1, <1>4, <2>4, MtAt, One DEF OutGroup
    <3>0. ToSet(<<3, 0>>) = {3, 0} /\ Len(<<3, 0>>) = 2
      BY Two
    <3>2. CASE Pipe = <<1, 2>>
      <4>1. Head(<<1, 2>>) = 1 /\ Tail(<<1, 2>>) = <<2>> /\ ToSet(<<1, 2>>) = {1, 2}
        BY Two
      <4>2. b = 1 /\ Pipe' = <<2>>
        BY <1>3, <3>2, <4>1
      <4>3. Rest = {3, 0, 1, 2} /\ Rest' = {3, 0, 2}
        BY <1>1, <1>4, <3>0, <3>1, <3>2, <4>1, <4>2, One, Nil DEF Rest
      <4>4. Waiting = 4 /\ Waiting' = 3
        BY <1>1, <1>4, <3>0, <3>1, <3>2, <4>2, One, Two, Nil DEF Waiting
      <4>5. lost = {} => Near(Len(out) + 1, 1)
        BY <1>4, <2>1, <2>4, <4>4 DEF Near, Reach
      <4> QED
        BY <2>4, <4>2, <4>3, <4>4, <4>5
    <3>3. CASE Pipe = <<2>>
      <4>1. b = 2 /\ Pipe' = << >>
        BY <1>3, <3>3, One
      <4>2. Rest = {3, 0, 2} /\ Rest' = {3, 0}
        BY <1>1, <1>4, <3>0, <3>1, <3>3, <4>1, One, Nil DEF Rest
      <4>3. Waiting = 3 /\ Waiting' = 2
        BY <1>1, <1>4, <3>0, <3>1, <3>3, <4>1, One, Nil DEF Waiting
      <4>4. lost = {} => Near(Len(out) + 1, 2)
        BY <1>4, <2>1, <2>4, <4>3 DEF Near, Reach
      <4> QED
        BY <4>1, <4>2, <4>3, <4>4
    <3> QED
      BY <1>4, <2>4, <3>2, <3>3, MtAt
  <2> QED
    BY <2>2, <2>3, <2>4
<1> HIDE DEF b
<1>6. TypeOK'
  <2>1. out' \in Seq(Frames) /\ lost' \subseteq Frames
    BY <1>1, <1>2, <1>3, WriteTypes
  <2> QED
    BY <1>1, <1>2, <1>3, <2>1 DEF TypeOK
<1>7. TableInv'
  <2>1. WorkersInv'
    BY <1>1, <1>2, <1>4 DEF TableInv, WorkersInv, MainHasSender
  <2>2. DrainInv' /\ EndInv'
    BY <1>0, <1>1, <1>4, <1>5, TableSame DEF DrainInv, EndInv
  <2> QED
    BY <1>1, <2>1, <2>2 DEF TableInv, LoopInv, ReceiveInv, FinishInv, TailInv, FlushInv
<1>8. BlocksInv'
  BY <1>1, <1>2, <1>3, <1>5, BlocksWritten
<1>9. ReachInv'
  BY <1>1, <1>2, <1>3, <1>5, ReachWritten
<1>10. BuffersInv'
  BY <1>1, <1>2 DEF BuffersInv, Width
<1> QED
  BY <1>6, <1>7, <1>8, <1>9, <1>10 DEF IInv, LiveInv

LEMMA DrainEndsStep ==
  ASSUME IInv, DrainEnds
  PROVE  IInv'
<1>0. PICK f \in Nat : exe.fr = f
  BY Numbers DEF IInv
<1>1. /\ exe.pc = "drain" /\ w2m = << >> /\ worker.pc \in {"done", "panicked"} /\ Goes("flush")
      /\ UNCHANGED <<input, stacks, channels, buffers, read, file, mixed, result>>
      /\ UNCHANGED <<input, procStack, procDone, outStack, held, m2w, w2m, worker, src, tgt,
                     read, lost>>
  BY DEF DrainEnds, stacks, channels, buffers, file
<1>2. TypeOK /\ TableInv /\ BlocksInv /\ BuffersInv /\ ReachInv
  BY <1>1 DEF IInv, LiveInv
<1>3. /\ outStack = OutAt(f) /\ procStack = << >> /\ procDone = << >> /\ held = << >>
      /\ read = f /\ exe'.pc = "flush" /\ exe'.fr = f
  BY <1>0, <1>1, <1>2, ExeGoes DEF TableInv, DrainInv, EndInv
<1>4. TypeOK' /\ BlocksInv' /\ ReachInv' /\ Pipe' = Pipe
  BY <1>1, <1>2, OnlyGoes
<1>5. TableInv'
  <2>1. WorkersInv'
    BY <1>0, <1>1, <1>2, <1>3 DEF TableInv, WorkersInv, MainHasSender
  <2>2. EndInv'
    BY <1>1, <1>3 DEF EndInv
  <2>3. WorkerUp => Pipe = << >>
    BY <1>1, <1>2 DEF TableInv, WorkersInv, WorkerUp, Pipe, BlockOf
  <2>4. FlushInv'
    BY <1>1, <1>3, <1>4, <2>3, TableSame DEF FlushInv, WorkerUp
  <2> QED
    BY <1>3, <2>1, <2>2, <2>4 DEF TableInv, LoopInv, ReceiveInv, FinishInv, TailInv, DrainInv
<1>6. BuffersInv'
  BY <1>1, <1>2, <1>3 DEF BuffersInv, Width
<1> QED
  BY <1>4, <1>5, <1>6 DEF IInv, LiveInv

\* ... and the last group.
LEMMA FlushStep ==
  ASSUME IInv, Flush
  PROVE  IInv'
<1>0. PICK f \in Nat : exe.fr = f
  BY Numbers DEF IInv
<1>1. /\ exe.pc = "flush" /\ outStack # << >> /\ out' = out \o Last(outStack)
      /\ outStack' = Front(outStack)
      /\ UNCHANGED <<input, exe, procStack, procDone, held, m2w, w2m, worker, src, tgt, read,
                     lost, mixed, result>>
  BY DEF Flush, channels, buffers
<1>2. TypeOK /\ TableInv /\ BlocksInv /\ BuffersInv /\ ReachInv
  BY <1>1 DEF IInv, LiveInv
<1>3. /\ outStack = <<Group(f)>> /\ Grouped(f) /\ procStack = << >> /\ procDone = << >>
      /\ held = << >> /\ read = f /\ (WorkerUp => Pipe = << >>)
  <2>1. outStack = OutAt(f)
    BY <1>0, <1>1, <1>2 DEF TableInv, FlushInv
  <2>2. outStack = <<Group(f)>> /\ Grouped(f)
    BY <1>1, <2>1 DEF OutAt
  <2>3. /\ procStack = << >> /\ procDone = << >> /\ held = << >> /\ read = f
        /\ (WorkerUp => Pipe = << >>)
    BY <1>0, <1>1, <1>2 DEF TableInv, FlushInv, EndInv
  <2> QED
    BY <2>2, <2>3
<1>a. input.mt => f \in {4, 6} \/ f >= 8
  BY <1>0, <1>2, <1>3 DEF TableInv, WorkersInv, Grouped
<1>4. Last(outStack) = Group(f) /\ outStack' = << >> /\ Pipe' = Pipe
  BY <1>1, <1>3, One, PipeSame
<1>5. /\ Group(f) \in Seq(Frames) /\ out \in Seq(Frames) /\ Pipe \in Seq(Frames)
      /\ Len(Group(f)) = Width /\ Len(out) \in Nat /\ Len(Pipe) \in Nat /\ Width \in Nat
  <2>1. outStack \in Seq(Seq(Frames)) /\ out \in Seq(Frames)
    BY <1>2 DEF TypeOK
  <2>2. Len(outStack) = 1 /\ outStack[1] = Group(f) /\ 1 \in 1..1
    BY <1>3
  <2>3. Group(f) \in Seq(Frames)
    BY <2>1, <2>2, ElementOfSeq
  <2>4. Len(Group(f)) = Width
    BY <1>3, <1>a, GroupLength
  <2>5. Pipe \in Seq(Frames) /\ Width \in Nat
    BY <1>2, PipeParts DEF Width
  <2> QED
    BY <2>1, <2>3, <2>4, <2>5, LenProperties
<1>6. TypeOK'
  <2>1. out' \in Seq(Frames)
    BY <1>1, <1>4, <1>5, ConcatProperties
  <2>2. outStack' \in Seq(Seq(Frames))
    BY <1>4
  <2> QED
    BY <1>1, <1>2, <2>1, <2>2 DEF TypeOK
<1>7. TableInv'
  <2>1. WorkersInv'
    BY <1>1, <1>2 DEF TableInv, WorkersInv, MainHasSender
  <2>2. FlushInv' /\ EndInv'
    BY <1>0, <1>1, <1>3, <1>4 DEF FlushInv, EndInv, WorkerUp
  <2> QED
    BY <1>1, <2>1, <2>2 DEF TableInv, LoopInv, ReceiveInv, FinishInv, TailInv, DrainInv
<1>8. OutGroup = Group(f) /\ OutGroup' = << >>
  BY <1>3, <1>4, One DEF OutGroup
<1>9. Waiting = Width + Len(Pipe) /\ Waiting' = Len(Pipe)
  <2>1. Waiting = Width + 0 + 0 + 0 + Len(Pipe)
    BY <1>3, <1>5, <1>8, Nil DEF Waiting
  <2>2. Waiting' = 0 + 0 + 0 + 0 + Len(Pipe)
    BY <1>1, <1>3, <1>4, <1>8, Nil DEF Waiting
  <2> QED
    BY <1>5, <2>1, <2>2
<1>10. BlocksInv'
  <2>1. ToSet(out') = ToSet(out) \cup ToSet(Group(f)) /\ Len(out') = Len(out) + Width
    BY <1>1, <1>4, <1>5, Joined
  <2>2. Rest = ToSet(Group(f)) \cup ToSet(Pipe) /\ Rest' = ToSet(Pipe)
    BY <1>1, <1>3, <1>4, <1>8, Nil DEF Rest
  <2>3. ToSet(out') \cup lost' \cup Rest' = 0..(read' - 1) /\ lost' \cap Rest' = {}
    BY <1>1, <1>2, <2>1, <2>2 DEF BlocksInv
  <2>4. Cardinality(lost) \in Nat
    <3>1. IsFiniteSet(Frames) /\ lost \subseteq Frames
      BY <1>2, GlommioAssumption, FS_Interval DEF TypeOK, Frames
    <3> QED
      BY <3>1, FS_Subset, FS_CardinalityType
  <2>5. Len(out') + Cardinality(lost') + Waiting' = read'
    <3>1. Len(out) + Cardinality(lost) + (Width + Len(Pipe)) = read
      BY <1>2, <1>9 DEF BlocksInv
    <3> QED
      BY <1>1, <1>5, <1>9, <2>1, <2>4, <3>1
  <2> QED
    BY <1>1, <1>2, <2>3, <2>5 DEF BlocksInv
<1>11. ReachInv'
  <2> SUFFICES ASSUME lost = {}, WorkerUp PROVE (\A i \in DOMAIN out : Near(i, out[i]))'
    BY <1>1 DEF ReachInv, WorkerUp
  <2>1. \A i \in DOMAIN out : Near(i, out[i])
    BY <1>2 DEF ReachInv
  <2>2. Len(out) = f - Width
    <3>1. Len(out) + 0 + (Width + 0) = f
      BY <1>2, <1>3, <1>9, FS_EmptySet, Nil DEF BlocksInv
    <3> QED
      BY <1>5, <3>1
  <2>3. \A i \in DOMAIN (out \o Group(f)) : Near(i, (out \o Group(f))[i])
    <3>1. CASE ~input.mt
      <4>1. PICK x \in Frames : Group(f) = <<x>> /\ Near(f, x)
        <5>1. f >= 1 /\ Group(f) = <<IF f = 1 THEN 0 ELSE f - 2>>
          BY <1>3, <3>1 DEF Group, Grouped
        <5>2. Near(f, IF f = 1 THEN 0 ELSE f - 2)
          BY <3>1, <5>1 DEF Near, Reach
        <5>3. Group(f)[1] \in Frames /\ Group(f)[1] = IF f = 1 THEN 0 ELSE f - 2
          <6>1. Len(Group(f)) = 1 /\ 1 \in 1..1
            BY <5>1
          <6> QED
            BY <1>5, <5>1, <6>1, ElementOfSeq
        <5> QED
          BY <5>1, <5>2, <5>3
      <4>2. Len(out) + 1 = f
        BY <2>2, <3>1 DEF Width
      <4>3. Append(out, x) = out \o <<x>>
        BY <1>5, AppendThis
      <4>4. \A i \in DOMAIN Append(out, x) : Near(i, Append(out, x)[i])
        BY <1>5, <2>1, <4>1, <4>2, NearOne
      <4> QED
        BY <4>1, <4>3, <4>4
    <3>2. CASE input.mt
      <4>1. PICK x \in Nat, y \in Nat : Group(f) = <<x, y>> /\ Near(f - 1, x) /\ Near(f, y)
        <5>1. CASE f = 4
          <6>1. Near(f - 1, 3) /\ Near(f, 0)
            BY <3>2, <5>1 DEF Near, Reach
          <6> QED
            BY <3>2, <5>1, <6>1, MtAt
        <5>2. CASE f = 6 \/ f >= 8
          BY <3>2, <5>2, LastGroup
        <5> QED
          BY <1>a, <3>2, <5>1, <5>2
      <4>2. x \in Frames /\ y \in Frames
        <5>1. Len(Group(f)) = 2 /\ Group(f)[1] = x /\ Group(f)[2] = y /\ 1 \in 1..2 /\ 2 \in 1..2
          BY <4>1
        <5> QED
          BY <1>5, <5>1, ElementOfSeq
      <4>3. Len(out) + 1 = f - 1 /\ Len(out) + 2 = f
        BY <2>2, <3>2 DEF Width
      <4> QED
        BY <1>5, <2>1, <4>1, <4>2, <4>3, NearTwo
    <3> QED
      BY <3>1, <3>2
  <2> QED
    BY <1>1, <1>4, <2>3 DEF Near, Reach
<1>12. BuffersInv'
  BY <1>1, <1>2 DEF BuffersInv, Width
<1> QED
  BY <1>6, <1>7, <1>10, <1>11, <1>12 DEF IInv, LiveInv

LEMMA FlushEndsStep ==
  ASSUME IInv, FlushEnds
  PROVE  IInv'
<1>0. PICK f \in Nat : exe.fr = f
  BY Numbers DEF IInv
<1>1. /\ exe.pc = "flush" /\ outStack = << >> /\ Goes("done")
      /\ UNCHANGED <<input, stacks, channels, buffers, read, file, mixed, result>>
      /\ UNCHANGED <<input, procStack, procDone, outStack, held, m2w, w2m, worker, src, tgt,
                     read, lost>>
  BY DEF FlushEnds, stacks, channels, buffers, file
<1>2. TypeOK /\ TableInv /\ BlocksInv /\ BuffersInv /\ ReachInv
  BY <1>1 DEF IInv, LiveInv
<1>3. /\ procStack = << >> /\ procDone = << >> /\ held = << >> /\ (WorkerUp => Pipe = << >>)
      /\ read = f /\ exe'.pc = "done" /\ exe'.fr = f
  <2>1. exe'.pc = "done" /\ exe'.fr = f
    BY <1>0, <1>1, <1>2, ExeGoes
  <2>2. /\ procStack = << >> /\ procDone = << >> /\ held = << >> /\ read = f
        /\ (WorkerUp => Pipe = << >>)
    BY <1>0, <1>1, <1>2 DEF TableInv, FlushInv, EndInv
  <2> QED
    BY <2>1, <2>2
<1>4. TypeOK' /\ BlocksInv' /\ ReachInv' /\ Pipe' = Pipe
  BY <1>1, <1>2, OnlyGoes
<1>5. TableInv'
  <2>1. WorkersInv'
    BY <1>0, <1>1, <1>2, <1>3 DEF TableInv, WorkersInv, MainHasSender
  <2>2. FlushInv' /\ EndInv'
    BY <1>1, <1>3, <1>4 DEF FlushInv, EndInv, WorkerUp
  <2> QED
    BY <1>3, <2>1, <2>2 DEF TableInv, LoopInv, ReceiveInv, FinishInv, TailInv, DrainInv
<1>6. BuffersInv'
  BY <1>1, <1>2, <1>3 DEF BuffersInv, Width
<1> QED
  BY <1>4, <1>5, <1>6 DEF IInv, LiveInv

\* An executor that panicked owes nothing.
LEMMA PanicStep ==
  ASSUME IInv, Panic
  PROVE  IInv'
<1>1. /\ Goes("panicked") /\ TypeOK /\ ReachInv /\ BuffersInv
      /\ UNCHANGED <<input, procStack, procDone, outStack, held, m2w, w2m, worker, src, tgt,
                     read, out, lost, mixed, result>>
  BY DEF Panic, IInv, stacks, channels, buffers, file
<1>2. exe'.pc = "panicked"
  BY <1>1, ExeGoes
<1>3. TypeOK'
  BY <1>1, PcTypes DEF TypeOK
<1>4. ReachInv'
  BY <1>1 DEF ReachInv, WorkerUp, Near, Reach
<1>5. BuffersInv'
  BY <1>1, <1>2 DEF BuffersInv, Width
<1> QED
  BY <1>2, <1>3, <1>4, <1>5 DEF IInv, LiveInv

-----------------------------------------------------------------------------
(* The steps of the processing executor, which moves what is in the pipe. *)

\* The other executor keeps the types, and what the table says of the rest.
LEMMA WorkerTypes ==
  ASSUME TypeOK, Worker
  PROVE  /\ TypeOK' /\ Pipe' = Pipe
         /\ UNCHANGED <<input, exe, procStack, procDone, outStack, held, src, tgt, read,
                        out, lost>>
<1>1. CASE WorkerRecv
  <2>1. /\ worker' = [pc |-> "send", block |-> Head(m2w)] /\ m2w' = Tail(m2w) /\ m2w # << >>
        /\ UNCHANGED <<input, exe, procStack, procDone, outStack, held, w2m, src, tgt, read,
                       out, lost, mixed, result>>
    BY <1>1 DEF WorkerRecv, stacks, buffers, file
  <2>2. m2w \in Seq(Frames)
    BY DEF TypeOK
  <2>3. Head(m2w) \in Frames /\ Tail(m2w) \in Seq(Frames)
    BY <2>1, <2>2, HeadTailProperties
  <2>4. worker' \in [pc : {"recv", "send", "done", "panicked"}, block : Frames]
    BY <2>1, <2>3
  <2>5. TypeOK'
    BY <2>1, <2>3, <2>4 DEF TypeOK
  <2> QED
    BY <1>1, <2>1, <2>5, PipeRecv
<1>2. CASE WorkerSend
  <2>1. /\ WorkerGoes("recv") /\ w2m' = Append(w2m, worker.block)
        /\ UNCHANGED <<input, exe, procStack, procDone, outStack, held, m2w, src, tgt, read,
                       out, lost, mixed, result>>
    BY <1>2 DEF WorkerSend, stacks, buffers, file
  <2>2. w2m \in Seq(Frames) /\ worker.block \in Frames
    BY DEF TypeOK
  <2>3. w2m' \in Seq(Frames)
    BY <2>1, <2>2, AppendThis
  <2>4. worker' \in [pc : {"recv", "send", "done", "panicked"}, block : Frames]
    BY <2>1 DEF WorkerGoes, TypeOK
  <2>5. TypeOK'
    BY <2>1, <2>3, <2>4 DEF TypeOK
  <2> QED
    BY <1>2, <2>1, <2>5, PipeSend
<1>3. CASE WorkerPanics \/ WorkerEnds
  <2>1. /\ WorkerGoes("panicked") \/ WorkerGoes("done")
        /\ UNCHANGED <<input, exe, procStack, procDone, outStack, held, m2w, w2m, src, tgt,
                       read, out, lost, mixed, result>>
    BY <1>3 DEF WorkerPanics, WorkerEnds, stacks, buffers, file
  <2>2. worker' \in [pc : {"recv", "send", "done", "panicked"}, block : Frames]
    BY <2>1 DEF WorkerGoes, TypeOK
  <2>3. TypeOK'
    BY <2>1, <2>2 DEF TypeOK
  <2> QED
    BY <1>3, <2>1, <2>3, PipePanics, PipeEnds
<1> QED
  BY <1>1, <1>2, <1>3 DEF Worker

LEMMA WorkerKeeps ==
  ASSUME TypeOK, WorkersInv, Worker
  PROVE  WorkersInv' /\ (WorkerUp' => WorkerUp)
<1>1. input.mt
  BY DEF Worker, WorkerRecv, WorkerSend, WorkerPanics, WorkerEnds, WorkersInv
<1>2. UNCHANGED <<input, exe>>
  BY WorkerTypes
<1>3. CASE WorkerRecv
  BY <1>1, <1>2, <1>3 DEF WorkersInv, WorkerRecv, WorkerUp
<1>4. CASE WorkerSend
  BY <1>1, <1>2, <1>4 DEF WorkersInv, WorkerSend, WorkerGoes, WorkerUp, TypeOK
<1>5. CASE WorkerPanics
  BY <1>1, <1>2, <1>5 DEF WorkersInv, WorkerPanics, WorkerGoes, WorkerUp, TypeOK
<1>6. CASE WorkerEnds
  BY <1>1, <1>2, <1>6 DEF WorkersInv, WorkerEnds, WorkerGoes, WorkerUp, MainHasSender, TypeOK
<1> QED
  BY <1>3, <1>4, <1>5, <1>6 DEF Worker

LEMMA WorkerStep ==
  ASSUME IInv, Worker
  PROVE  IInv'
<1>1. TypeOK /\ LiveInv /\ ReachInv /\ BuffersInv
  BY DEF IInv
<1>2. /\ TypeOK' /\ Pipe' = Pipe
      /\ UNCHANGED <<input, exe, procStack, procDone, outStack, held, src, tgt, read,
                     out, lost>>
  BY <1>1, WorkerTypes
<1>3. WorkerUp' => WorkerUp
  BY <1>1 DEF Worker, WorkerRecv, WorkerSend, WorkerPanics, WorkerEnds, WorkerUp
<1>4. ASSUME exe.pc # "panicked" PROVE TableInv' /\ BlocksInv'
  <2>1. TableInv /\ BlocksInv
    BY <1>1, <1>4 DEF LiveInv
  <2>2. WorkersInv'
    BY <1>1, <2>1, WorkerKeeps DEF TableInv
  <2>3. exe.fr \in Nat /\ exe.fr + Width \in Nat
    BY <1>1, Numbers DEF Width
  <2>4. LoopInv'
    BY <1>2, <2>1, <2>3, TableSame DEF TableInv, LoopInv
  <2>5. ReceiveInv'
    BY <1>2, <2>1, <2>3, TableSame DEF TableInv, ReceiveInv, PairAt
  <2>6. FinishInv'
    BY <1>2, <2>1, <2>3, TableSame DEF TableInv, FinishInv, Grouped, Group, Width
  <2>7. TailInv' /\ DrainInv'
    BY <1>2, <2>1, <2>3, TableSame DEF TableInv, TailInv, DrainInv
  <2>8. FlushInv' /\ EndInv'
    BY <1>2, <1>3, <2>1, <2>3, TableSame DEF TableInv, FlushInv, EndInv
  <2>9. Rest' = Rest /\ Waiting' = Waiting
    BY <1>2 DEF Rest, Waiting, OutGroup
  <2> QED
    BY <1>2, <2>1, <2>2, <2>4, <2>5, <2>6, <2>7, <2>8, <2>9, BlocksKept DEF TableInv
<1>5. ReachInv'
  BY <1>1, <1>2, <1>3 DEF ReachInv, Near, Reach
<1>6. BuffersInv'
  BY <1>1, <1>2 DEF BuffersInv, Width
<1> QED
  BY <1>2, <1>4, <1>5, <1>6 DEF IInv, LiveInv

-----------------------------------------------------------------------------
(* The invariant, and what follows from it. *)

\* The invariant holds at the start and is kept by every step.
LEMMA InvInit == Init => IInv
<1> SUFFICES ASSUME Init PROVE IInv
  OBVIOUS
<1>1. TypeOK
  BY GlommioAssumption DEF Init, TypeOK, Frames
<1>2. Pipe = << >>
  BY ConcatEmptySeq DEF Init, Pipe, BlockOf
<1>3. TableInv
  BY <1>2 DEF Init, TableInv, WorkersInv, LoopInv, ReceiveInv, FinishInv, TailInv, DrainInv,
     FlushInv, EndInv, OutAt, ProcAt, PipeAt, Grouped, MainHasSender
<1>4. BlocksInv
  <2>1. Rest = {} /\ Waiting = 0
    BY <1>2, Nil DEF Init, Rest, Waiting, OutGroup
  <2>2. 0 <= input.present
    BY <1>1, Numbers
  <2> QED
    BY <2>1, <2>2, Nil, FS_EmptySet DEF Init, BlocksInv
<1>5. ReachInv /\ BuffersInv
  BY DEF Init, ReachInv, BuffersInv, Buf, Width
<1> QED
  BY <1>1, <1>3, <1>4, <1>5 DEF IInv, LiveInv

LEMMA SameView ==
  ASSUME IInv, UNCHANGED <<input, exe, stacks, channels, buffers, read, file, mixed>>,
         result' \in {"none", "ok"}
  PROVE  IInv'
<1>1. TypeOK /\ LiveInv /\ ReachInv /\ BuffersInv
  BY DEF IInv
<1>2. UNCHANGED <<input, exe, procStack, procDone, outStack, held, m2w, w2m, worker, src, tgt,
                  read, out, lost, mixed>>
  BY DEF stacks, channels, buffers, file
<1>3. TypeOK' /\ Pipe' = Pipe
  BY <1>1, <1>2, PipeSame DEF TypeOK
<1>4. TableInv => TableInv'
  BY <1>2, <1>3 DEF TableInv, WorkersInv, MainHasSender, LoopInv, ReceiveInv, FinishInv,
     TailInv, DrainInv, FlushInv, EndInv, OutAt, ProcAt, PipeAt, PairAt, Grouped, Group, Width,
     WorkerUp
<1>5. BlocksInv => BlocksInv'
  BY <1>2, <1>3 DEF BlocksInv, Rest, Waiting, OutGroup
<1>6. ReachInv' /\ BuffersInv'
  BY <1>1, <1>2 DEF ReachInv, Near, Reach, WorkerUp, BuffersInv, Width
<1> QED
  BY <1>1, <1>2, <1>3, <1>4, <1>5, <1>6 DEF IInv, LiveInv

LEMMA InvStep == IInv /\ [Next]_vars => IInv'
<1> SUFFICES ASSUME IInv, [Next]_vars PROVE IInv'
  OBVIOUS
<1>1. CASE Main
  <2>1. CASE StFirst \/ StSecond \/ StProcess
    BY <2>1, StFirstStep, StSecondStep, StProcessStep
  <2>2. CASE StProcPanics \/ Fails
    BY <2>2, PanicStep DEF StProcPanics, Fails
  <2>3. CASE MtFirst \/ MtSecond \/ MtSecondReceive
    BY <2>3, MtFirstStep, MtSecondStep, MtSecondReceiveStep
  <2>4. CASE MtProcess \/ MtReceive \/ MtPaired
    BY <2>4, MtProcessStep, MtReceiveStep, MtPairedStep
  <2>5. CASE Finish \/ EndInput \/ TailProcess \/ TailEnds
    BY <2>5, FinishStep, EndInputStep, TailProcessStep, TailEndsStep
  <2>6. CASE Drain \/ DrainEnds \/ Flush \/ FlushEnds
    BY <2>6, DrainStep, DrainEndsStep, FlushStep, FlushEndsStep
  <2> QED
    BY <1>1, <2>1, <2>2, <2>3, <2>4, <2>5, <2>6 DEF Main
<1>2. CASE Worker
  BY <1>2, WorkerStep
<1>3. CASE Join
  BY <1>3, SameView DEF Join
<1>4. CASE UNCHANGED vars
  <2>1. result' \in {"none", "ok"}
    BY <1>4 DEF vars, IInv, TypeOK
  <2> QED
    BY <1>4, <2>1, SameView DEF vars
<1> QED
  BY <1>1, <1>2, <1>3, <1>4 DEF Next, Finished

LEMMA Invariant == Spec => []IInv
BY InvInit, InvStep, PTL DEF Spec

-----------------------------------------------------------------------------
(* What follows from the invariant. *)

\* The values the executors work on have their types.
THEOREM TypeCorrect == Spec => []TypeOK
<1>1. IInv => TypeOK
  BY DEF IInv
<1> QED
  BY <1>1, Invariant, PTL

\* out_stack never holds more than one group.
LEMMA OneGroup ==
  ASSUME TypeOK, TableInv, Running
  PROVE  Len(outStack) <= 1 /\ OutGroup \in Seq(Frames)
<1>1. exe.pc \in {"loop", "receive", "finish", "tail", "drain", "flush"}
  BY DEF TypeOK, Running
<1>2. outStack = << >> \/ \E g : outStack = <<g>>
  BY <1>1 DEF TableInv, LoopInv, ReceiveInv, FinishInv, TailInv, DrainInv, FlushInv, OutAt
<1>3. CASE outStack = << >>
  BY <1>3 DEF OutGroup
<1>4. CASE \E g : outStack = <<g>>
  <2>1. PICK g : outStack = <<g>>
    BY <1>4
  <2>2. Len(outStack) = 1 /\ OutGroup = g /\ outStack[1] = g
    BY <2>1, One DEF OutGroup
  <2>3. 1 \in 1..Len(outStack) /\ outStack \in Seq(Seq(Frames))
    BY <2>2 DEF TypeOK
  <2>4. outStack[1] \in Seq(Frames)
    BY <2>3, ElementOfSeq
  <2> QED
    BY <2>2, <2>4
<1> QED
  BY <1>2, <1>3, <1>4

\* While both executors run, AllRead holds what was written and what waits.
LEMMA AllReadHolds ==
  ASSUME TypeOK, TableInv, Running, WorkerUp
  PROVE  /\ ToSet(AllRead) = Rest \cup ToSet(out)
         /\ Len(AllRead) = Waiting + Len(out)
<1> DEFINE b == BlockOf(worker.pc, worker.block)
           g == OutGroup
           s1 == g \o procStack
           s2 == s1 \o procDone
           s3 == s2 \o held
           s4 == s3 \o m2w
           s5 == s4 \o w2m
           s6 == s5 \o b
           p == b \o m2w
<1>1. /\ g \in Seq(Frames) /\ b \in Seq(Frames) /\ m2w \in Seq(Frames) /\ w2m \in Seq(Frames)
      /\ procStack \in Seq(Frames) /\ procDone \in Seq(Frames) /\ held \in Seq(Frames)
      /\ out \in Seq(Frames)
  BY OneGroup, PipeParts DEF TypeOK
<1>2. AllRead = s6 \o out /\ Pipe = w2m \o p
  BY DEF AllRead, OutGroup, BlockOf, WorkerUp, Pipe
<1> HIDE DEF g, b
<1>3. s1 \in Seq(Frames) /\ Len(s1) = Len(g) + Len(procStack)
      /\ ToSet(s1) = ToSet(g) \cup ToSet(procStack)
  BY <1>1, Joined
<1> HIDE DEF s1
<1>4. s2 \in Seq(Frames) /\ Len(s2) = Len(s1) + Len(procDone)
      /\ ToSet(s2) = ToSet(s1) \cup ToSet(procDone)
  BY <1>1, <1>3, Joined
<1> HIDE DEF s2
<1>5. s3 \in Seq(Frames) /\ Len(s3) = Len(s2) + Len(held)
      /\ ToSet(s3) = ToSet(s2) \cup ToSet(held)
  BY <1>1, <1>4, Joined
<1> HIDE DEF s3
<1>6. s4 \in Seq(Frames) /\ Len(s4) = Len(s3) + Len(m2w)
      /\ ToSet(s4) = ToSet(s3) \cup ToSet(m2w)
  BY <1>1, <1>5, Joined
<1> HIDE DEF s4
<1>7. s5 \in Seq(Frames) /\ Len(s5) = Len(s4) + Len(w2m)
      /\ ToSet(s5) = ToSet(s4) \cup ToSet(w2m)
  BY <1>1, <1>6, Joined
<1> HIDE DEF s5
<1>8. s6 \in Seq(Frames) /\ Len(s6) = Len(s5) + Len(b)
      /\ ToSet(s6) = ToSet(s5) \cup ToSet(b)
  BY <1>1, <1>7, Joined
<1> HIDE DEF s6
<1>9. Len(AllRead) = Len(s6) + Len(out) /\ ToSet(AllRead) = ToSet(s6) \cup ToSet(out)
  BY <1>1, <1>2, <1>8, Joined
<1>10. p \in Seq(Frames) /\ Len(p) = Len(b) + Len(m2w) /\ ToSet(p) = ToSet(b) \cup ToSet(m2w)
  BY <1>1, Joined
<1> HIDE DEF p
<1>11. Len(Pipe) = Len(w2m) + Len(p) /\ ToSet(Pipe) = ToSet(w2m) \cup ToSet(p)
  BY <1>1, <1>2, <1>10, Joined
<1>12. ToSet(AllRead) = Rest \cup ToSet(out)
  BY <1>3, <1>4, <1>5, <1>6, <1>7, <1>8, <1>9, <1>10, <1>11 DEF Rest, g
<1>13. /\ Len(g) \in Nat /\ Len(procStack) \in Nat /\ Len(procDone) \in Nat /\ Len(held) \in Nat
       /\ Len(m2w) \in Nat /\ Len(w2m) \in Nat /\ Len(b) \in Nat /\ Len(out) \in Nat
  BY <1>1, LenProperties
<1>14. Waiting = Len(g) + Len(procStack) + Len(procDone) + Len(held) + Len(Pipe)
  BY DEF Waiting, g
<1>15. Len(AllRead) = Waiting + Len(out)
  BY <1>3, <1>4, <1>5, <1>6, <1>7, <1>8, <1>9, <1>10, <1>11, <1>13, <1>14
<1> QED
  BY <1>12, <1>15

\* No block is lost or held twice, one group at most waits, and the stacks of
\* buffers stop allocating after twice what a step handles.
THEOREM RecycledHolds == Spec => []Recycled
<1>1. IInv => Recycled
  <2> SUFFICES ASSUME IInv PROVE Recycled
    OBVIOUS
  <2>1. TypeOK /\ LiveInv /\ BuffersInv
    BY DEF IInv
  <2>2. ASSUME Running, WorkerUp
        PROVE  /\ ToSet(AllRead) \cup lost = 0..(read - 1)
               /\ Len(AllRead) + Cardinality(lost) = read
               /\ Len(outStack) <= 1
    <3>1. TableInv /\ BlocksInv
      BY <2>1, <2>2 DEF LiveInv, Running
    <3>2. /\ ToSet(AllRead) = Rest \cup ToSet(out)
          /\ Len(AllRead) = Waiting + Len(out)
      BY <2>1, <2>2, <3>1, AllReadHolds
    <3>3. Len(outStack) <= 1
      BY <2>1, <2>2, <3>1, OneGroup
    <3>4. ToSet(AllRead) \cup lost = 0..(read - 1)
      BY <3>1, <3>2 DEF BlocksInv
    <3>5. Waiting \in Nat /\ Len(out) \in Nat /\ Cardinality(lost) \in Nat
      <4>1. /\ OutGroup \in Seq(Frames) /\ Pipe \in Seq(Frames) /\ procStack \in Seq(Frames)
            /\ procDone \in Seq(Frames) /\ held \in Seq(Frames) /\ out \in Seq(Frames)
        BY <2>1, <2>2, <3>1, OneGroup, PipeParts DEF TypeOK
      <4>2. IsFiniteSet(Frames) /\ lost \subseteq Frames
        <5>1. Frames = 0..MaxFrames /\ 0 \in Int /\ MaxFrames \in Int
          BY <2>1, Numbers
        <5>2. IsFiniteSet(Frames)
          BY ONLY <5>1, FS_Interval
        <5> QED
          BY <2>1, <5>2 DEF TypeOK
      <4>3. Cardinality(lost) \in Nat
        BY <4>2, FS_Subset, FS_CardinalityType
      <4> QED
        BY <4>1, <4>3, LenProperties DEF Waiting
    <3>6. Len(AllRead) + Cardinality(lost) = read
      BY <3>1, <3>2, <3>5 DEF BlocksInv
    <3> QED
      BY <3>3, <3>4, <3>6
  <2>3. src.made <= 2 * Width /\ tgt.made <= 2 * Width
    BY <2>1 DEF BuffersInv
  <2> QED
    BY <2>2, <2>3 DEF Recycled
<1> QED
  BY <1>1, Invariant, PTL

\* While no error was ignored, a block is written at most one place (one
\* executor) or four (two) from its own, and an executor that comes to its end
\* has written every block it read.
THEOREM NearlyInOrderHolds == Spec => []NearlyInOrder
<1>1. IInv => NearlyInOrder
  <2> SUFFICES ASSUME IInv, lost = {}, WorkerUp
               PROVE  /\ \A i \in DOMAIN out : i <= out[i] + 1 + Reach /\ out[i] + 1 <= i + Reach
                      /\ exe.pc = "done" => Len(out) = read /\ ToSet(out) = 0..(read - 1)
    BY DEF NearlyInOrder
  <2>1. TypeOK /\ LiveInv /\ ReachInv
    BY DEF IInv
  <2>2. \A i \in DOMAIN out : i <= out[i] + 1 + Reach /\ out[i] + 1 <= i + Reach
    BY <2>1 DEF ReachInv, Near
  <2>3. ASSUME exe.pc = "done"
        PROVE  Len(out) = read /\ ToSet(out) = 0..(read - 1)
    <3>1. TableInv /\ BlocksInv
      BY <2>1, <2>3 DEF LiveInv
    <3>2. outStack = << >> /\ procStack = << >> /\ Pipe = << >> /\ held = << >> /\ procDone = << >>
      BY <2>3, <3>1 DEF TableInv, FlushInv, EndInv
    <3>3. Rest = {} /\ Waiting = 0
      BY <3>2, Nil DEF Rest, Waiting, OutGroup
    <3>4. Len(out) \in Nat /\ Cardinality(lost) = 0
      BY <2>1, Numbers, FS_EmptySet
    <3> QED
      BY <3>1, <3>3, <3>4 DEF BlocksInv
  <2> QED
    BY <2>2, <2>3
<1> QED
  BY <1>1, Invariant, PTL
-----------------------------------------------------------------------------
(* The executors never wait for each other. *)

\* The pipe is as long as its parts together.
LEMMA PipeLength ==
  ASSUME TypeOK
  PROVE  /\ Len(w2m) \in Nat /\ Len(m2w) \in Nat /\ Len(Pipe) \in Nat
         /\ Len(w2m) + Len(m2w) <= Len(Pipe)
         /\ worker.pc = "send" => Len(w2m) + 1 + Len(m2w) = Len(Pipe)
         /\ worker.pc = "recv" => Len(w2m) + Len(m2w) = Len(Pipe)
<1> DEFINE b == BlockOf(worker.pc, worker.block)
           rest == b \o m2w
<1>1. w2m \in Seq(Frames) /\ m2w \in Seq(Frames) /\ b \in Seq(Frames) /\ rest \in Seq(Frames)
  BY PipeParts
<1>2. Pipe = w2m \o rest
  BY DEF Pipe
<1>3. /\ worker.pc = "send" => Len(b) = 1
      /\ worker.pc = "recv" => Len(b) = 0
  BY DEF BlockOf
<1> HIDE DEF b
<1>4. Len(rest) = Len(b) + Len(m2w) /\ Len(b) \in Nat /\ Len(m2w) \in Nat
  BY <1>1, ConcatProperties, LenProperties
<1> HIDE DEF rest
<1>5. Len(Pipe) = Len(w2m) + Len(rest) /\ Len(w2m) \in Nat
  BY <1>1, <1>2, ConcatProperties, LenProperties
<1> DEFINE p == Len(Pipe)
           l == Len(w2m)
           r == Len(rest)
           n == Len(b)
           m == Len(m2w)
<1>6. l \in Nat /\ m \in Nat /\ n \in Nat /\ r = n + m /\ p = l + r
  BY <1>4, <1>5
<1> HIDE DEF p, l, r, n, m
<1>7. /\ p \in Nat /\ l + m <= p
      /\ n = 1 => l + 1 + m = p
      /\ n = 0 => l + m = p
  BY ONLY <1>6
<1> QED
  BY <1>3, <1>6, <1>7 DEF p, l, r, n, m

\* At the head of the loop and after it the pipe holds two blocks at most.
LEMMA PipeAtLength == \A f : Len(PipeAt(f)) <= 2
BY DEF PipeAt

\* While the other executor can be given a block, three at most are on their way.
LEMMA PipeShort ==
  ASSUME TypeOK, LiveInv, Running
  PROVE  /\ exe.pc = "loop" => Len(Pipe) <= 2
         /\ WorkerUp => Len(Pipe) <= 3
<1>1. exe.pc # "panicked" /\ TableInv
  BY DEF Running, LiveInv
<1>2. exe.pc \in {"loop", "receive", "finish", "tail", "drain", "flush"}
  BY DEF TypeOK, Running
<1>3. CASE exe.pc = "loop"
  <2>1. Pipe = PipeAt(exe.fr)
    BY <1>1, <1>3 DEF TableInv, LoopInv
  <2> QED
    BY <2>1, <1>3, PipeLength, PipeAtLength
<1>4. CASE exe.pc = "receive"
  <2>1. \/ Pipe = <<0, 1, 2>>
        \/ procDone \o Pipe = PairAt(exe.fr)
    BY <1>1, <1>4 DEF TableInv, ReceiveInv
  <2>2. CASE Pipe = <<0, 1, 2>>
    BY <2>2, <1>4
  <2>3. CASE procDone \o Pipe = PairAt(exe.fr)
    <3>1. procDone \in Seq(Frames) /\ Pipe \in Seq(Frames)
      BY PipeParts DEF TypeOK
    <3>2. Len(PairAt(exe.fr)) = 2
      BY DEF PairAt
    <3>3. Len(procDone \o Pipe) = Len(procDone) + Len(Pipe)
      BY <3>1, ConcatProperties
    <3>4. Len(procDone) + Len(Pipe) = 2 /\ Len(procDone) \in Nat /\ Len(Pipe) \in Nat
      BY <2>3, <3>1, <3>2, <3>3, LenProperties
    <3> QED
      BY <3>4, <1>4
  <2> QED
    BY <2>1, <2>2, <2>3
<1>5. CASE exe.pc = "finish"
  BY <1>1, <1>5 DEF TableInv, FinishInv
<1>6. CASE exe.pc = "tail"
  <2>1. Pipe = PipeAt(exe.fr)
    BY <1>1, <1>6 DEF TableInv, TailInv
  <2> QED
    BY <2>1, <1>6, PipeLength, PipeAtLength
<1>7. CASE exe.pc = "drain"
  <2>1. Pipe \in {<< >>, PipeAt(exe.fr), <<1>>, <<2>>}
    BY <1>1, <1>7 DEF TableInv, DrainInv
  <2> QED
    BY <2>1, <1>7, PipeLength, PipeAtLength
<1>8. CASE exe.pc = "flush"
  BY <1>1, <1>8 DEF TableInv, FlushInv
<1> QED
  BY <1>2, <1>3, <1>4, <1>5, <1>6, <1>7, <1>8

\* So both channels have room for what is sent.
LEMMA RoomHolds ==
  ASSUME TypeOK, LiveInv
  PROVE  SendsHaveRoom
<1>1. ASSUME input.mt, InLoop
      PROVE  Len(m2w) + 2 <= ChannelSize
  <2>1. Len(Pipe) <= 2
    BY <1>1, PipeShort DEF InLoop, Running
  <2> QED
    BY <2>1, PipeLength DEF ChannelSize
<1>2. ASSUME Running, worker.pc = "send"
      PROVE  Len(w2m) < ChannelSize
  <2>1. Len(Pipe) <= 3
    BY <1>2, PipeShort DEF WorkerUp
  <2> QED
    BY <2>1, <1>2, PipeLength DEF ChannelSize
<1> QED
  BY <1>1, <1>2 DEF SendsHaveRoom

\* An executor that waits for a block has one on its way, unless the other died.
LEMMA ReceiveReady ==
  ASSUME TypeOK, LiveInv, exe.pc = "receive"
  PROVE  MainReady \/ WorkerReady
<1>1. TableInv
  BY DEF LiveInv
<1>2. input.mt /\ MainHasSender /\ worker.pc # "done"
  BY <1>1 DEF TableInv, WorkersInv, MainHasSender
<1>3. worker.pc \in {"recv", "send", "panicked"}
  BY <1>2 DEF TypeOK
<1>4. Len(procDone) = 2 \/ Pipe # << >>
  <2>1. \/ Pipe = <<0, 1, 2>>
        \/ procDone \o Pipe = PairAt(exe.fr)
    BY <1>1 DEF TableInv, ReceiveInv
  <2>2. ASSUME Pipe = << >>, procDone \o Pipe = PairAt(exe.fr)
        PROVE  Len(procDone) = 2
    <3>1. procDone \in Seq(Frames) /\ Len(PairAt(exe.fr)) = 2
      BY DEF TypeOK, PairAt
    <3>2. procDone = PairAt(exe.fr)
      BY <2>2, <3>1, ConcatEmptySeq
    <3> QED
      BY <3>1, <3>2
  <2>3. <<0, 1, 2>> # << >>
    OBVIOUS
  <2> QED
    BY <2>1, <2>2, <2>3
<1>5. CASE worker.pc = "panicked" \/ Len(procDone) = 2 \/ w2m # << >>
  BY <1>5 DEF MainReady, WorkerUp
<1>6. CASE worker.pc = "send"
  BY <1>6 DEF WorkerReady
<1>7. CASE worker.pc = "recv" /\ Pipe # << >> /\ w2m = << >>
  <2>1. Len(w2m) = 0 /\ Len(m2w) = Len(Pipe) /\ Len(Pipe) # 0
    BY <1>7, PipeLength, PipeParts, EmptySeq
  <2>2. m2w # << >>
    BY <2>1
  <2> QED
    BY <1>2, <1>7, <2>2 DEF WorkerReady
<1> QED
  BY <1>3, <1>4, <1>5, <1>6, <1>7

\* Once m2w_snd is dropped the other executor goes on until it ends.
LEMMA DrainReady ==
  ASSUME TypeOK, LiveInv, exe.pc = "drain"
  PROVE  MainReady \/ WorkerReady
<1>1. input.mt /\ ~MainHasSender
  BY DEF LiveInv, TableInv, WorkersInv, MainHasSender
<1>2. worker.pc \in {"recv", "send", "done", "panicked"}
  BY DEF TypeOK
<1> QED
  BY <1>1, <1>2 DEF MainReady, WorkerReady

\* Once the reading executor is over the other one has nothing to wait for.
LEMMA OverReady ==
  ASSUME TypeOK, ~Running
  PROVE  WorkerReady \/ JoinReady
<1>1. ~MainHasSender
  BY DEF Running, MainHasSender
<1>2. worker.pc \in {"recv", "send", "done", "panicked"} /\ input.mt \in BOOLEAN
  BY DEF TypeOK, Input
<1> QED
  BY <1>1, <1>2 DEF WorkerReady, JoinReady

\* The reading executor, the processing one and the join never all wait, and no
\* send waits for room, for files of any length and whatever fails: the waits of
\* the loops, of the last loop for the other executor's end (glommio.rs:822) and
\* of the joins.
THEOREM NeverStuckHolds == Spec => []NeverStuck
<1>1. IInv => NeverStuck
  <2> SUFFICES ASSUME IInv
               PROVE  SendsHaveRoom /\ (MainReady \/ WorkerReady \/ JoinReady)
    BY DEF NeverStuck
  <2>1. TypeOK /\ LiveInv
    BY DEF IInv
  <2>2. SendsHaveRoom
    BY <2>1, RoomHolds
  <2>3. exe.pc \in {"loop", "receive", "finish", "tail", "drain", "flush", "done", "panicked"}
    BY <2>1 DEF TypeOK
  <2>4. CASE exe.pc \in {"loop", "finish", "tail", "flush"}
    BY <2>2, <2>4 DEF MainReady
  <2>5. CASE exe.pc = "receive"
    BY <2>1, <2>2, <2>5, ReceiveReady
  <2>6. CASE exe.pc = "drain"
    BY <2>1, <2>2, <2>6, DrainReady
  <2>7. CASE exe.pc \in {"done", "panicked"}
    BY <2>1, <2>2, <2>7, OverReady DEF Running
  <2> QED
    BY <2>2, <2>3, <2>4, <2>5, <2>6, <2>7
<1> QED
  BY <1>1, Invariant, PTL
-----------------------------------------------------------------------------
(* How many steps are left at most.  Ten for a frame the loop has not come *)
(* to, since what a step of the loop hands on costs three steps on its way *)
(* through the channels; the rest is counted by where the blocks and the   *)
(* two executors are.                                                      *)

Phase(pc) == CASE pc = "loop"    -> 12
               [] pc = "receive" -> 7
               [] pc = "finish"  -> 5
               [] pc = "tail"    -> 4
               [] pc = "drain"   -> 3
               [] pc = "flush"   -> 2
               [] OTHER          -> 0
WorkerAt(pc) == CASE pc = "recv" -> 1
                  [] pc = "send" -> 3
                  [] OTHER       -> 0

FramesLeft == IF exe.fr < input.total THEN input.total - exe.fr ELSE 0
JoinLeft   == IF result = "none" THEN 1 ELSE 0
Undone == Phase(exe.pc) + Len(procStack) + Len(outStack)
          + 3 * Len(m2w) + WorkerAt(worker.pc) + Len(w2m)

Left == 10 * FramesLeft + Undone + JoinLeft

LEMMA PhasesAre ==
  /\ Phase("loop") = 12 /\ Phase("receive") = 7 /\ Phase("finish") = 5 /\ Phase("tail") = 4
  /\ Phase("drain") = 3 /\ Phase("flush") = 2 /\ Phase("done") = 0 /\ Phase("panicked") = 0
  /\ WorkerAt("recv") = 1 /\ WorkerAt("send") = 3
  /\ WorkerAt("done") = 0 /\ WorkerAt("panicked") = 0
  /\ \A pc : Phase(pc) \in Nat /\ WorkerAt(pc) \in Nat
BY DEF Phase, WorkerAt

LEMMA LensAre ==
  ASSUME TypeOK
  PROVE  /\ Len(procStack) \in Nat /\ Len(outStack) \in Nat
         /\ Len(m2w) \in Nat /\ Len(w2m) \in Nat
BY LenProperties DEF TypeOK

LEMMA LeftIs ==
  ASSUME TypeOK
  PROVE  FramesLeft \in Nat /\ Undone \in Nat /\ JoinLeft \in Nat /\ Left \in Nat
<1>1. FramesLeft \in Nat /\ JoinLeft \in Nat
  BY Numbers DEF FramesLeft, JoinLeft
<1>2. Undone \in Nat
  <2>1. Phase(exe.pc) \in Nat /\ WorkerAt(worker.pc) \in Nat
    BY PhasesAre
  <2> QED
    BY <2>1, LensAre DEF Undone
<1> QED
  BY <1>1, <1>2 DEF Left

LEMMA NextIs ==
  ASSUME TypeOK'
  PROVE  /\ Len(procStack') \in Nat /\ Len(outStack') \in Nat
         /\ Len(m2w') \in Nat /\ Len(w2m') \in Nat
         /\ \E u \in Nat : u = Undone'
<1>1. /\ Len(procStack') \in Nat /\ Len(outStack') \in Nat
      /\ Len(m2w') \in Nat /\ Len(w2m') \in Nat
  BY LenProperties DEF TypeOK
<1>2. Undone' \in Nat
  <2>1. Phase(exe'.pc) \in Nat /\ WorkerAt(worker'.pc) \in Nat
    BY PhasesAre
  <2> QED
    BY <1>1, <2>1 DEF Undone
<1> QED
  BY <1>1, <1>2

\* A step that puts a frame or a pair behind the loop has nine steps to hand on,
LEMMA AdvanceSpends ==
  ASSUME TypeOK, TypeOK', exe.fr < input.total, UNCHANGED <<input, result>>,
         NEW pc, NEW k \in {1, 2}, Advance(pc, k), Undone' < Undone + 10
  PROVE  Left' < Left
<1>1. exe'.fr = exe.fr + k
  BY DEF Advance
<1>2. FramesLeft \in Nat /\ Undone \in Nat /\ JoinLeft \in Nat
  BY LeftIs
<1>3. PICK u \in Nat : u = Undone'
  BY NextIs
<1>4. \E f \in Nat : f = FramesLeft' /\ f <= FramesLeft - 1
  BY <1>1, Numbers DEF FramesLeft
<1>5. PICK f \in Nat : f = FramesLeft' /\ f <= FramesLeft - 1
  BY <1>4
<1>6. JoinLeft' = JoinLeft
  BY DEF JoinLeft
<1>7. PICK g \in Nat, v \in Nat, j \in Nat : g = FramesLeft /\ v = Undone /\ j = JoinLeft
  BY <1>2
<1>8. Left = 10 * g + v + j /\ Left' = 10 * f + u + j
  BY <1>3, <1>5, <1>6, <1>7 DEF Left
<1>9. u < v + 10 /\ f <= g - 1
  BY <1>3, <1>5, <1>7
<1>10. 10 * f + u + j < 10 * g + v + j
  BY ONLY <1>9, u \in Nat, f \in Nat, g \in Nat, v \in Nat, j \in Nat
<1> QED
  BY <1>8, <1>10

\* and one that does not leaves less undone.
LEMMA OtherSpends ==
  ASSUME TypeOK, TypeOK', UNCHANGED <<input, result>>, exe'.fr = exe.fr, Undone' < Undone
  PROVE  Left' < Left
<1>1. FramesLeft \in Nat /\ Undone \in Nat /\ JoinLeft \in Nat
  BY LeftIs
<1>2. PICK u \in Nat : u = Undone'
  BY NextIs
<1>3. FramesLeft' = FramesLeft /\ JoinLeft' = JoinLeft
  BY DEF FramesLeft, JoinLeft
<1>4. PICK g \in Nat, v \in Nat, j \in Nat : g = FramesLeft /\ v = Undone /\ j = JoinLeft
  BY <1>1
<1>5. Left = 10 * g + v + j /\ Left' = 10 * g + u + j
  BY <1>2, <1>3, <1>4 DEF Left
<1>6. u < v
  BY <1>2, <1>4
<1>7. 10 * g + u + j < 10 * g + v + j
  BY ONLY <1>6, u \in Nat, g \in Nat, v \in Nat, j \in Nat
<1> QED
  BY <1>5, <1>7

\* The steps of the two loops that end a pass or one of the first two.
LEMMA PassSpends ==
  ASSUME IInv, TypeOK', StFirst \/ StSecond \/ MtFirst \/ MtSecondReceive \/ Finish
  PROVE  Left' < Left
<1>1. TypeOK /\ TableInv
  BY DEF IInv, LiveInv, StFirst, StSecond, MtFirst, MtSecondReceive, Finish, InLoop
<1>2. worker' = worker /\ input' = input /\ result' = result
  BY DEF StFirst, StSecond, MtFirst, MtSecondReceive, Finish, channels
<1>3. exe.fr < input.total
  BY <1>1 DEF TableInv, ReceiveInv, FinishInv, StFirst, StSecond, MtFirst, MtSecondReceive,
     Finish, InLoop
<1>4. Advance("loop", 1) \/ Advance("loop", 2)
  BY DEF StFirst, StSecond, MtFirst, MtSecondReceive, Finish, Width
<1>5. /\ Phase(exe'.pc) = 12 /\ WorkerAt(worker'.pc) = WorkerAt(worker.pc)
      /\ WorkerAt(worker.pc) \in Nat
      /\ exe.pc = "loop" => Phase(exe.pc) = 12
      /\ exe.pc = "receive" => Phase(exe.pc) = 7
      /\ exe.pc = "finish" => Phase(exe.pc) = 5
  BY <1>2, <1>4, PhasesAre DEF Advance
<1>6. CASE StFirst
  <2>1. /\ exe.pc = "loop" /\ procStack' = procStack /\ m2w' = m2w /\ w2m' = w2m
        /\ Len(outStack') = 1
    BY <1>6 DEF StFirst, InLoop, channels
  <2>2. Undone' < Undone + 10
    BY <1>1, <1>2, <1>5, <2>1, LensAre DEF Undone
  <2> QED
    BY <1>1, <1>2, <1>3, <1>4, <2>2, AdvanceSpends
<1>7. CASE StSecond
  <2>1. /\ exe.pc = "loop" /\ outStack' = outStack /\ m2w' = m2w /\ w2m' = w2m
        /\ Len(procStack') = 1
    BY <1>7 DEF StSecond, InLoop, channels
  <2>2. Undone' < Undone + 10
    BY <1>1, <1>2, <1>5, <2>1, LensAre DEF Undone
  <2> QED
    BY <1>1, <1>2, <1>3, <1>4, <2>2, AdvanceSpends
<1>8. CASE MtFirst
  <2>1. /\ exe.pc = "loop" /\ procStack' = procStack /\ outStack' = outStack /\ w2m' = w2m
        /\ m2w' = m2w \o <<0, 1>> /\ read + 2 <= input.present
    BY <1>8 DEF MtFirst, InLoop, stacks, HasRead
  <2>2. m2w \in Seq(Frames) /\ 0 \in Frames /\ 1 \in Frames
    BY <1>1, <2>1, Numbers DEF TypeOK
  <2>3. <<0, 1>> \in Seq(Frames) /\ Len(<<0, 1>>) = 2
    BY <2>2
  <2>4. Len(m2w') = Len(m2w) + 2
    BY <2>1, <2>2, <2>3, ConcatProperties
  <2>5. Undone' < Undone + 10
    BY <1>1, <1>2, <1>5, <2>1, <2>4, LensAre DEF Undone
  <2> QED
    BY <1>1, <1>2, <1>3, <1>4, <2>5, AdvanceSpends
<1>9. CASE MtSecondReceive
  <2>1. /\ exe.pc = "receive" /\ procStack' = procStack /\ m2w' = m2w
        /\ w2m # << >> /\ w2m' = Tail(w2m)
        /\ outStack' = Append(outStack, procDone \o <<Head(w2m)>>)
    BY <1>9 DEF MtSecondReceive
  <2>2. Len(w2m') = Len(w2m) - 1
    BY <1>1, <2>1, HeadTailProperties DEF TypeOK
  <2>3. outStack = << >>
    BY <1>1, <2>1 DEF TableInv, ReceiveInv
  <2>4. Len(outStack') = 1 /\ Len(outStack) = 0
    BY <2>1, <2>3
  <2>5. Undone' < Undone + 10
    BY <1>1, <1>2, <1>5, <2>1, <2>2, <2>4, LensAre DEF Undone
  <2> QED
    BY <1>1, <1>2, <1>3, <1>4, <2>5, AdvanceSpends
<1>10. CASE Finish
  <2>1. exe.pc = "finish" /\ outStack' = outStack /\ m2w' = m2w /\ w2m' = w2m
    BY <1>10 DEF Finish, channels
  <2>2. Len(procStack') <= 2 /\ Len(procStack') \in Nat
    <3>1. DOMAIN procStack' = 1..Len(procStack') /\ Len(procStack') \in Nat
      BY LenProperties DEF TypeOK
    <3>2. PICK n \in Nat : n = Len(procStack')
      BY <3>1
    <3>3. 1..n = 1..1 \/ 1..n = 1..2
      BY <1>10, <3>1, <3>2 DEF Finish, Width
    <3>4. n <= 2
      BY ONLY <3>3, n \in Nat
    <3> QED
      BY <3>2, <3>4
  <2>3. Undone' < Undone + 10
    <3>1. PICK n \in Nat, p \in Nat, o \in Nat, m \in Nat, a \in Nat, w \in Nat :
            /\ n = Len(procStack') /\ p = Len(procStack) /\ o = Len(outStack)
            /\ m = Len(m2w) /\ a = WorkerAt(worker.pc) /\ w = Len(w2m)
      BY <1>1, <1>5, <2>2, LensAre
    <3>2. Undone = 5 + p + o + 3 * m + a + w /\ Undone' = 12 + n + o + 3 * m + a + w
      BY <1>2, <1>5, <2>1, <3>1 DEF Undone
    <3>3. n <= 2
      BY <2>2, <3>1
    <3>4. 12 + n + o + 3 * m + a + w < 5 + p + o + 3 * m + a + w + 10
      BY ONLY <3>3, n \in Nat, p \in Nat, o \in Nat, m \in Nat, a \in Nat, w \in Nat
    <3> QED
      BY <3>2, <3>4
  <2> QED
    BY <1>1, <1>2, <1>3, <1>4, <2>3, AdvanceSpends
<1> QED
  BY <1>6, <1>7, <1>8, <1>9, <1>10

\* A stack without its last group.
LEMMA FrontShorter ==
  ASSUME NEW S, NEW s \in Seq(S), s # << >>
  PROVE  Len(Front(s)) = Len(s) - 1
<1>1. Len(s) \in Nat \ {0}
  BY EmptySeq, LenProperties
<1>2. \A i \in 1..Len(s) - 1 : s[i] \in S
  BY <1>1, ElementOfSeq
<1>3. Len(SubSeq(s, 1, Len(s) - 1)) = IF 1 <= Len(s) - 1 THEN Len(s) - 1 - 1 + 1 ELSE 0
  <2>1. 1 \in Int /\ Len(s) - 1 \in Int
    BY <1>1
  <2> QED
    BY <1>2, <2>1, SubSeqProperties
<1>4. \A n \in Nat \ {0} : (IF 1 <= n - 1 THEN n - 1 - 1 + 1 ELSE 0) = n - 1
  OBVIOUS
<1> QED
  BY <1>1, <1>3, <1>4, Zenon DEF Front

\* The other steps of the two loops.
LEMMA LoopSpends ==
  ASSUME IInv, TypeOK', StProcess \/ MtSecond \/ MtProcess \/ MtReceive \/ MtPaired
  PROVE  Left' < Left
<1>1. TypeOK /\ TableInv
  BY DEF IInv, LiveInv, StProcess, MtSecond, MtProcess, MtReceive, MtPaired, InLoop
<1>2. worker' = worker /\ input' = input /\ result' = result
  BY DEF StProcess, MtSecond, MtProcess, MtReceive, MtPaired, channels
<1>3. exe'.fr = exe.fr
  BY <1>1, ExeGoes DEF StProcess, MtSecond, MtProcess, MtReceive, MtPaired
<1>4. /\ WorkerAt(worker'.pc) = WorkerAt(worker.pc) /\ WorkerAt(worker.pc) \in Nat
      /\ Phase("loop") = 12 /\ Phase("receive") = 7 /\ Phase("finish") = 5
  BY <1>2, PhasesAre
<1>5. CASE StProcess
  <2>1. /\ exe.pc = "loop" /\ exe'.pc = "finish" /\ m2w' = m2w /\ w2m' = w2m
        /\ outStack' = Append(Front(outStack), <<Last(procStack)>>) /\ Len(procStack') = 0
        /\ exe.fr >= 2 /\ ~input.mt
    BY <1>1, <1>5, ExeGoes DEF StProcess, InLoop, channels
  <2>2. outStack = OutAt(exe.fr) /\ exe.fr \in Nat
    BY <1>1, <2>1, Numbers DEF TableInv, LoopInv
  <2>3. outStack = <<Group(exe.fr)>>
    BY <2>1, <2>2, StAt DEF OutAt
  <2>4. Len(outStack') = 1 /\ Len(outStack) = 1
    BY <2>1, <2>3, One
  <2>5. Undone' < Undone
    BY <1>1, <1>4, <2>1, <2>4, LensAre DEF Undone
  <2> QED
    BY <1>1, <1>2, <1>3, <2>5, OtherSpends
<1>6. CASE MtSecond
  <2>1. /\ exe.pc = "loop" /\ exe'.pc = "receive" /\ m2w' = Append(m2w, 2) /\ w2m' = w2m
        /\ outStack' = outStack /\ procStack' = procStack
    BY <1>1, <1>6, ExeGoes DEF MtSecond, InLoop
  <2>2. Len(m2w') = Len(m2w) + 1
    BY <1>1, <2>1 DEF TypeOK
  <2>3. Undone' < Undone
    BY <1>1, <1>4, <2>1, <2>2, LensAre DEF Undone
  <2> QED
    BY <1>1, <1>2, <1>3, <2>3, OtherSpends
<1>7. CASE MtProcess
  <2> DEFINE s == Reverse(SubSeq(procStack, 2, Len(procStack)))
  <2>1. /\ exe.pc = "loop" /\ exe'.pc = "receive" /\ w2m' = w2m /\ m2w' = m2w \o s
        /\ outStack' = Front(outStack) /\ procStack' = << >> /\ exe.fr >= 4 /\ input.mt
    BY <1>1, <1>7, ExeGoes DEF MtProcess, InLoop
  <2>2. /\ outStack = <<Group(exe.fr)>> /\ exe.fr \in Nat
        /\ procStack = << >> \/ \E x \in Frames, y \in Frames : procStack = <<x, y>>
    <3>1. /\ outStack = OutAt(exe.fr) /\ procStack = ProcAt(exe.fr)
          /\ exe.fr \in Nat /\ procStack \in Seq(Frames)
      BY <1>1, <2>1, Numbers DEF TableInv, LoopInv, TypeOK
    <3>2. outStack = <<Group(exe.fr)>>
      BY <2>1, <3>1 DEF OutAt, Grouped
    <3>3. procStack = << >> \/ procStack = <<exe.fr - 2, exe.fr - 1>>
      BY <2>1, <3>1 DEF ProcAt
    <3>4. exe.fr - 2 \in Frames /\ exe.fr - 1 \in Frames
      <4>1. exe.fr < input.total
        BY <1>7 DEF MtProcess, InLoop
      <4> QED
        <5>1. /\ exe.fr \in Nat /\ input.total \in 0..MaxFrames /\ MaxFrames \in Nat
              /\ Frames = 0..MaxFrames /\ exe.fr >= 4
          BY <1>1, <2>1, Numbers
        <5>2. PICK f \in Nat, t \in 0..MaxFrames : f = exe.fr /\ t = input.total
          BY <5>1
        <5>3. f >= 4 /\ f < t
          BY <4>1, <5>1, <5>2
        <5>4. f - 2 \in 0..MaxFrames /\ f - 1 \in 0..MaxFrames
          BY ONLY <5>1, <5>3, f \in Nat, t \in 0..MaxFrames
        <5> QED
          BY <5>1, <5>2, <5>4
    <3> QED
      BY <3>1, <3>2, <3>3, <3>4
  <2>3. Len(outStack') = 0 /\ Len(outStack) = 1
    BY <2>1, <2>2, One
  <2>4. s = << >> \/ \E y \in Frames : s = <<y>>
    <3>1. CASE procStack = << >>
      BY <3>1, Nil, Slices
    <3>2. ASSUME NEW x \in Frames, NEW y \in Frames, procStack = <<x, y>>
          PROVE  s = <<y>>
      BY <3>2, Two, Slices
    <3> QED
      BY <2>2, <3>1, <3>2
  <2> HIDE DEF s
  <2>5. Len(m2w') <= Len(m2w) + 1
    <3>1. m2w \in Seq(Frames) /\ s \in Seq(Frames) /\ Len(s) <= 1 /\ Len(s) \in Nat
      <4>1. << >> \in Seq(Frames) /\ Len(<< >>) = 0
        OBVIOUS
      <4>2. \A y \in Frames : <<y>> \in Seq(Frames) /\ Len(<<y>>) = 1
        OBVIOUS
      <4>3. s \in Seq(Frames) /\ Len(s) \in {0, 1}
        BY <2>4, <4>1, <4>2
      <4>4. m2w \in Seq(Frames)
        BY <1>1 DEF TypeOK
      <4>5. \A l \in {0, 1} : l <= 1 /\ l \in Nat
        OBVIOUS
      <4> QED
        BY <4>3, <4>4, <4>5
    <3>2. Len(m2w \o s) = Len(m2w) + Len(s)
      BY <3>1, ConcatProperties
    <3> QED
      BY <1>1, <2>1, <3>1, <3>2, LensAre
  <2>6. Len(procStack') = 0 /\ Len(m2w') \in Nat
    BY <2>1, NextIs
  <2>7. Undone' < Undone
    BY <1>1, <1>4, <2>1, <2>3, <2>5, <2>6, LensAre DEF Undone
  <2> QED
    BY <1>1, <1>2, <1>3, <2>7, OtherSpends
<1>8. CASE MtReceive
  <2>1. /\ exe' = exe /\ m2w' = m2w /\ w2m # << >> /\ w2m' = Tail(w2m)
        /\ outStack' = outStack /\ procStack' = procStack
    BY <1>8 DEF MtReceive
  <2>2. Len(w2m') = Len(w2m) - 1
    BY <1>1, <2>1, HeadTailProperties DEF TypeOK
  <2>3. Phase(exe'.pc) = Phase(exe.pc) /\ Phase(exe.pc) \in Nat
    BY <2>1, PhasesAre
  <2>4. Undone' < Undone
    BY <1>1, <1>4, <2>1, <2>2, <2>3, LensAre DEF Undone
  <2> QED
    BY <1>1, <1>2, <1>3, <2>4, OtherSpends
<1>9. CASE MtPaired
  <2>1. /\ exe.pc = "receive" /\ exe'.pc = "finish" /\ m2w' = m2w /\ w2m' = w2m
        /\ outStack' = Append(outStack, Reverse(procDone)) /\ procStack' = procStack
    BY <1>1, <1>9, ExeGoes DEF MtPaired, channels
  <2>2. outStack = << >>
    BY <1>1, <2>1 DEF TableInv, ReceiveInv
  <2>3. Len(outStack') = 1 /\ Len(outStack) = 0
    BY <2>1, <2>2
  <2>4. Undone' < Undone
    BY <1>1, <1>4, <2>1, <2>3, LensAre DEF Undone
  <2> QED
    BY <1>1, <1>2, <1>3, <2>4, OtherSpends
<1> QED
  BY <1>5, <1>6, <1>7, <1>8, <1>9

\* What is done after the loop, and a panic.
LEMMA TailSpends ==
  ASSUME IInv, TypeOK', EndInput \/ TailProcess \/ TailEnds \/ Drain \/ DrainEnds
                        \/ Flush \/ FlushEnds \/ StProcPanics \/ Fails
  PROVE  Left' < Left
<1>1. TypeOK
  BY DEF IInv
<1>2. worker' = worker /\ m2w' = m2w /\ input' = input /\ result' = result
  BY DEF EndInput, TailProcess, TailEnds, Drain, DrainEnds, Flush, FlushEnds, StProcPanics,
     Fails, Panic, channels
<1>3. /\ WorkerAt(worker'.pc) = WorkerAt(worker.pc) /\ WorkerAt(worker.pc) \in Nat
      /\ Phase(exe'.pc) \in Nat /\ Phase(exe.pc) \in Nat
  BY <1>2, PhasesAre
<1>4. CASE EndInput \/ TailEnds \/ DrainEnds \/ FlushEnds \/ StProcPanics \/ Fails
  <2>1. /\ exe'.fr = exe.fr
        /\ w2m' = w2m /\ procStack' = procStack /\ outStack' = outStack
    BY <1>1, <1>4, ExeGoes DEF EndInput, TailEnds, DrainEnds, FlushEnds, StProcPanics, Fails,
       Panic, stacks, channels
  <2>2. Phase(exe'.pc) < Phase(exe.pc)
    <3>1. CASE EndInput
      <4>1. exe.pc = "loop" /\ exe'.pc = "tail"
        BY <1>1, <3>1, ExeGoes DEF EndInput
      <4> QED
        BY <4>1, PhasesAre
    <3>2. CASE TailEnds
      <4>1. exe.pc = "tail" /\ exe'.pc \in {"drain", "flush"}
        BY <1>1, <3>2, ExeGoes DEF TailEnds
      <4> QED
        BY <4>1, PhasesAre
    <3>3. CASE DrainEnds
      <4>1. exe.pc = "drain" /\ exe'.pc = "flush"
        BY <1>1, <3>3, ExeGoes DEF DrainEnds
      <4> QED
        BY <4>1, PhasesAre
    <3>4. CASE FlushEnds
      <4>1. exe.pc = "flush" /\ exe'.pc = "done"
        BY <1>1, <3>4, ExeGoes DEF FlushEnds
      <4> QED
        BY <4>1, PhasesAre
    <3>5. CASE StProcPanics \/ Fails
      <4>1. /\ exe.pc \in {"loop", "receive", "finish", "tail", "drain", "flush"}
            /\ exe'.pc = "panicked"
        BY <1>1, <3>5, ExeGoes DEF StProcPanics, Fails, Panic, Running, InLoop, TypeOK
      <4> QED
        BY <4>1, PhasesAre
    <3> QED
      BY <1>4, <3>1, <3>2, <3>3, <3>4, <3>5
  <2>3. Undone' < Undone
    BY <1>1, <1>2, <1>3, <2>1, <2>2, LensAre DEF Undone
  <2> QED
    BY <1>1, <1>2, <2>1, <2>3, OtherSpends
<1>5. CASE TailProcess
  <2>1. /\ exe' = exe /\ w2m' = w2m /\ outStack' = outStack
        /\ procStack # << >> /\ procStack' = Front(procStack)
    BY <1>5 DEF TailProcess, channels
  <2>2. Len(procStack') = Len(procStack) - 1
    BY <1>1, <2>1, FrontShorter DEF TypeOK
  <2>3. Undone' < Undone
    BY <1>1, <1>2, <1>3, <2>1, <2>2, LensAre DEF Undone
  <2> QED
    BY <1>1, <1>2, <2>1, <2>3, OtherSpends
<1>6. CASE Drain
  <2>1. /\ exe' = exe /\ outStack' = outStack /\ procStack' = procStack
        /\ w2m # << >> /\ w2m' = Tail(w2m)
    BY <1>6 DEF Drain, stacks
  <2>2. Len(w2m') = Len(w2m) - 1
    BY <1>1, <2>1, HeadTailProperties DEF TypeOK
  <2>3. Undone' < Undone
    BY <1>1, <1>2, <1>3, <2>1, <2>2, LensAre DEF Undone
  <2> QED
    BY <1>1, <1>2, <2>1, <2>3, OtherSpends
<1>7. CASE Flush
  <2>1. /\ exe' = exe /\ w2m' = w2m /\ procStack' = procStack
        /\ outStack # << >> /\ outStack' = Front(outStack)
    BY <1>7 DEF Flush, channels
  <2>2. Len(outStack') = Len(outStack) - 1
    BY <1>1, <2>1, FrontShorter DEF TypeOK
  <2>3. Undone' < Undone
    BY <1>1, <1>2, <1>3, <2>1, <2>2, LensAre DEF Undone
  <2> QED
    BY <1>1, <1>2, <2>1, <2>3, OtherSpends
<1> QED
  BY <1>4, <1>5, <1>6, <1>7

\* A step of the other executor.
LEMMA WorkerSpends == ASSUME TypeOK, TypeOK', Worker PROVE Left' < Left
<1>1. /\ exe' = exe /\ input' = input /\ result' = result
      /\ procStack' = procStack /\ outStack' = outStack
  BY DEF Worker, WorkerRecv, WorkerSend, WorkerPanics, WorkerEnds, stacks
<1>2. Phase(exe'.pc) = Phase(exe.pc) /\ Phase(exe.pc) \in Nat
  BY <1>1, PhasesAre
<1>3. /\ WorkerAt("recv") = 1 /\ WorkerAt("send") = 3 /\ WorkerAt("done") = 0
      /\ WorkerAt("panicked") = 0
  BY PhasesAre
<1>4. CASE WorkerRecv
  <2>1. /\ worker.pc = "recv" /\ worker'.pc = "send" /\ w2m' = w2m
        /\ m2w # << >> /\ m2w' = Tail(m2w)
    BY <1>4 DEF WorkerRecv
  <2>2. Len(m2w') = Len(m2w) - 1
    BY <2>1, HeadTailProperties DEF TypeOK
  <2>3. Undone' < Undone
    BY <1>1, <1>2, <1>3, <2>1, <2>2, LensAre DEF Undone
  <2> QED
    BY <1>1, <2>3, OtherSpends
<1>5. CASE WorkerSend
  <2>1. /\ worker.pc = "send" /\ worker'.pc = "recv" /\ m2w' = m2w
        /\ w2m' = Append(w2m, worker.block)
    BY <1>5 DEF WorkerSend, WorkerGoes, TypeOK
  <2>2. Len(w2m') = Len(w2m) + 1
    BY <2>1 DEF TypeOK
  <2>3. Undone' < Undone
    BY <1>1, <1>2, <1>3, <2>1, <2>2, LensAre DEF Undone
  <2> QED
    BY <1>1, <2>3, OtherSpends
<1>6. CASE WorkerPanics \/ WorkerEnds
  <2>1. /\ worker.pc \in {"recv", "send"} /\ worker'.pc \in {"done", "panicked"}
        /\ m2w' = m2w /\ w2m' = w2m
    BY <1>6 DEF WorkerPanics, WorkerEnds, WorkerGoes, TypeOK
  <2>2. WorkerAt(worker.pc) \in {1, 3} /\ WorkerAt(worker'.pc) = 0
    BY <1>3, <2>1
  <2>3. Undone' < Undone
    BY <1>1, <1>2, <2>1, <2>2, LensAre DEF Undone
  <2> QED
    BY <1>1, <2>3, OtherSpends
<1> QED
  BY <1>4, <1>5, <1>6 DEF Worker

LEMMA JoinSpends == ASSUME TypeOK, Join PROVE Left' < Left
<1>1. FramesLeft' = FramesLeft /\ Undone' = Undone
  BY DEF Join, FramesLeft, Undone, stacks, channels
<1>2. JoinLeft = 1 /\ JoinLeft' = 0
  BY DEF Join, JoinLeft
<1> QED
  BY <1>1, <1>2, LeftIs DEF Left

\* Every step of a call uses one up, with one executor and with two, whatever
\* fails: no pass of a loop is taken twice, no block is handed over twice and no
\* stack is filled again once the loop is left.
THEOREM StepsBounded ==
  Spec => /\ Left = 10 * input.total + 14
          /\ [](Left \in Nat)
          /\ [][Left' < Left]_vars
<1>1. ASSUME Init PROVE Left = 10 * input.total + 14
  <2>1. TypeOK /\ input.total \in Nat
    BY <1>1, InvInit, Numbers DEF IInv
  <2>2. FramesLeft = input.total /\ JoinLeft = 1
    BY <1>1, <2>1 DEF Init, FramesLeft, JoinLeft
  <2>3. Phase(exe.pc) = 12 /\ WorkerAt(worker.pc) = 1
    BY <1>1, PhasesAre DEF Init
  <2>4. Undone = 13
    BY <1>1, <2>3, Nil DEF Init, Undone
  <2> QED
    BY <2>1, <2>2, <2>4 DEF Left
<1>2. IInv /\ IInv' /\ [Next]_vars => [Left' < Left]_vars
  <2> SUFFICES ASSUME IInv, IInv', Main \/ Worker \/ Join
               PROVE  Left' < Left
    BY DEF Next, Finished
  <2>1. TypeOK /\ TypeOK'
    BY DEF IInv
  <2> QED
    BY <2>1, PassSpends, LoopSpends, TailSpends, WorkerSpends, JoinSpends DEF Main
<1>3. IInv => Left \in Nat
  BY LeftIs DEF IInv
<1> QED
  BY <1>1, <1>2, <1>3, Invariant, PTL DEF Spec
=============================================================================
