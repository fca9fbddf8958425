--------------------------- MODULE SpMtSc_proofs ---------------------------
(***************************************************************************)
(* What the threads of SpMtScTranscoder keep, for every number of workers  *)
(* and frames, with any faults, to stdout and to a file: types, the 2K     *)
(* buffers, that no frame is lost or doubled, the order on stdout, that Ok *)
(* means a complete output, that the threads never all wait for each other *)
(* and that only so many steps are left at any moment.                     *)
(*                                                                         *)
(* Buffers are counted: each step moves one, which is what AtMoves says of *)
(* the workers.  Frames are followed through the places they pass after    *)
(* fullSrc: every step moves at most one frame from one place to another   *)
(* (Moves), so the places stay disjoint, and what leaves them without      *)
(* reaching the output leaves a failed thread behind.  That some thread    *)
(* can move needs the count of the buffers exactly (TightInv): as long as  *)
(* none is lost, they cannot all be where nobody waits for one.            *)
(***************************************************************************)
EXTENDS SpMtSc, FiniteSetTheorems, Integers, TLAPS

Elems(q) == {q[i] : i \in 1..Len(q)}
Distinct(q) == \A i, j \in 1..Len(q) : i # j => q[i] # q[j]

Holding(w) == worker[w].pc = "process"

TypeInv ==
    /\ TypeOK
    /\ \A w \in Workers : Holding(w) => worker[w].fr \in Frames
    /\ writer = "place" => cur \in Frames
    /\ reader = "read" => next < NumFrames
    /\ writer = "back" /\ stdout => nextFr < NumFrames

\* The oldest frame on fullSrc, or the next one if there is none.
First == next - Len(fullSrc)

\* Where a frame is once a worker has taken it.
Names == {"worker", "fullTgt", "writer", "stash", "out"}
Place(p) ==
    CASE p = "worker"  -> {worker[w].fr : w \in {v \in Workers : Holding(v)}}
      [] p = "fullTgt" -> Elems(fullTgt)
      [] p = "writer"  -> IF writer = "place" THEN {cur} ELSE {}
      [] p = "stash"   -> stash
      [] p = "out"     -> Elems(out)

Queued ==
    /\ Len(fullSrc) <= next
    /\ \A i \in 1..Len(fullSrc) : fullSrc[i] = First + i - 1

Single ==
    \A v, w \in Workers :
        Holding(v) /\ Holding(w) /\ v # w => worker[v].fr # worker[w].fr

Apart == \A p, q \in Names : p # q => Place(p) \cap Place(q) = {}

Taken == \A p \in Names : \A fr \in Place(p) : fr < First

Kept == Failed \/ \A fr \in Frames : fr < First => \E p \in Names : fr \in Place(p)

Spread == Apart /\ Taken /\ Kept

PathInv == Queued /\ Single /\ Distinct(fullTgt) /\ Distinct(out) /\ Spread

\* What stdout got, and that the stash never holds the frame it waits for.
OutInv ==
    /\ stdout =>
         /\ Len(out) = nextFr + (IF writer = "back" THEN 1 ELSE 0)
         /\ \A i \in 1..Len(out) : out[i] = i - 1
         /\ writer # "back" => nextFr \notin stash
    /\ ~stdout => stash = {}

EndInv ==
    /\ reader = "ok" => next = NumFrames
    /\ (\E w \in Workers : worker[w].pc = "ok") => fullSrc = <<>> /\ reader \in Ended
    /\ main # "reader" => reader \in Ended
    /\ writer = "ok" => main # "reader" /\ WorkersEnded /\ fullTgt = <<>>
    /\ result # "none" <=> main = "returned"
    /\ main = "returned" => WorkersEnded /\ WriterGone
    /\ result = "ok" => ~Failed

IInv == TypeInv /\ BuffersBounded /\ PathInv /\ OutInv /\ EndInv

-----------------------------------------------------------------------------
(* Operators. *)

LEMMA Constants == K \in Nat /\ K > 0 /\ NumFrames \in Nat /\ Frames \subseteq Nat
<1>1. K \in Nat /\ K # 0
  BY SizeAssumption, FS_CardinalityType, FS_EmptySet DEF K
<1> QED
  BY <1>1, SizeAssumption DEF Frames

LEMMA AtIs == ASSUME NEW pcs PROVE At(pcs) \in Nat /\ At(pcs) <= K
<1>1. {w \in Workers : worker[w].pc \in pcs} \subseteq Workers
  OBVIOUS
<1> QED
  BY <1>1, FS_Subset, FS_CardinalityType, SizeAssumption DEF At, K

\* One worker goes from a place in the code to another.
LEMMA AtMoves ==
    ASSUME NEW w \in Workers, NEW pcs,
           \A v \in Workers : v # w => worker'[v].pc = worker[v].pc
    PROVE  At(pcs)' = At(pcs) + (IF worker'[w].pc \in pcs THEN 1 ELSE 0)
                              - (IF worker[w].pc \in pcs THEN 1 ELSE 0)
<1> DEFINE A == {v \in Workers : worker[v].pc \in pcs}
           B == {v \in Workers : worker'[v].pc \in pcs}
<1>1. IsFiniteSet(A) /\ IsFiniteSet(B)
  <2>1. A \subseteq Workers /\ B \subseteq Workers
    OBVIOUS
  <2> QED  BY <2>1, FS_Subset, SizeAssumption
<1>2. Cardinality(A) \in Nat /\ Cardinality(B) \in Nat
  BY <1>1, FS_CardinalityType
<1>3. (w \in A <=> worker[w].pc \in pcs) /\ (w \in B <=> worker'[w].pc \in pcs)
  OBVIOUS
<1>4. At(pcs) = Cardinality(A) /\ At(pcs)' = Cardinality(B)
  BY DEF At
<1>5. A \cup {w} = B \cup {w}
  OBVIOUS
<1> HIDE DEF A, B
<1>6. Cardinality(A \cup {w}) = IF w \in A THEN Cardinality(A) ELSE Cardinality(A) + 1
  BY <1>1, FS_AddElement
<1>7. Cardinality(B \cup {w}) = IF w \in B THEN Cardinality(B) ELSE Cardinality(B) + 1
  BY <1>1, FS_AddElement
<1>8. Cardinality(A) + (IF w \in A THEN 0 ELSE 1) = Cardinality(B) + (IF w \in B THEN 0 ELSE 1)
  <2>1. Cardinality(A) + (IF w \in A THEN 0 ELSE 1) = Cardinality(A \cup {w})
    BY <1>2, <1>6
  <2>2. Cardinality(B) + (IF w \in B THEN 0 ELSE 1) = Cardinality(B \cup {w})
    BY <1>2, <1>7
  <2> QED  BY <1>5, <2>1, <2>2
<1> DEFINE a == Cardinality(A)  b == Cardinality(B)
<1>9. a \in Nat /\ b \in Nat /\ At(pcs) = a /\ At(pcs)' = b
  BY <1>2, <1>4
<1>10. b = a + (IF w \in B THEN 1 ELSE 0) - (IF w \in A THEN 1 ELSE 0)
  <2>1. a + (IF w \in A THEN 0 ELSE 1) = b + (IF w \in B THEN 0 ELSE 1)
    BY <1>8
  <2> HIDE DEF a, b
  <2> QED  BY <1>9, <2>1
<1> HIDE DEF a, b
<1>11. (IF w \in B THEN 1 ELSE 0) = (IF worker'[w].pc \in pcs THEN 1 ELSE 0)
  BY <1>3
<1>12. (IF w \in A THEN 1 ELSE 0) = (IF worker[w].pc \in pcs THEN 1 ELSE 0)
  BY <1>3
<1> QED
  BY <1>9, <1>10, <1>11, <1>12

LEMMA AtStays == ASSUME UNCHANGED worker, NEW pcs PROVE At(pcs)' = At(pcs)
  BY DEF At

LEMMA HeadTail ==
    ASSUME NEW S, NEW q \in Seq(S), q # <<>>
    PROVE  /\ Head(q) \in S /\ Head(q) = q[1] /\ Head(q) \in Elems(q)
           /\ Tail(q) \in Seq(S) /\ Len(Tail(q)) = Len(q) - 1 /\ Len(q) > 0
           /\ \A i \in 1..(Len(q) - 1) : Tail(q)[i] = q[i + 1]
           /\ Elems(Tail(q)) \subseteq Elems(q)
           /\ Elems(q) \subseteq Elems(Tail(q)) \cup {Head(q)}
           /\ Distinct(q) => Head(q) \notin Elems(Tail(q)) /\ Distinct(Tail(q))
<1>1. /\ Head(q) \in S /\ Head(q) = q[1] /\ Len(q) \in Nat /\ Len(q) > 0
      /\ Tail(q) \in Seq(S) /\ Len(Tail(q)) = Len(q) - 1
      /\ \A i \in 1..(Len(q) - 1) : Tail(q)[i] = q[i + 1]
  OBVIOUS
<1>2. Head(q) \in Elems(q) /\ Elems(Tail(q)) \subseteq Elems(q)
  BY <1>1 DEF Elems
<1>3. Elems(q) \subseteq Elems(Tail(q)) \cup {Head(q)}
  <2> SUFFICES ASSUME NEW i \in 1..Len(q) PROVE q[i] \in Elems(Tail(q)) \cup {Head(q)}
    BY DEF Elems
  <2>1. CASE i = 1
    BY <1>1, <2>1
  <2>2. CASE i # 1
    <3>1. i - 1 \in 1..Len(Tail(q)) /\ Tail(q)[i - 1] = q[i]
      BY <1>1, <2>2
    <3> QED  BY <3>1 DEF Elems
  <2> QED  BY <2>1, <2>2
<1>4. ASSUME Distinct(q) PROVE Head(q) \notin Elems(Tail(q)) /\ Distinct(Tail(q))
  <2>1. \A i \in 1..Len(Tail(q)) : i + 1 \in 1..Len(q) /\ Tail(q)[i] = q[i + 1]
    BY <1>1
  <2>2. Head(q) \notin Elems(Tail(q))
    BY <1>1, <1>4, <2>1 DEF Elems, Distinct
  <2>3. Distinct(Tail(q))
    BY <1>1, <1>4, <2>1 DEF Distinct
  <2> QED  BY <2>2, <2>3
<1> QED
  BY <1>1, <1>2, <1>3, <1>4

LEMMA Appended ==
    ASSUME NEW S, NEW q \in Seq(S), NEW x \in S
    PROVE  /\ Append(q, x) \in Seq(S) /\ Len(Append(q, x)) = Len(q) + 1
           /\ \A i \in 1..Len(q) : Append(q, x)[i] = q[i]
           /\ Append(q, x)[Len(q) + 1] = x
           /\ Elems(Append(q, x)) = Elems(q) \cup {x}
           /\ Distinct(q) /\ x \notin Elems(q) => Distinct(Append(q, x))
<1> DEFINE p == Append(q, x)
<1>1. /\ p \in Seq(S) /\ Len(p) = Len(q) + 1 /\ Len(q) \in Nat
      /\ \A i \in 1..Len(q) : p[i] = q[i]
      /\ p[Len(q) + 1] = x
  OBVIOUS
<1> HIDE DEF p
<1>2. Elems(p) = Elems(q) \cup {x}
  <2>1. Elems(p) \subseteq Elems(q) \cup {x}
    <3> SUFFICES ASSUME NEW i \in 1..Len(p) PROVE p[i] \in Elems(q) \cup {x}
      BY DEF Elems
    <3>1. i \in 1..Len(q) \/ i = Len(q) + 1
      BY <1>1
    <3> QED  BY <1>1, <3>1 DEF Elems
  <2>2. \A i \in 1..Len(q) : q[i] \in Elems(p)
    BY <1>1 DEF Elems
  <2>3. x \in Elems(p)
    BY <1>1 DEF Elems
  <2> QED  BY <2>1, <2>2, <2>3 DEF Elems
<1>3. Distinct(q) /\ x \notin Elems(q) => Distinct(p)
  BY <1>1 DEF Distinct, Elems
<1> QED
  BY <1>1, <1>2, <1>3 DEF p

-----------------------------------------------------------------------------
(* Buffers. *)

LEMMA Goes ==
    ASSUME TypeOK, NEW w \in Workers, NEW pc, Go(w, pc)
    PROVE  /\ worker'[w].pc = pc /\ worker'[w].fr = worker[w].fr
           /\ \A v \in Workers : v # w => worker'[v] = worker[v]
  BY DEF Go, TypeOK

\* A source buffer is free, full, with the reader, or with a worker.
Srcs == freeSrc + Len(fullSrc) + (IF reader = "read" THEN 1 ELSE 0)
        + At({"start", "process", "free"})
\* A target buffer is free, full, stashed, with the writer, or with a worker.
Tgts == freeTgt + Len(fullTgt) + Cardinality(stash)
        + (IF writer \in {"place", "back"} THEN 1 ELSE 0)
        + At({"start", "src", "process"})

LEMMA StashFinite == ASSUME TypeOK PROVE IsFiniteSet(stash) /\ Cardinality(stash) \in Nat
<1>1. IsFiniteSet(Frames)
  BY FS_Interval, SizeAssumption DEF Frames
<1> QED
  BY <1>1, FS_Subset, FS_CardinalityType DEF TypeOK

LEMMA Counts ==
    ASSUME TypeOK
    PROVE  /\ freeSrc \in Nat /\ freeTgt \in Nat /\ Len(fullSrc) \in Nat
           /\ Len(fullTgt) \in Nat /\ Cardinality(stash) \in Nat
           /\ At({"start", "process", "free"}) \in Nat
           /\ At({"start", "src", "process"}) \in Nat
           /\ Srcs \in Nat /\ Tgts \in Nat
<1>1. /\ freeSrc \in Nat /\ freeTgt \in Nat /\ Len(fullSrc) \in Nat /\ Len(fullTgt) \in Nat
      /\ Cardinality(stash) \in Nat
  BY Constants, StashFinite DEF TypeOK
<1>2. /\ At({"start", "process", "free"}) \in Nat
      /\ At({"start", "src", "process"}) \in Nat
  BY AtIs
<1> QED
  BY <1>1, <1>2 DEF Srcs, Tgts

LEMMA BoundKept ==
    ASSUME TypeOK, BuffersBounded, Srcs' \in Int, Tgts' \in Int,
           Srcs' <= Srcs, Tgts' <= Tgts
    PROVE  BuffersBounded'
<1>1. Srcs <= K /\ Tgts <= K
  BY DEF BuffersBounded, Srcs, Tgts
<1>2. Srcs' <= K /\ Tgts' <= K
  BY <1>1, Counts, Constants
<1>3. K' = K
  BY DEF K
<1> QED
  BY <1>2, <1>3 DEF BuffersBounded, Srcs, Tgts

LEMMA ReaderBuffers ==
    ASSUME TypeOK, BuffersBounded, Reader PROVE BuffersBounded'
<1> DEFINE a == At({"start", "process", "free"})
           b == At({"start", "src", "process"})
<1>1. a' = a /\ a \in Nat /\ b' = b /\ b \in Nat
  BY AtStays, Counts DEF Reader, ReaderOpen, ReaderRecv, ReaderFails, ReaderSend, ReaderDone
<1>2. fullSrc' = Append(fullSrc, next) => Len(fullSrc') = Len(fullSrc) + 1
  BY DEF TypeOK
<1>3. Srcs' \in Int /\ Srcs' <= Srcs
  <2> HIDE DEF a
  <2>1. /\ freeSrc' + Len(fullSrc') + (IF reader' = "read" THEN 1 ELSE 0) + a' \in Int
        /\ freeSrc' + Len(fullSrc') + (IF reader' = "read" THEN 1 ELSE 0) + a'
             <= freeSrc + Len(fullSrc) + (IF reader = "read" THEN 1 ELSE 0) + a
    BY SMTT(30), <1>1, <1>2, Counts
    DEF Reader, ReaderOpen, ReaderRecv, ReaderFails, ReaderSend, ReaderDone, chanVars
  <2> QED  BY <2>1 DEF Srcs, a
<1>4. Tgts' = Tgts
  BY <1>1 DEF Tgts, Reader, ReaderOpen, ReaderRecv, ReaderFails, ReaderSend, ReaderDone,
              chanVars, writerVars
<1> QED
  BY <1>3, <1>4, Counts, BoundKept

LEMMA WorkerBuffers ==
    ASSUME TypeOK, BuffersBounded, NEW w \in Workers, Worker(w) PROVE BuffersBounded'
<1> DEFINE a == At({"start", "process", "free"})
           b == At({"start", "src", "process"})
           In(pc, pcs) == IF pc \in pcs THEN 1 ELSE 0
<1>1. \A v \in Workers : v # w => worker'[v].pc = worker[v].pc
  BY Goes DEF TypeOK, Worker, WorkerStart, WorkerTakeTgt, WorkerNoTgt, WorkerTakeSrc, WorkerDone,
              WorkerFails, WorkerSend, WorkerFreeSrc
<1>2. /\ a' = a + In(worker'[w].pc, {"start", "process", "free"})
                - In(worker[w].pc, {"start", "process", "free"})
      /\ b' = b + In(worker'[w].pc, {"start", "src", "process"})
                - In(worker[w].pc, {"start", "src", "process"})
  BY <1>1, AtMoves
<1>3. /\ a \in Nat /\ b \in Nat /\ freeSrc \in Nat /\ freeTgt \in Nat
      /\ Len(fullSrc) \in Nat /\ Len(fullTgt) \in Nat /\ Cardinality(stash) \in Nat
  BY Counts
<1> HIDE DEF a, b
<1> DEFINE S(f, n, r, c) == f + n + (IF r = "read" THEN 1 ELSE 0) + c
           T(f, n, c) == f + n + Cardinality(stash) 
                         + (IF writer \in {"place", "back"} THEN 1 ELSE 0) + c
           Good == /\ S(freeSrc', Len(fullSrc'), reader', a') \in Int
                   /\ S(freeSrc', Len(fullSrc'), reader', a')
                        <= S(freeSrc, Len(fullSrc), reader, a)
                   /\ T(freeTgt', Len(fullTgt'), b') \in Int
                   /\ T(freeTgt', Len(fullTgt'), b') <= T(freeTgt, Len(fullTgt), b)
<1> SUFFICES Good
  <2>1. UNCHANGED <<writer, stash>>
    BY DEF Worker, WorkerStart, WorkerTakeTgt, WorkerNoTgt, WorkerTakeSrc, WorkerDone,
           WorkerFails, WorkerSend, WorkerFreeSrc, writerVars
  <2> QED  BY <2>1, Counts, BoundKept DEF Srcs, Tgts, a, b
<1>4. CASE WorkerStart(w)
  <2>1. worker[w].pc = "start" /\ worker'[w].pc = "src"
    BY <1>4, Goes DEF WorkerStart
  <2>2. a' = a - 1 /\ b' = b
    BY <1>2, <1>3, <2>1
  <2>3. freeSrc' \in Nat /\ freeSrc' <= freeSrc + 1
    BY <1>3, <1>4 DEF WorkerStart, GiveSrc
  <2> QED  BY SMTT(30), <1>3, <1>4, <2>2, <2>3 DEF WorkerStart, readerVars
<1>5. CASE WorkerTakeTgt(w)
  <2>1. worker[w].pc = "tgt" /\ worker'[w].pc = "src"
    BY <1>5, Goes DEF WorkerTakeTgt
  <2>2. a' = a /\ b' = b + 1
    BY <1>2, <1>3, <2>1
  <2> QED  BY SMTT(30), <1>3, <1>5, <2>2 DEF WorkerTakeTgt, readerVars
<1>6. CASE WorkerNoTgt(w)
  <2>1. worker[w].pc = "tgt" /\ worker'[w].pc = "err"
    BY <1>6, Goes DEF WorkerNoTgt
  <2>2. a' = a /\ b' = b
    BY <1>2, <1>3, <2>1
  <2> QED  BY <1>3, <1>6, <2>2 DEF WorkerNoTgt, readerVars, chanVars
<1>7. CASE WorkerTakeSrc(w)
  <2>1. worker[w].pc = "src" /\ worker'[w].pc = "process"
    BY <1>7 DEF WorkerTakeSrc, TypeOK
  <2>2. a' = a + 1 /\ b' = b
    BY <1>2, <1>3, <2>1
  <2>3. Len(fullSrc') = Len(fullSrc) - 1
    BY <1>7, HeadTail DEF WorkerTakeSrc, TypeOK
  <2> QED  BY <1>3, <1>7, <2>2, <2>3 DEF WorkerTakeSrc, readerVars
<1>8. CASE WorkerDone(w)
  <2>1. worker[w].pc = "src" /\ worker'[w].pc = "ok"
    BY <1>8, Goes DEF WorkerDone
  <2>2. a' = a /\ b' = b - 1
    BY <1>2, <1>3, <2>1
  <2> QED  BY <1>3, <1>8, <2>2 DEF WorkerDone, readerVars, chanVars
<1>9. CASE WorkerFails(w)
  <2>1. worker[w].pc = "process" /\ worker'[w].pc = "err"
    BY <1>9, Goes DEF WorkerFails
  <2>2. a' = a - 1 /\ b' = b - 1
    BY <1>2, <1>3, <2>1
  <2> QED  BY <1>3, <1>9, <2>2 DEF WorkerFails, readerVars, chanVars
<1>10. CASE WorkerSend(w)
  <2>1. CASE WriterGone
    <3>1. worker[w].pc = "process" /\ worker'[w].pc = "err"
      BY <1>10, <2>1, Goes DEF WorkerSend
    <3>2. a' = a - 1 /\ b' = b - 1
      BY <1>2, <1>3, <3>1
    <3> QED  BY <1>3, <1>10, <2>1, <3>2 DEF WorkerSend, readerVars
  <2>2. CASE ~WriterGone
    <3>1. worker[w].pc = "process" /\ worker'[w].pc = "free"
      BY <1>10, <2>2, Goes DEF WorkerSend
    <3>2. a' = a /\ b' = b - 1
      BY <1>2, <1>3, <3>1
    <3>3. fullTgt' = Append(fullTgt, worker[w].fr) => Len(fullTgt') = Len(fullTgt) + 1
      BY DEF TypeOK
    <3> QED  BY SMTT(30), <1>3, <1>10, <2>2, <3>2, <3>3 DEF WorkerSend, readerVars
  <2> QED  BY <2>1, <2>2
<1>11. CASE WorkerFreeSrc(w)
  <2>1. worker[w].pc = "free" /\ worker'[w].pc = "tgt"
    BY <1>11, Goes DEF WorkerFreeSrc
  <2>2. a' = a - 1 /\ b' = b
    BY <1>2, <1>3, <2>1
  <2>3. freeSrc' \in Nat /\ freeSrc' <= freeSrc + 1
    BY <1>3, <1>11 DEF WorkerFreeSrc, GiveSrc
  <2> QED  BY SMTT(30), <1>3, <1>11, <2>2, <2>3 DEF WorkerFreeSrc, readerVars
<1> QED
  BY <1>4, <1>5, <1>6, <1>7, <1>8, <1>9, <1>10, <1>11 DEF Worker

LEMMA WriterBuffers ==
    ASSUME TypeInv, BuffersBounded, Writer PROVE BuffersBounded'
<1> DEFINE a == At({"start", "process", "free"})
           b == At({"start", "src", "process"})
           c == Cardinality(stash)
<1>1. a' = a /\ b' = b
  BY AtStays DEF Writer, WriterOpen, WriterRecv, WriterDone, WriterStash, WriterWrite,
                 WriterFails, WriterBack
<1>2. /\ TypeOK /\ a \in Nat /\ b \in Nat /\ c \in Nat /\ freeSrc \in Nat /\ freeTgt \in Nat
      /\ Len(fullSrc) \in Nat /\ Len(fullTgt) \in Nat
  BY Counts DEF TypeInv
<1>3. UNCHANGED <<freeSrc, fullSrc, reader>>
  BY DEF Writer, WriterOpen, WriterRecv, WriterDone, WriterStash, WriterWrite,
         WriterFails, WriterBack, chanVars, readerVars
<1>4. Srcs' = Srcs
  BY <1>1, <1>3 DEF Srcs
<1> HIDE DEF a, b, c
<1> DEFINE T(f, n, m, pc) == f + n + m + (IF pc \in {"place", "back"} THEN 1 ELSE 0) + b
           Good == /\ T(freeTgt', Len(fullTgt'), c', writer') \in Int
                   /\ T(freeTgt', Len(fullTgt'), c', writer')
                        <= T(freeTgt, Len(fullTgt), c, writer)
<1> SUFFICES Good
  <2> QED  BY <1>1, <1>2, <1>4, Counts, BoundKept DEF Srcs, Tgts, a, b, c
<1>5. CASE WriterOpen \/ WriterDone \/ WriterWrite \/ WriterFails
  <2>1. c' = c
    BY <1>5 DEF WriterOpen, WriterDone, WriterWrite, WriterFails, c
  <2>2. freeTgt' = freeTgt /\ fullTgt' = fullTgt
    BY <1>5 DEF WriterOpen, WriterDone, WriterWrite, WriterFails, chanVars
  <2>3. writer' \in {"place", "back"} => writer \in {"place", "back"}
    BY <1>5 DEF WriterOpen, WriterDone, WriterWrite, WriterFails
  <2> QED  BY <1>2, <2>1, <2>2, <2>3
<1>6. CASE WriterRecv
  <2>1. c' = c
    BY <1>6 DEF WriterRecv, c
  <2>2. Len(fullTgt') = Len(fullTgt) - 1
    BY <1>2, <1>6, HeadTail DEF WriterRecv, TypeOK
  <2> QED  BY <1>2, <1>6, <2>1, <2>2 DEF WriterRecv
<1>7. CASE WriterStash
  <2>1. c' \in Nat /\ c' <= c + 1
    <3>1. IsFiniteSet(stash) /\ Cardinality(stash) \in Nat
      BY <1>2, StashFinite
    <3>2. Cardinality(stash \cup {cur})
            = IF cur \in stash THEN Cardinality(stash) ELSE Cardinality(stash) + 1
      BY <3>1, FS_AddElement
    <3>3. c' = Cardinality(stash \cup {cur})
      BY <1>7 DEF WriterStash, c
    <3> QED  BY <3>1, <3>2, <3>3 DEF c
  <2> QED  BY <1>2, <1>7, <2>1 DEF WriterStash, chanVars
<1>8. CASE WriterBack
  <2>1. CASE writer' = "place"
    <3>1. nextFr' \in stash /\ stash' = stash \ {nextFr'}
      BY <1>8, <2>1 DEF WriterBack
    <3>2. c' = c - 1
      BY <1>2, <3>1, StashFinite, FS_RemoveElement DEF c
    <3>3. freeTgt' = freeTgt + 1 /\ fullTgt' = fullTgt /\ writer = "back"
      BY <1>8 DEF WriterBack
    <3> QED  BY <1>2, <2>1, <3>2, <3>3
  <2>2. CASE writer' # "place"
    <3>1. writer' = "recv" /\ c' = c
      BY <1>8, <2>2 DEF WriterBack, c
    <3>2. freeTgt' = freeTgt + 1 /\ fullTgt' = fullTgt /\ writer = "back"
      BY <1>8 DEF WriterBack
    <3> QED  BY <1>2, <3>1, <3>2
  <2> QED  BY <2>1, <2>2
<1> QED
  BY <1>5, <1>6, <1>7, <1>8 DEF Writer

LEMMA BufferStep ==
    ASSUME TypeInv, BuffersBounded, [Next]_vars PROVE BuffersBounded'
<1>1. CASE Main \/ UNCHANGED vars
  <2>1. At({"start", "process", "free"})' = At({"start", "process", "free"})
        /\ At({"start", "src", "process"})' = At({"start", "src", "process"})
    BY <1>1, AtStays DEF Main, JoinReader, JoinAll, vars
  <2> QED
    BY <1>1, <2>1 DEF BuffersBounded, Main, JoinReader, JoinAll, vars, chanVars,
                      readerVars, writerVars, K
<1> QED
  BY <1>1, ReaderBuffers, WorkerBuffers, WriterBuffers DEF Next, TypeInv

-----------------------------------------------------------------------------
(* Types.  That freeSrc and freeTgt stay in 0..K is the buffer count.      *)

LEMMA TypeInit == ASSUME Init PROVE TypeInv
<1>1. K \in Nat /\ K > 0 /\ NumFrames \in Nat
  BY Constants
<1> QED
  BY <1>1 DEF Init, TypeInv, TypeOK, Holding

LEMMA FreeInRange ==
    ASSUME BuffersBounded', freeSrc' \in Nat, freeTgt' \in Nat, Len(fullSrc') \in Nat,
           Len(fullTgt') \in Nat, stash' \in SUBSET Frames
    PROVE  freeSrc' \in 0..K /\ freeTgt' \in 0..K
<1> DEFINE a == At({"start", "process", "free"})
           b == At({"start", "src", "process"})
           c == Cardinality(stash)
<1>1. K \in Nat /\ K' = K
  BY Constants DEF K
<1>2. a' \in Nat /\ b' \in Nat
  <2>1. /\ {w \in Workers : worker'[w].pc \in {"start", "process", "free"}} \subseteq Workers
        /\ {w \in Workers : worker'[w].pc \in {"start", "src", "process"}} \subseteq Workers
    OBVIOUS
  <2> QED  BY <2>1, FS_Subset, FS_CardinalityType, SizeAssumption DEF At
<1>3. c' \in Nat
  <2>1. IsFiniteSet(Frames)
    BY FS_Interval, SizeAssumption DEF Frames
  <2> QED  BY <2>1, FS_Subset, FS_CardinalityType
<1>4. /\ freeSrc' + Len(fullSrc') + (IF reader' = "read" THEN 1 ELSE 0) + a' <= K
      /\ freeTgt' + Len(fullTgt') + c' + (IF writer' \in {"place", "back"} THEN 1 ELSE 0)
           + b' <= K
  BY <1>1 DEF BuffersBounded
<1> HIDE DEF a, b, c
<1>5. freeSrc' <= K
  BY SMTT(30), <1>1, <1>2, <1>4
<1>6. freeTgt' <= K
  <2> DEFINE d == IF writer' \in {"place", "back"} THEN 1 ELSE 0
  <2>1. d \in Nat
    OBVIOUS
  <2>2. freeTgt' + Len(fullTgt') + c' + d + b' <= K
    BY <1>4
  <2> HIDE DEF d
  <2> QED
    BY SMTT(30), <1>1, <1>2, <1>3, <2>1, <2>2
<1> QED
  BY <1>1, <1>5, <1>6

LEMMA ReaderTypes ==
    ASSUME TypeInv, BuffersBounded', Reader PROVE TypeInv'
<1> USE DEF TypeInv, TypeOK, Holding
<1>1. CASE ReaderOpen \/ ReaderFails \/ ReaderDone
  BY <1>1 DEF ReaderOpen, ReaderFails, ReaderDone, chanVars, writerVars, mainVars, K
<1>2. CASE ReaderRecv
  <2>1. freeSrc' \in 0..K
    BY <1>2, Constants DEF ReaderRecv
  <2> QED  BY <1>2, <2>1 DEF ReaderRecv, chanVars, writerVars, mainVars, K
<1>3. CASE ReaderSend
  <2>1. next < NumFrames /\ next \in Frames /\ next' \in 0..NumFrames
    BY <1>3, Constants DEF ReaderSend, Frames
  <2>2. fullSrc' \in Seq(Frames)
    BY <1>3, <2>1 DEF ReaderSend
  <2> QED  BY <1>3, <2>1, <2>2 DEF ReaderSend, chanVars, writerVars, mainVars, K
<1> QED
  BY <1>1, <1>2, <1>3 DEF Reader

LEMMA WorkerTypes ==
    ASSUME TypeInv, BuffersBounded', NEW w \in Workers, Worker(w) PROVE TypeInv'
<1> DEFINE Pcs == {"start", "tgt", "src", "process", "free", "ok", "err"}
           Fine == /\ worker' \in [Workers -> [pc : Pcs, fr : Nat]]
                   /\ \A v \in Workers : Holding(v)' => worker'[v].fr \in Frames
<1>1. ASSUME NEW pc \in Pcs \ {"process"}, Go(w, pc) PROVE Fine
  BY <1>1 DEF Go, TypeInv, TypeOK, Holding
<1>2. Fine
  <2>1. CASE WorkerTakeSrc(w)
    <3>1. Head(fullSrc) \in Frames /\ Head(fullSrc) \in Nat
      BY <2>1, HeadTail, Constants DEF WorkerTakeSrc, TypeInv, TypeOK
    <3> QED  BY <2>1, <3>1 DEF WorkerTakeSrc, TypeInv, TypeOK, Holding
  <2> HIDE DEF Fine
  <2> QED
    BY <1>1, <2>1 DEF Worker, WorkerStart, WorkerTakeTgt, WorkerNoTgt, WorkerDone,
                      WorkerFails, WorkerSend, WorkerFreeSrc
<1>3. fullSrc' \in Seq(Frames)
  <2>1. CASE WorkerTakeSrc(w)
    BY <2>1, HeadTail DEF WorkerTakeSrc, TypeInv, TypeOK
  <2> QED
    BY <2>1 DEF TypeInv, TypeOK, Worker, WorkerStart, WorkerTakeTgt, WorkerNoTgt, WorkerDone,
                WorkerFails, WorkerSend, WorkerFreeSrc, chanVars
<1>4. fullTgt' \in Seq(Frames)
  <2>1. CASE WorkerSend(w)
    BY SMTT(30), <2>1 DEF WorkerSend, TypeInv, TypeOK, Holding
  <2> QED
    BY <2>1 DEF TypeInv, TypeOK, Worker, WorkerStart, WorkerTakeTgt, WorkerNoTgt, WorkerDone,
                WorkerFails, WorkerTakeSrc, WorkerFreeSrc, chanVars
<1>5. freeSrc' \in Nat /\ freeTgt' \in Nat
  BY Constants DEF TypeInv, TypeOK, Worker, WorkerStart, WorkerTakeTgt, WorkerNoTgt, WorkerDone,
     WorkerFails, WorkerSend, WorkerTakeSrc, WorkerFreeSrc, GiveSrc, chanVars
<1>6. UNCHANGED <<readerVars, writerVars, mainVars>>
  BY DEF Worker, WorkerStart, WorkerTakeTgt, WorkerNoTgt, WorkerDone,
     WorkerFails, WorkerSend, WorkerTakeSrc, WorkerFreeSrc
<1>7. freeSrc' \in 0..K /\ freeTgt' \in 0..K
  BY <1>3, <1>4, <1>5, <1>6, FreeInRange DEF TypeInv, TypeOK, writerVars
<1> QED
  BY <1>2, <1>3, <1>4, <1>6, <1>7
  DEF TypeInv, TypeOK, readerVars, writerVars, mainVars, K

LEMMA WriterTypes ==
    ASSUME TypeInv, BuffersBounded', Writer PROVE TypeInv'
<1>1. fullTgt' \in Seq(Frames) /\ (writer' = "place" => cur' \in Frames) /\ cur' \in Nat
  <2>1. CASE WriterRecv
    BY <2>1, HeadTail, Constants DEF WriterRecv, TypeInv, TypeOK
  <2>2. CASE WriterBack
    BY <2>2, Constants DEF WriterBack, TypeInv, TypeOK
  <2> QED
    BY <2>1, <2>2 DEF TypeInv, TypeOK, Writer, WriterOpen, WriterDone, WriterStash,
                      WriterWrite, WriterFails, chanVars
<1>2. stash' \in SUBSET Frames
  BY DEF TypeInv, TypeOK, Writer, WriterOpen, WriterRecv, WriterDone, WriterStash,
         WriterWrite, WriterFails, WriterBack
<1>3. out' \in Seq(Frames)
  <2>1. CASE WriterWrite
    BY <2>1 DEF WriterWrite, TypeInv, TypeOK
  <2> QED
    BY <2>1 DEF TypeInv, TypeOK, Writer, WriterOpen, WriterRecv, WriterDone, WriterStash,
                WriterFails, WriterBack
<1>4. /\ nextFr' \in 0..NumFrames
      /\ writer' = "back" /\ stdout => nextFr' < NumFrames
  <2>1. CASE WriterWrite
    BY <2>1, Constants DEF WriterWrite, TypeInv, TypeOK, Frames
  <2>2. CASE WriterBack
    BY <2>2, Constants DEF WriterBack, TypeInv, TypeOK
  <2> QED
    BY <2>1, <2>2 DEF TypeInv, TypeOK, Writer, WriterOpen, WriterRecv, WriterDone, WriterStash,
                      WriterFails
<1>5. writer' \in {"open", "recv", "place", "back", "ok", "err"}
  BY DEF Writer, WriterOpen, WriterRecv, WriterDone, WriterStash, WriterWrite, WriterFails,
         WriterBack
<1>6. freeSrc' = freeSrc /\ fullSrc' = fullSrc /\ freeTgt' \in Nat
  BY Constants DEF TypeInv, TypeOK, Writer, WriterOpen, WriterRecv, WriterDone, WriterStash,
     WriterWrite, WriterFails, WriterBack, chanVars
<1>7. freeSrc' \in 0..K /\ freeTgt' \in 0..K
  BY <1>1, <1>2, <1>6, FreeInRange, Constants DEF TypeInv, TypeOK
<1>8. UNCHANGED <<readerVars, worker, mainVars>>
  BY DEF Writer, WriterOpen, WriterRecv, WriterDone, WriterStash, WriterWrite, WriterFails,
         WriterBack
<1> QED
  BY <1>1, <1>2, <1>3, <1>4, <1>5, <1>6, <1>7, <1>8
  DEF TypeInv, TypeOK, Holding, readerVars, mainVars, K

LEMMA TypeStep ==
    ASSUME TypeInv, BuffersBounded, [Next]_vars PROVE TypeInv'
<1>1. BuffersBounded'
  BY BufferStep
<1>2. CASE Main \/ UNCHANGED vars
  BY <1>2 DEF TypeInv, TypeOK, Holding, Main, JoinReader, JoinAll, vars, chanVars, readerVars,
              writerVars, mainVars, K
<1> QED
  BY <1>1, <1>2, ReaderTypes, WorkerTypes, WriterTypes DEF Next

-----------------------------------------------------------------------------
(* Frames. *)

LEMMA FailedStays == ASSUME TypeOK, [Next]_vars, Failed PROVE Failed'
<1>1. ASSUME NEW w \in Workers, Worker(w) PROVE Failed'
  <2>1. /\ writer' = writer /\ worker[w].pc # "err"
        /\ \A v \in Workers : v # w => worker'[v] = worker[v]
    BY <1>1, Goes DEF TypeOK, Worker, WorkerStart, WorkerTakeTgt, WorkerNoTgt, WorkerTakeSrc,
       WorkerDone, WorkerFails, WorkerSend, WorkerFreeSrc, writerVars
  <2> QED  BY <2>1 DEF Failed
<1>2. CASE Reader \/ Main \/ UNCHANGED vars
  <2>1. writer' = writer /\ worker' = worker
    BY <1>2 DEF Reader, ReaderOpen, ReaderRecv, ReaderFails, ReaderSend, ReaderDone, Main,
                JoinReader, JoinAll, vars, writerVars
  <2> QED  BY <2>1 DEF Failed
<1>3. CASE Writer
  <2>1. writer # "err" /\ worker' = worker
    BY <1>3 DEF Writer, WriterOpen, WriterRecv, WriterDone, WriterStash, WriterWrite,
                WriterFails, WriterBack
  <2> QED  BY <2>1 DEF Failed
<1> QED
  BY <1>1, <1>2, <1>3 DEF Next

LEMMA PlacesAre ==
    /\ Place("worker") = {worker[w].fr : w \in {v \in Workers : Holding(v)}}
    /\ Place("fullTgt") = Elems(fullTgt)
    /\ Place("writer") = IF writer = "place" THEN {cur} ELSE {}
    /\ Place("stash") = stash
    /\ Place("out") = Elems(out)
  BY DEF Place

LEMMA PlacesAreNext ==
    /\ Place("worker")' = {worker'[w].fr : w \in {v \in Workers : worker'[v].pc = "process"}}
    /\ Place("fullTgt")' = Elems(fullTgt')
    /\ Place("writer")' = IF writer' = "place" THEN {cur'} ELSE {}
    /\ Place("stash")' = stash'
    /\ Place("out")' = Elems(out')
  BY DEF Place, Holding, Elems

\* A step that moves no frame, at most loses one and then fails.
LEMMA Rests ==
    ASSUME Spread, Failed => Failed', First' = First,
           \A p \in Names : Place(p)' \subseteq Place(p),
           \/ Failed'
           \/ \A p \in Names : Place(p)' = Place(p)
    PROVE  Spread'
  BY DEF Spread, Apart, Taken, Kept

\* A step that takes a frame from place p to place q.
LEMMA Moves ==
    ASSUME Spread, Failed => Failed', First' = First,
           NEW p \in Names, NEW q \in Names, p # q, NEW fr \in Place(p),
           Place(p)' = Place(p) \ {fr}, Place(q)' = Place(q) \cup {fr},
           \A r \in Names \ {p, q} : Place(r)' = Place(r)
    PROVE  Spread'
<1>1. Apart'
  BY DEF Spread, Apart
<1>2. Taken'
  BY DEF Spread, Taken
<1>3. Kept'
  <2> SUFFICES ASSUME ~Failed', NEW f \in Frames, f < First
               PROVE  \E r \in Names : f \in Place(r)'
    BY DEF Kept
  <2>1. PICK r \in Names : f \in Place(r)
    BY DEF Spread, Kept
  <2>2. CASE f = fr
    BY <2>2
  <2>3. CASE f # fr
    <3>1. f \in Place(r)'
      BY <2>1, <2>3
    <3> QED  BY <3>1
  <2> QED  BY <2>2, <2>3
<1> QED
  BY <1>1, <1>2, <1>3 DEF Spread

\* A step that takes the next frame from fullSrc to place q.
LEMMA Enters ==
    ASSUME Spread, Failed => Failed', First \in Int, First' = First + 1,
           Frames \subseteq Int,
           \A r \in Names : Place(r) \subseteq Frames,
           NEW q \in Names, Place(q)' = Place(q) \cup {First},
           \A r \in Names \ {q} : Place(r)' = Place(r)
    PROVE  Spread'
<1>1. \A r \in Names : First \notin Place(r)
  BY DEF Spread, Taken
<1>2. Apart'
  BY <1>1 DEF Spread, Apart
<1>3. Taken'
  <2> SUFFICES ASSUME NEW r \in Names, NEW f \in Place(r)' PROVE f < First + 1
    BY DEF Taken
  <2>1. f \in Place(r) \/ f = First
    <3>1. CASE r = q
      BY <3>1
    <3>2. CASE r # q
      BY <3>2
    <3> QED  BY <3>1, <3>2
  <2>2. CASE f \in Place(r)
    <3>1. f < First /\ f \in Int
      BY <2>2 DEF Spread, Taken
    <3> QED  BY <3>1
  <2> QED  BY <2>1, <2>2
<1>4. Kept'
  <2> SUFFICES ASSUME ~Failed', NEW f \in Frames, f < First + 1
               PROVE  \E r \in Names : f \in Place(r)'
    BY DEF Kept
  <2>1. CASE f = First
    BY <2>1
  <2>2. CASE f # First
    <3>1. f < First
      BY <2>2
    <3>2. PICK r \in Names : f \in Place(r)
      BY <3>1 DEF Spread, Kept
    <3>3. f \in Place(r)'
      BY <3>2
    <3> QED  BY <3>3
  <2> QED  BY <2>1, <2>2
<1> QED
  BY <1>2, <1>3, <1>4 DEF Spread

\* What the workers hold, when w goes on.
LEMMA WorkerPlace ==
    ASSUME Single, NEW w \in Workers,
           \A v \in Workers : v # w => worker'[v] = worker[v]
    PROVE  /\ ~Holding(w) /\ worker'[w].pc # "process" =>
                Place("worker")' = Place("worker") /\ Single'
           /\ ~Holding(w) /\ worker'[w].pc = "process" =>
                Place("worker")' = Place("worker") \cup {worker'[w].fr}
           /\ Holding(w) /\ worker'[w].pc # "process" =>
                /\ Place("worker")' = Place("worker") \ {worker[w].fr}
                /\ worker[w].fr \in Place("worker")
                /\ Single'
<1>1. Single = \A v, u \in Workers : 
        worker[v].pc = "process" /\ worker[u].pc = "process" /\ v # u
          => worker[v].fr # worker[u].fr
  BY DEF Single, Holding
<1>2. worker'[w].pc # "process" => Single'
  BY <1>1 DEF Single, Holding
<1>3. ~Holding(w) /\ worker'[w].pc # "process" => Place("worker")' = Place("worker")
  BY PlacesAre, PlacesAreNext DEF Holding
<1>4. ~Holding(w) /\ worker'[w].pc = "process" =>
        Place("worker")' = Place("worker") \cup {worker'[w].fr}
  BY PlacesAre, PlacesAreNext DEF Holding
<1>5. ASSUME Holding(w), worker'[w].pc # "process"
      PROVE  /\ Place("worker")' = Place("worker") \ {worker[w].fr}
             /\ worker[w].fr \in Place("worker")
  <2>1. worker[w].fr \in Place("worker")
    BY <1>5, PlacesAre
  <2>2. Place("worker")' \subseteq Place("worker") \ {worker[w].fr}
    BY <1>5, PlacesAre, PlacesAreNext DEF Single, Holding
  <2>3. Place("worker") \ {worker[w].fr} \subseteq Place("worker")'
    BY <1>5, PlacesAre, PlacesAreNext DEF Single, Holding
  <2> QED  BY <2>1, <2>2, <2>3
<1> QED
  BY <1>2, <1>3, <1>4, <1>5

LEMMA PlacesTyped ==
    ASSUME TypeInv PROVE \A p \in Names : Place(p) \subseteq Frames
<1>1. Elems(fullTgt) \subseteq Frames /\ Elems(out) \subseteq Frames
  BY DEF TypeInv, TypeOK, Elems
<1>2. Place("worker") \subseteq Frames
  BY PlacesAre DEF TypeInv
<1>3. Place("writer") \subseteq Frames /\ stash \subseteq Frames
  BY PlacesAre DEF TypeInv, TypeOK
<1> QED
  BY <1>1, <1>2, <1>3, PlacesAre DEF Names

LEMMA FirstIs ==
    ASSUME TypeInv, Queued
    PROVE  /\ First \in Nat /\ next \in Nat /\ Len(fullSrc) \in Nat /\ First <= next
           /\ fullSrc # <<>> => Head(fullSrc) = First /\ First < next
<1>1. next \in Nat /\ Len(fullSrc) \in Nat /\ Len(fullSrc) <= next
  BY Constants DEF TypeInv, TypeOK, Queued
<1>2. fullSrc # <<>> => Len(fullSrc) > 0 /\ Head(fullSrc) = fullSrc[1]
  BY HeadTail DEF TypeInv, TypeOK
<1> QED
  BY <1>1, <1>2 DEF First, Queued

LEMMA ReaderPath ==
    ASSUME TypeInv, PathInv, Reader PROVE PathInv'
<1>1. UNCHANGED <<worker, fullTgt, writer, cur, stash, out>>
  BY DEF Reader, ReaderOpen, ReaderRecv, ReaderFails, ReaderSend, ReaderDone, chanVars, writerVars
<1>2. First' = First /\ Queued'
  <2>1. CASE ReaderSend
    <3>1. /\ Len(fullSrc') = Len(fullSrc) + 1 /\ next' = next + 1
          /\ \A i \in 1..Len(fullSrc) : fullSrc'[i] = fullSrc[i]
          /\ fullSrc'[Len(fullSrc) + 1] = next
      <4>1. next \in Frames
        BY <2>1, Constants DEF ReaderSend, TypeInv, TypeOK, Frames
      <4> QED  BY <2>1, <4>1, Appended DEF ReaderSend, TypeInv, TypeOK
    <3>2. First' = First /\ First + Len(fullSrc) = next
      BY <3>1, FirstIs DEF First, PathInv
    <3>3. Len(fullSrc') <= next'
      BY <3>1, FirstIs DEF PathInv, Queued
    <3>4. ASSUME NEW i \in 1..Len(fullSrc') PROVE fullSrc'[i] = First + i - 1
      <4>1. First \in Nat /\ next \in Nat /\ Len(fullSrc) \in Nat
        BY FirstIs DEF PathInv
      <4>2. \A k \in 1..Len(fullSrc) : fullSrc[k] = First + k - 1
        BY DEF PathInv, Queued
      <4>3. CASE i \in 1..Len(fullSrc)
        BY <3>1, <4>2, <4>3
      <4>4. CASE i = Len(fullSrc) + 1
        BY <3>1, <3>2, <4>1, <4>4
      <4> QED  BY <3>1, <4>1, <4>3, <4>4
    <3> QED  BY <3>2, <3>3, <3>4 DEF Queued
  <2>2. CASE ~ReaderSend
    <3>1. next' = next /\ fullSrc' = fullSrc
      BY <2>2 DEF Reader, ReaderOpen, ReaderRecv, ReaderFails, ReaderDone, chanVars
    <3> QED  BY <3>1 DEF PathInv, Queued, First
  <2> QED  BY <2>1, <2>2
<1>3. \A p \in Names : Place(p)' = Place(p)
  BY <1>1 DEF Place, Holding, Elems
<1>4. Spread'
  BY <1>1, <1>2, <1>3, Rests DEF PathInv, Failed
<1> QED
  BY <1>1, <1>2, <1>4 DEF PathInv, Single, Holding, Distinct

LEMMA WorkerPath ==
    ASSUME TypeInv, PathInv, NEW w \in Workers, Worker(w) PROVE PathInv'
<1>1. UNCHANGED <<next, writer, cur, stash, out>>
  BY DEF Worker, WorkerStart, WorkerTakeTgt, WorkerNoTgt, WorkerTakeSrc, WorkerDone,
         WorkerFails, WorkerSend, WorkerFreeSrc, readerVars, writerVars
<1>2. \A v \in Workers : v # w => worker'[v] = worker[v]
  BY Goes DEF TypeInv, TypeOK, Worker, WorkerStart, WorkerTakeTgt, WorkerNoTgt, WorkerTakeSrc,
              WorkerDone, WorkerFails, WorkerSend, WorkerFreeSrc
<1>3. Failed => Failed'
  BY FailedStays DEF TypeInv, Next
<1>4. /\ Place("writer")' = Place("writer") /\ Place("stash")' = Place("stash")
      /\ Place("out")' = Place("out")
      /\ fullTgt' = fullTgt => Place("fullTgt")' = Place("fullTgt")
  BY <1>1, PlacesAre, PlacesAreNext
<1>5. Single /\ Spread /\ TypeOK
  BY DEF PathInv, TypeInv
<1>6. fullSrc' = fullSrc => First' = First /\ Queued'
  BY <1>1 DEF PathInv, Queued, First
<1>7. CASE \/ WorkerStart(w) \/ WorkerTakeTgt(w) \/ WorkerNoTgt(w) \/ WorkerDone(w)
           \/ WorkerFreeSrc(w)
  <2>1. /\ ~Holding(w) /\ worker'[w].pc # "process"
        /\ fullSrc' = fullSrc /\ fullTgt' = fullTgt
    BY <1>5, <1>7, Goes DEF WorkerStart, WorkerTakeTgt, WorkerNoTgt, WorkerDone, WorkerFreeSrc,
                     Holding, chanVars
  <2>2. Place("worker")' = Place("worker") /\ Single'
    BY <1>2, <1>5, <2>1, WorkerPlace
  <2>3. \A p \in Names : Place(p)' = Place(p)
    BY <1>4, <2>1, <2>2 DEF Names
  <2>4. Spread'
    BY <1>3, <1>5, <1>6, <2>1, <2>3, Rests
  <2> QED  BY <1>1, <1>6, <2>1, <2>2, <2>4 DEF PathInv, Distinct
<1>8. CASE WorkerTakeSrc(w)
  <2>1. /\ ~Holding(w) /\ worker'[w] = [pc |-> "process", fr |-> First] 
        /\ fullSrc # <<>> /\ fullSrc' = Tail(fullSrc) /\ fullTgt' = fullTgt
    BY <1>5, <1>8, FirstIs DEF WorkerTakeSrc, TypeOK, Holding, PathInv
  <2>2. First' = First + 1 /\ Queued' /\ First \in Int
    <3>1. /\ Len(fullSrc') = Len(fullSrc) - 1 /\ Len(fullSrc) > 0
          /\ \A i \in 1..(Len(fullSrc) - 1) : fullSrc'[i] = fullSrc[i + 1]
      BY <1>5, <2>1, HeadTail DEF TypeOK
    <3>2. First' = First + 1 /\ First \in Int
      <4>1. First \in Nat /\ next \in Nat /\ Len(fullSrc) \in Nat
        BY FirstIs DEF PathInv
      <4>2. First' = next - (Len(fullSrc) - 1)
        BY <1>1, <3>1 DEF First
      <4> QED  BY <4>1, <4>2 DEF First
    <3>3. Len(fullSrc') <= next'
      <4>1. next \in Nat /\ Len(fullSrc) \in Nat /\ Len(fullSrc) <= next
        BY FirstIs DEF PathInv, Queued
      <4> QED  BY <1>1, <3>1, <4>1
    <3>4. ASSUME NEW i \in 1..Len(fullSrc') PROVE fullSrc'[i] = First + 1 + i - 1
      <4>1. First \in Nat /\ Len(fullSrc) \in Nat
        BY FirstIs DEF PathInv
      <4>2. \A k \in 1..Len(fullSrc) : fullSrc[k] = First + k - 1
        BY DEF PathInv, Queued
      <4>3. i + 1 \in 1..Len(fullSrc) /\ fullSrc'[i] = fullSrc[i + 1]
        BY <3>1, <4>1
      <4> QED  BY <4>1, <4>2, <4>3
    <3> QED  BY <3>2, <3>3, <3>4 DEF Queued
  <2>3. Place("worker")' = Place("worker") \cup {First}
    BY <1>2, <1>5, <2>1, WorkerPlace
  <2>4. \A r \in Names \ {"worker"} : Place(r)' = Place(r)
    BY <1>4, <2>1 DEF Names
  <2>5. Spread'
    <3>1. Frames \subseteq Int /\ \A r \in Names : Place(r) \subseteq Frames
      BY Constants, PlacesTyped
    <3>2. "worker" \in Names
      BY DEF Names
    <3> QED  BY <1>3, <1>5, <2>2, <2>3, <2>4, <3>1, <3>2, Enters
  <2>6. Single'
    <3>1. First \notin Place("worker")
      <4>1. \A fr \in Place("worker") : fr < First
        BY <1>5 DEF Spread, Taken, Names
      <4> QED  BY <2>2, <4>1
    <3>2. \A v \in Workers : Holding(v) => worker[v].fr # First
      BY <3>1, PlacesAre
    <3>3. worker'[w].fr = First
      BY <2>1
    <3> QED  BY <1>2, <1>5, <3>2, <3>3 DEF Single, Holding
  <2> QED  BY <1>1, <2>1, <2>2, <2>5, <2>6 DEF PathInv, Distinct
<1>9. CASE WorkerFails(w) \/ (WorkerSend(w) /\ WriterGone)
  <2>1. /\ Holding(w) /\ worker'[w].pc = "err"
        /\ fullSrc' = fullSrc /\ fullTgt' = fullTgt
    BY <1>5, <1>9, Goes DEF WorkerFails, WorkerSend, Holding, chanVars
  <2>2. /\ Place("worker")' \subseteq Place("worker") /\ Single'
    BY <1>2, <1>5, <2>1, WorkerPlace
  <2>3. \A p \in Names : Place(p)' \subseteq Place(p)
    BY <1>4, <2>1, <2>2 DEF Names
  <2>4. Failed'
    BY <2>1 DEF Failed
  <2>5. Spread'
    BY <1>5, <1>6, <2>1, <2>3, <2>4, Rests
  <2> QED  BY <1>1, <1>6, <2>1, <2>2, <2>5 DEF PathInv, Distinct
<1>10. CASE WorkerSend(w) /\ ~WriterGone
  <2> DEFINE fr == worker[w].fr
  <2>1. /\ Holding(w) /\ worker'[w].pc = "free" /\ fr \in Frames
        /\ fullSrc' = fullSrc /\ fullTgt' = Append(fullTgt, fr)
    BY <1>5, <1>10, Goes DEF WorkerSend, Holding, TypeInv
  <2>2. /\ Place("worker")' = Place("worker") \ {fr} /\ fr \in Place("worker") /\ Single'
    BY <1>2, <1>5, <2>1, WorkerPlace
  <2>3. Place("fullTgt")' = Place("fullTgt") \cup {fr}
    BY <1>5, <2>1, Appended, PlacesAre, PlacesAreNext DEF TypeOK
  <2>4. \A r \in Names \ {"worker", "fullTgt"} : Place(r)' = Place(r)
    BY <1>4 DEF Names
  <2>5. "worker" \in Names /\ "fullTgt" \in Names /\ "worker" # "fullTgt"
    BY DEF Names
  <2> HIDE DEF fr
  <2>6. Spread'
    BY <1>3, <1>5, <1>6, <2>1, <2>2, <2>3, <2>4, <2>5, Moves
  <2>7. fr \notin Elems(fullTgt)
    BY <1>5, <2>2, <2>5, PlacesAre DEF Spread, Apart
  <2>8. Distinct(fullTgt')
    BY <1>5, <2>1, <2>7, Appended DEF PathInv, TypeOK
  <2> QED  BY <1>1, <1>6, <2>1, <2>2, <2>6, <2>8 DEF PathInv, Distinct
<1> QED
  BY <1>7, <1>8, <1>9, <1>10 DEF Worker

LEMMA WriterPath ==
    ASSUME TypeInv, PathInv, Writer PROVE PathInv'
<1>1. UNCHANGED <<next, fullSrc, worker>>
  BY DEF Writer, WriterOpen, WriterRecv, WriterDone, WriterStash, WriterWrite, WriterFails,
         WriterBack, readerVars, chanVars
<1>2. Failed => Failed'
  BY FailedStays DEF TypeInv, Next
<1>3. First' = First /\ Queued' /\ Single'
  BY <1>1 DEF PathInv, Queued, Single, Holding, First
<1>4. Place("worker")' = Place("worker")
  BY <1>1 DEF Place, Holding
<1>5. Spread /\ TypeOK
  BY DEF PathInv, TypeInv
<1>6. /\ fullTgt' = fullTgt => Place("fullTgt")' = Place("fullTgt")
      /\ stash' = stash => Place("stash")' = Place("stash")
      /\ out' = out => Place("out")' = Place("out")
  BY PlacesAre, PlacesAreNext
<1>7. Names = {"worker", "fullTgt", "writer", "stash", "out"}
  BY DEF Names
<1>8. Apart
  BY <1>5 DEF Spread
<1>9. CASE WriterOpen \/ WriterDone \/ WriterFails
  <2>1. UNCHANGED <<fullTgt, stash, out>> /\ writer' # "place"
        /\ (writer = "place" => Failed')
    BY <1>9 DEF WriterOpen, WriterDone, WriterFails, chanVars, Failed
  <2>2. /\ Place("writer")' = {}
        /\ writer # "place" => Place("writer") = {}
    BY <2>1, PlacesAre, PlacesAreNext
  <2>3. /\ \A p \in Names : Place(p)' \subseteq Place(p)
        /\ Failed' \/ \A p \in Names : Place(p)' = Place(p)
    BY <1>4, <1>6, <1>7, <2>1, <2>2
  <2>4. Spread'
    BY <1>2, <1>3, <1>5, <2>3, Rests
  <2> QED  BY <1>3, <2>1, <2>4 DEF PathInv, Distinct
<1>10. CASE WriterRecv
  <2> DEFINE fr == Head(fullTgt)
  <2>1. /\ writer # "place" /\ writer' = "place" /\ cur' = fr
        /\ fullTgt # <<>> /\ fullTgt' = Tail(fullTgt) /\ UNCHANGED <<stash, out>>
    BY <1>10 DEF WriterRecv
  <2>2. Place("writer")' = Place("writer") \cup {fr}
    BY <2>1, PlacesAre, PlacesAreNext
  <2>3. /\ Distinct(fullTgt') /\ fr \in Place("fullTgt")
        /\ Place("fullTgt")' = Place("fullTgt") \ {fr}
    <3>1. /\ fr \in Elems(fullTgt) /\ fr \notin Elems(fullTgt')
          /\ Elems(fullTgt') \subseteq Elems(fullTgt)
          /\ Elems(fullTgt) \subseteq Elems(fullTgt') \cup {fr}
          /\ Distinct(fullTgt')
      BY <1>5, <2>1, HeadTail DEF TypeOK, PathInv
    <3> QED  BY <3>1, PlacesAre, PlacesAreNext
  <2> HIDE DEF fr
  <2>4. \A r \in Names \ {"fullTgt", "writer"} : Place(r)' = Place(r)
    BY <1>4, <1>6, <1>7, <2>1
  <2>5. Spread'
    BY <1>2, <1>3, <1>5, <1>7, <2>2, <2>3, <2>4, Moves
  <2> QED  BY <1>3, <2>1, <2>3, <2>5 DEF PathInv, Distinct
<1>11. CASE WriterStash
  <2>1. /\ writer = "place" /\ writer' # "place" /\ stash' = stash \cup {cur}
        /\ UNCHANGED <<fullTgt, out>>
    BY <1>11 DEF WriterStash, chanVars
  <2>2. /\ cur \in Place("writer") /\ Place("writer")' = Place("writer") \ {cur}
        /\ Place("stash")' = Place("stash") \cup {cur}
    BY <2>1, PlacesAre, PlacesAreNext
  <2>3. \A r \in Names \ {"writer", "stash"} : Place(r)' = Place(r)
    BY <1>4, <1>6, <1>7, <2>1
  <2>4. Spread'
    BY <1>2, <1>3, <1>5, <1>7, <2>2, <2>3, Moves
  <2> QED  BY <1>3, <2>1, <2>4 DEF PathInv, Distinct
<1>12. CASE WriterWrite
  <2>1. /\ writer = "place" /\ writer' # "place" /\ out' = Append(out, cur)
        /\ cur \in Frames /\ UNCHANGED <<fullTgt, stash>>
    BY <1>12 DEF WriterWrite, chanVars, TypeInv
  <2>2. /\ cur \in Place("writer") /\ Place("writer")' = Place("writer") \ {cur}
    BY <2>1, PlacesAre, PlacesAreNext
  <2>3. cur \notin Elems(out)
    BY <1>7, <1>8, <2>2, PlacesAre DEF Apart
  <2>4. Place("out")' = Place("out") \cup {cur} /\ Distinct(out')
    BY <1>5, <2>1, <2>3, Appended, PlacesAre, PlacesAreNext DEF TypeOK, PathInv
  <2>5. \A r \in Names \ {"writer", "out"} : Place(r)' = Place(r)
    BY <1>4, <1>6, <1>7, <2>1
  <2>6. Spread'
    BY <1>2, <1>3, <1>5, <1>7, <2>2, <2>4, <2>5, Moves
  <2> QED  BY <1>3, <2>1, <2>4, <2>6 DEF PathInv, Distinct
<1>13. CASE WriterBack
  <2>1. writer = "back" /\ UNCHANGED <<fullTgt, out>>
    BY <1>13 DEF WriterBack
  <2>2. Place("writer") = {}
    BY <2>1, PlacesAre
  <2>3. CASE writer' = "place"
    <3>1. cur' \in stash /\ stash' = stash \ {cur'}
      BY <1>13, <2>3 DEF WriterBack
    <3>2. /\ cur' \in Place("stash") /\ Place("stash")' = Place("stash") \ {cur'}
          /\ Place("writer")' = Place("writer") \cup {cur'}
      BY <2>2, <2>3, <3>1, PlacesAre, PlacesAreNext
    <3>3. \A r \in Names \ {"writer", "stash"} : Place(r)' = Place(r)
      BY <1>4, <1>6, <1>7, <2>1
    <3>4. Spread'
      BY <1>2, <1>3, <1>5, <1>7, <3>2, <3>3, Moves
    <3> QED  BY <1>3, <2>1, <3>4 DEF PathInv, Distinct
  <2>4. CASE writer' # "place"
    <3>1. stash' = stash /\ writer' = "recv"
      BY <1>13, <2>4 DEF WriterBack
    <3>2. Place("writer")' = Place("writer")
      BY <2>2, <2>4, PlacesAreNext
    <3>3. \A p \in Names : Place(p)' = Place(p)
      BY <1>4, <1>6, <1>7, <2>1, <3>1, <3>2
    <3>4. Spread'
      BY <1>2, <1>3, <1>5, <3>3, Rests
    <3> QED  BY <1>3, <2>1, <3>4 DEF PathInv, Distinct
  <2> QED  BY <2>3, <2>4
<1> QED
  BY <1>9, <1>10, <1>11, <1>12, <1>13 DEF Writer

LEMMA PathStep ==
    ASSUME TypeInv, PathInv, [Next]_vars PROVE PathInv'
<1>1. CASE Main \/ UNCHANGED vars
  <2>1. UNCHANGED <<readerVars, chanVars, worker, writerVars>>
    BY <1>1 DEF Main, JoinReader, JoinAll, vars
  <2>2. UNCHANGED <<next, fullSrc, worker, fullTgt, writer, cur, stash, out>>
    BY <2>1 DEF readerVars, chanVars, writerVars
  <2>3. First' = First /\ Queued'
    BY <2>2 DEF PathInv, Queued, First
  <2>4. \A p \in Names : Place(p)' = Place(p)
    BY <2>2 DEF Place, Holding, Elems
  <2>5. Spread'
    BY <2>2, <2>3, <2>4, Rests DEF PathInv, Failed
  <2> QED
    BY <2>2, <2>3, <2>5 DEF PathInv, Single, Distinct, Holding
<1> QED
  BY <1>1, ReaderPath, WorkerPath, WriterPath DEF Next

-----------------------------------------------------------------------------
(* The output. *)

LEMMA OutStep ==
    ASSUME TypeInv, PathInv, OutInv, [Next]_vars PROVE OutInv'
<1>1. TypeOK
  BY DEF TypeInv
<1>2. CASE writer' = writer /\ UNCHANGED <<nextFr, stash, out, stdout>>
  BY <1>2 DEF OutInv
<1>3. ASSUME Writer PROVE stdout' = stdout
  BY <1>3 DEF Writer, WriterOpen, WriterRecv, WriterDone, WriterStash, WriterWrite, WriterFails,
              WriterBack, mainVars
<1>4. CASE WriterOpen \/ WriterRecv \/ WriterDone \/ WriterFails
  BY <1>3, <1>4 DEF OutInv, Writer, WriterOpen, WriterRecv, WriterDone, WriterFails
<1>5. CASE WriterStash
  BY <1>3, <1>5 DEF OutInv, Writer, WriterStash
<1>6. CASE WriterWrite
  <2>1. /\ writer = "place" /\ writer' = "back" /\ (stdout => cur = nextFr)
        /\ out' = Append(out, cur) /\ nextFr' = nextFr /\ stash' = stash /\ stdout' = stdout
        /\ cur \in Frames /\ out \in Seq(Frames)
    BY <1>3, <1>6 DEF Writer, WriterWrite, TypeInv, TypeOK
  <2>2. /\ Len(out') = Len(out) + 1 /\ out'[Len(out) + 1] = cur
        /\ \A k \in 1..Len(out) : out'[k] = out[k]
    BY <2>1, Appended
  <2>3. nextFr \in Nat /\ Len(out) \in Nat
    BY <2>1, Constants DEF TypeInv, TypeOK
  <2>4. ASSUME stdout PROVE Len(out) = nextFr /\ \A k \in 1..Len(out) : out[k] = k - 1
    BY <2>1, <2>3, <2>4 DEF OutInv
  <2>5. ASSUME stdout, NEW k \in 1..Len(out') PROVE out'[k] = k - 1
    BY <2>1, <2>2, <2>3, <2>4, <2>5
  <2> QED  BY <2>1, <2>2, <2>3, <2>4, <2>5 DEF OutInv
<1>7. CASE WriterBack
  <2>1. /\ writer = "back" /\ writer' \in {"place", "recv"} /\ out' = out /\ stdout' = stdout
        /\ nextFr' = IF stdout THEN nextFr + 1 ELSE nextFr
        /\ nextFr \in Nat
    BY <1>3, <1>7, Constants DEF Writer, WriterBack, TypeInv, TypeOK
  <2>2. CASE ~stdout
    BY <1>7, <2>1, <2>2 DEF OutInv, WriterBack
  <2>3. CASE stdout
    <3>1. Len(out) = nextFr + 1 /\ \A k \in 1..Len(out) : out[k] = k - 1
      BY <2>1, <2>3 DEF OutInv
    <3>2. \A fr \in stash : fr \in Nat /\ nextFr + 1 <= fr
      <4> SUFFICES ASSUME NEW fr \in stash, fr \in Nat, fr <= nextFr PROVE FALSE
        BY <2>1, Constants DEF TypeInv, TypeOK
      <4>1. fr + 1 \in 1..Len(out) /\ out[fr + 1] = fr
        BY <2>1, <3>1
      <4>2. fr \in Place("out") /\ fr \in Place("stash")
        BY <4>1, PlacesAre DEF Elems
      <4> QED  BY <4>2 DEF PathInv, Spread, Apart, Names
    <3>3. nextFr' \notin stash'
      BY <1>7, <2>1, <2>3, <3>2 DEF WriterBack
    <3> QED  BY <2>1, <2>3, <3>1, <3>3 DEF OutInv
  <2> QED  BY <2>2, <2>3
<1>8. CASE Reader \/ Main \/ UNCHANGED vars
  BY <1>2, <1>8 DEF Reader, ReaderOpen, ReaderRecv, ReaderFails, ReaderSend, ReaderDone, Main,
     JoinReader, JoinAll, vars, writerVars, mainVars
<1>9. ASSUME NEW w \in Workers, Worker(w) PROVE OutInv'
  BY <1>2, <1>9 DEF Worker, WorkerStart, WorkerTakeTgt, WorkerNoTgt, WorkerTakeSrc, WorkerDone,
     WorkerFails, WorkerSend, WorkerFreeSrc, writerVars, mainVars
<1> QED
  BY <1>4, <1>5, <1>6, <1>7, <1>8, <1>9 DEF Next, Writer

-----------------------------------------------------------------------------
(* The end. *)

LEMMA WorkerEnd ==
    ASSUME TypeOK, NEW w \in Workers, Worker(w)
    PROVE  /\ worker[w].pc \notin Ended
           /\ \A v \in Workers : v # w => worker'[v] = worker[v]
           /\ worker'[w].pc = "ok" => fullSrc = <<>> /\ reader \in Ended
           /\ fullSrc = <<>> => fullSrc' = <<>>
           /\ UNCHANGED <<readerVars, writerVars, mainVars>>
<1>1. CASE WorkerTakeSrc(w)
  BY <1>1 DEF WorkerTakeSrc, Ended, TypeOK
<1>2. CASE WorkerSend(w)
  BY <1>2, Goes DEF WorkerSend, Ended
<1> QED
  BY <1>1, <1>2, Goes DEF Worker, WorkerStart, WorkerTakeTgt, WorkerNoTgt, WorkerDone,
     WorkerFails, WorkerFreeSrc, Ended, FullSrcClosed, chanVars

LEMMA EndStep ==
    ASSUME TypeInv, EndInv, [Next]_vars PROVE EndInv'
<1>1. TypeOK
  BY DEF TypeInv
<1>2. CASE Reader
  <2>1. /\ reader \notin Ended
        /\ reader' = "ok" => next' = NumFrames
        /\ UNCHANGED <<worker, fullTgt, writerVars, mainVars>>
    BY <1>2 DEF Reader, ReaderOpen, ReaderRecv, ReaderFails, ReaderSend, ReaderDone, Ended,
                chanVars
  <2>2. /\ main' = "reader" /\ writer' # "ok" /\ result' = "none"
        /\ \A w \in Workers : worker[w].pc # "ok"
    BY <2>1 DEF EndInv, TypeOK, TypeInv, writerVars, mainVars
  <2> QED  BY <2>1, <2>2 DEF EndInv
<1>3. ASSUME NEW w \in Workers, Worker(w) PROVE EndInv'
  <2>1. /\ worker[w].pc \notin Ended
        /\ \A v \in Workers : v # w => worker'[v] = worker[v]
        /\ worker'[w].pc = "ok" => fullSrc = <<>> /\ reader \in Ended
        /\ fullSrc = <<>> => fullSrc' = <<>>
        /\ UNCHANGED <<reader, next, writer, main, result>>
    BY <1>1, <1>3, WorkerEnd DEF readerVars, writerVars, mainVars
  <2>2. ~WorkersEnded
    BY <2>1 DEF WorkersEnded
  <2>3. writer # "ok" /\ main # "returned" /\ result # "ok"
    BY <2>2 DEF EndInv
  <2>4. (\E v \in Workers : worker'[v].pc = "ok") => fullSrc = <<>> /\ reader \in Ended
    BY <2>1 DEF EndInv
  <2>5. /\ reader = "ok" => next = NumFrames
        /\ main # "reader" => reader \in Ended
        /\ result = "none"
    BY <2>3 DEF EndInv
  <2> QED  BY <2>1, <2>3, <2>4, <2>5 DEF EndInv
<1>4. CASE Writer
  <2>1. /\ ~WriterGone
        /\ writer' = "ok" => fullTgt' = <<>> /\ main # "reader" /\ WorkersEnded
        /\ UNCHANGED <<reader, next, fullSrc, worker, main, result>>
    BY <1>4 DEF Writer, WriterOpen, WriterRecv, WriterDone, WriterStash, WriterWrite,
                WriterFails, WriterBack, WriterGone, Ended, FullTgtClosed, chanVars, readerVars,
                mainVars
  <2>2. main # "returned" /\ result = "none"
    BY <2>1 DEF EndInv
  <2> QED  BY <2>1, <2>2 DEF EndInv, WorkersEnded
<1>5. CASE JoinReader
  BY <1>5 DEF JoinReader, EndInv, readerVars, chanVars, writerVars, Ended, WorkersEnded, Failed,
              WriterGone
<1>6. CASE JoinAll
  <2>1. /\ main = "all" /\ main' = "returned" /\ WorkersEnded /\ WriterGone
        /\ result' \in {"ok", "err"} /\ (result' = "ok" => ~Failed)
        /\ UNCHANGED <<reader, next, fullSrc, worker, writer, fullTgt>>
    BY <1>6 DEF JoinAll, Failed, readerVars, chanVars, writerVars
  <2> QED  BY <2>1 DEF EndInv, WorkersEnded, WriterGone, Failed
<1>7. CASE UNCHANGED vars
  BY <1>7 DEF vars, EndInv, readerVars, chanVars, writerVars, mainVars, WorkersEnded, WriterGone,
              Failed
<1> QED
  BY <1>2, <1>3, <1>4, <1>5, <1>6, <1>7 DEF Next, Main

-----------------------------------------------------------------------------
(* The inductive invariant. *)

LEMMA InitInv == ASSUME Init PROVE IInv
<1>1. TypeInv
  BY TypeInit
<1>2. BuffersBounded
  <2>1. /\ {w \in Workers : worker[w].pc \in {"start", "process", "free"}} = Workers
        /\ {w \in Workers : worker[w].pc \in {"start", "src", "process"}} = Workers
    BY DEF Init
  <2>2. At({"start", "process", "free"}) = K /\ At({"start", "src", "process"}) = K
    BY <2>1 DEF At, K
  <2>3. Cardinality(stash) = 0
    BY FS_EmptySet DEF Init
  <2>4. /\ freeSrc = 0 /\ Len(fullSrc) = 0 /\ freeTgt = 0 /\ Len(fullTgt) = 0
        /\ reader = "open" /\ writer = "open"
    BY DEF Init
  <2>5. K \in Nat
    BY Constants
  <2>6. /\ reader # "read" /\ writer \notin {"place", "back"}
    BY <2>4
  <2>7. freeSrc + Len(fullSrc) + (IF reader = "read" THEN 1 ELSE 0)
          + At({"start", "process", "free"}) <= K
    BY <2>2, <2>4, <2>5, <2>6
  <2>8. freeTgt + Len(fullTgt) + Cardinality(stash)
          + (IF writer \in {"place", "back"} THEN 1 ELSE 0)
          + At({"start", "src", "process"}) <= K
    BY <2>2, <2>3, <2>4, <2>5, <2>6
  <2> QED  BY <2>7, <2>8 DEF BuffersBounded
<1>3. PathInv
  <2>1. \A p \in Names : Place(p) = {}
    BY PlacesAre DEF Init, Names, Elems, Holding
  <2>2. First = 0 /\ Len(fullSrc) = 0
    <3>1. next = 0 /\ Len(fullSrc) = 0
      BY DEF Init
    <3> QED  BY <3>1 DEF First
  <2>3. Spread
    BY <2>1, <2>2, Constants DEF Spread, Apart, Taken, Kept
  <2> QED
    BY <2>2, <2>3 DEF Init, PathInv, Queued, Single, Holding, Distinct
<1>4. OutInv
  BY DEF Init, OutInv
<1>5. EndInv
  BY DEF Init, EndInv, Ended
<1> QED
  BY <1>1, <1>2, <1>3, <1>4, <1>5 DEF IInv

LEMMA StepInv == ASSUME IInv, [Next]_vars PROVE IInv'
  BY BufferStep, TypeStep, PathStep, OutStep, EndStep DEF IInv

\* IInv is an invariant of the engine.
THEOREM Invariant == Spec => []IInv
  BY InitInv, StepInv, PTL DEF Spec

\* Every variable keeps its type; the free buffers never pass the number of
\* workers (transcode_file_names of spmtsc.rs).
THEOREM TypeCorrect == Spec => []TypeOK
<1>1. IInv => TypeOK
  BY DEF IInv, TypeInv
<1> QED
  BY <1>1, Invariant, PTL

\* To stdout the frames come out 0, 1, 2, ..., for every order the workers
\* finish in (the writer thread's stash, spmtsc.rs).
THEOREM InOrderHolds == Spec => []InOrder
<1>1. IInv => InOrder
  BY DEF IInv, OutInv, InOrder
<1> QED
  BY <1>1, Invariant, PTL

-----------------------------------------------------------------------------
(* No frame is lost or doubled. *)

\* z tells the holder of frame fr in place p.
Seat(fr, p, z) ==
    \/ p = "worker"  /\ z \in Workers /\ Holding(z) /\ worker[z].fr = fr
    \/ p = "fullTgt" /\ z \in 1..Len(fullTgt) /\ fullTgt[z] = fr
    \/ p = "writer"  /\ z = fr /\ writer = "place" /\ cur = fr
    \/ p = "stash"   /\ z = fr /\ fr \in stash
    \/ p = "out"     /\ z \in 1..Len(out) /\ out[z] = fr

LEMMA SeatIsPlace ==
    ASSUME NEW fr, NEW p \in Names
    PROVE  /\ \A z : Seat(fr, p, z) => fr \in Place(p)
           /\ fr \in Place(p) => \E z : Seat(fr, p, z)
<1>1. CASE p = "worker"
  BY <1>1, PlacesAre DEF Seat
<1>2. CASE p = "fullTgt"
  BY <1>2, PlacesAre DEF Seat, Elems
<1>3. CASE p = "writer"
  BY <1>3, PlacesAre DEF Seat
<1>4. CASE p = "stash"
  BY <1>4, PlacesAre DEF Seat
<1>5. CASE p = "out"
  BY <1>5, PlacesAre DEF Seat, Elems
<1> QED
  BY <1>1, <1>2, <1>3, <1>4, <1>5 DEF Names

LEMMA HoldersAre ==
    ASSUME NEW fr
    PROVE  \A x : x \in Holders(fr) <=>
             \/ \E k \in 1..Len(fullSrc) : x = <<"fullSrc", k>> /\ fullSrc[k] = fr
             \/ \E p \in Names : \E z : x = <<p, z>> /\ Seat(fr, p, z)
<1> SUFFICES ASSUME NEW x
             PROVE  x \in Holders(fr) <=>
             \/ \E k \in 1..Len(fullSrc) : x = <<"fullSrc", k>> /\ fullSrc[k] = fr
             \/ \E p \in Names : \E z : x = <<p, z>> /\ Seat(fr, p, z)
  OBVIOUS
<1>1. x \in Holders(fr) =>
             \/ \E k \in 1..Len(fullSrc) : x = <<"fullSrc", k>> /\ fullSrc[k] = fr
             \/ \E p \in Names : \E z : x = <<p, z>> /\ Seat(fr, p, z)
  BY DEF Holders, Names, Seat, Holding
<1>2. ASSUME NEW p \in Names, NEW z, x = <<p, z>>, Seat(fr, p, z) PROVE x \in Holders(fr)
  BY <1>2 DEF Holders, Seat, Holding
<1>3. ASSUME NEW k \in 1..Len(fullSrc), x = <<"fullSrc", k>>, fullSrc[k] = fr
      PROVE  x \in Holders(fr)
  BY <1>3 DEF Holders
<1> QED
  BY <1>1, <1>2, <1>3

LEMMA OneSeat ==
    ASSUME PathInv, NEW fr, NEW p \in Names, NEW y, NEW z, Seat(fr, p, y), Seat(fr, p, z)
    PROVE  y = z
  BY DEF PathInv, Single, Distinct, Seat, Names

LEMMA OneHolder ==
    ASSUME TypeInv, PathInv, NEW fr \in Frames, NEW x \in Holders(fr), NEW y \in Holders(fr)
    PROVE  x = y
<1>1. \A p \in Names : \A z : Seat(fr, p, z) => fr \in Place(p) /\ fr < First
  BY SeatIsPlace DEF PathInv, Spread, Taken
<1>2. \A k \in 1..Len(fullSrc) : fullSrc[k] = fr => fr = First + k - 1
  BY DEF PathInv, Queued
<1>3. First \in Nat /\ fr \in Int
  BY FirstIs, Constants DEF PathInv
<1>4. CASE \E k \in 1..Len(fullSrc) : x = <<"fullSrc", k>> /\ fullSrc[k] = fr
  <2>1. PICK k \in 1..Len(fullSrc) : x = <<"fullSrc", k>> /\ fullSrc[k] = fr
    BY <1>4
  <2>2. ~(fr < First) /\ k = fr - First + 1
    BY <1>2, <1>3, <2>1
  <2>3. PICK j \in 1..Len(fullSrc) : y = <<"fullSrc", j>> /\ fullSrc[j] = fr
    BY <1>1, <2>2, HoldersAre
  <2>4. j = fr - First + 1
    BY <1>2, <1>3, <2>3
  <2> QED  BY <2>1, <2>2, <2>3, <2>4
<1>5. CASE \E p \in Names : \E z : x = <<p, z>> /\ Seat(fr, p, z)
  <2>a. PICK p \in Names : \E z : x = <<p, z>> /\ Seat(fr, p, z)
    BY <1>5
  <2>1. PICK z : x = <<p, z>> /\ Seat(fr, p, z)
    BY <2>a
  <2>2. ~ \E k \in 1..Len(fullSrc) : fullSrc[k] = fr
    BY <1>1, <1>2, <1>3, <2>1
  <2>b. PICK q \in Names : \E t : y = <<q, t>> /\ Seat(fr, q, t)
    BY <2>2, HoldersAre
  <2>3. PICK t : y = <<q, t>> /\ Seat(fr, q, t)
    BY <2>b
  <2>4. p = q
    BY <1>1, <2>1, <2>3 DEF PathInv, Spread, Apart
  <2>5. z = t
    BY <2>1, <2>3, <2>4, OneSeat
  <2> QED  BY <2>1, <2>3, <2>4, <2>5
<1> QED
  BY <1>4, <1>5, HoldersAre

LEMMA FramesConservedFromInv == ASSUME IInv PROVE FramesConserved
<1> SUFFICES ASSUME NEW fr \in Frames
             PROVE  /\ Cardinality(Holders(fr)) <= 1
                    /\ Cardinality(Holders(fr)) = 0 => fr >= next \/ Failed
  BY DEF FramesConserved
<1>1. TypeInv /\ PathInv
  BY DEF IInv
<1>2. Holders(fr) = {} \/ \E x : Holders(fr) = {x}
  <2>1. \A x, y \in Holders(fr) : x = y
    BY <1>1, OneHolder
  <2> QED  BY <2>1
<1>3. IsFiniteSet(Holders(fr)) /\ Cardinality(Holders(fr)) \in {0, 1}
  <2>1. CASE Holders(fr) = {}
    BY <2>1, FS_EmptySet
  <2>2. ASSUME NEW x, Holders(fr) = {x}
        PROVE  IsFiniteSet(Holders(fr)) /\ Cardinality(Holders(fr)) \in {0, 1}
    BY <2>2, FS_Singleton
  <2> QED  BY <1>2, <2>1, <2>2
<1>4. ASSUME Holders(fr) = {}, fr < next, ~Failed PROVE FALSE
  <2>1. /\ First \in Nat /\ next \in Nat /\ Len(fullSrc) \in Nat /\ fr \in Nat
        /\ First = next - Len(fullSrc)
    BY <1>1, FirstIs, Constants DEF PathInv, First
  <2>2. CASE fr < First
    <3>1. PICK p \in Names : fr \in Place(p)
      BY <1>1, <1>4, <2>2 DEF PathInv, Spread, Kept
    <3>2. PICK z : Seat(fr, p, z)
      BY <3>1, SeatIsPlace
    <3>3. <<p, z>> \in Holders(fr)
      BY <3>2, HoldersAre
    <3> QED  BY <1>4, <3>3
  <2>3. CASE ~(fr < First)
    <3> DEFINE k == fr - First + 1
    <3>1. k \in 1..Len(fullSrc)
      BY <1>4, <2>1, <2>3
    <3>2. fullSrc[k] = First + k - 1
      BY <1>1, <3>1 DEF PathInv, Queued
    <3>3. fullSrc[k] = fr
      BY <2>1, <3>2
    <3> HIDE DEF k
    <3>4. <<"fullSrc", k>> \in Holders(fr)
      BY <3>1, <3>3, HoldersAre
    <3> QED  BY <1>4, <3>4
  <2> QED  BY <2>2, <2>3
<1>5. next \in Nat /\ fr \in Nat
  BY <1>1, FirstIs, Constants DEF PathInv
<1> QED
  BY <1>3, <1>4, <1>5, FS_EmptySet

\* A frame the reader sent is in one place, or in none after a failure, and
\* the 2K buffers of the workers are all there is (the four channels of
\* transcode_file_names, spmtsc.rs).
THEOREM ConservedHolds == Spec => []Conserved
<1>1. IInv => Conserved
  BY FramesConservedFromInv DEF IInv, Conserved
<1> QED
  BY <1>1, Invariant, PTL

-----------------------------------------------------------------------------
(* The promise of the engines. *)

\* When nothing failed and every thread has ended, every frame is written.
LEMMA WholeOutput ==
    ASSUME IInv, ~Failed, WorkersEnded, WriterGone, reader = "ok"
    PROVE  Elems(out) = Frames
<1>1. TypeInv /\ TypeOK /\ PathInv /\ OutInv /\ EndInv
  BY DEF IInv, TypeInv
<1>2. writer = "ok" /\ \A w \in Workers : worker[w].pc = "ok"
  BY DEF Failed, WorkersEnded, WriterGone, Ended
<1>3. fullSrc = <<>> /\ next = NumFrames /\ fullTgt = <<>>
  BY <1>1, <1>2, SizeAssumption DEF EndInv
<1>4. First = NumFrames
  BY <1>3, Constants DEF First
<1>5. Place("worker") = {} /\ Place("fullTgt") = {} /\ Place("writer") = {}
  BY <1>2, <1>3, PlacesAre DEF Holding, Elems
<1>6. \A fr \in Frames : fr < First
  BY <1>4, Constants DEF Frames
<1>7. \A fr \in Frames : fr \in stash \/ fr \in Elems(out)
  BY <1>1, <1>5, <1>6, PlacesAre DEF PathInv, Spread, Kept, Names
<1>8. stash = {}
  <2>1. CASE ~stdout
    BY <1>1, <2>1 DEF OutInv
  <2>2. CASE stdout
    <3>1. /\ Len(out) = nextFr /\ nextFr \notin stash /\ nextFr \in 0..NumFrames
          /\ \A k \in 1..Len(out) : out[k] = k - 1
      BY <1>1, <1>2, <2>2, Constants DEF OutInv, TypeOK
    <3>2. nextFr \notin Elems(out)
      BY <3>1, Constants DEF Elems
    <3>3. nextFr = NumFrames
      BY <1>7, <3>1, <3>2, Constants DEF Frames
    <3>4. \A fr \in Frames : fr + 1 \in 1..Len(out) /\ out[fr + 1] = fr
      BY <3>1, <3>3, Constants DEF Frames
    <3>5. Frames \subseteq Elems(out)
      BY <3>4 DEF Elems
    <3>6. stash \cap Elems(out) = {}
      BY <1>1, PlacesAre DEF PathInv, Spread, Apart, Names
    <3> QED  BY <1>1, <3>5, <3>6 DEF TypeOK
  <2> QED  BY <2>1, <2>2
<1>9. Elems(out) \subseteq Frames
  BY <1>1 DEF TypeOK, Elems
<1> QED
  BY <1>7, <1>8, <1>9

LEMMA WriteRefines == ASSUME IInv, WriterWrite PROVE Engine!Next
<1>1. TypeInv /\ TypeOK /\ PathInv /\ EndInv
  BY DEF IInv, TypeInv
<1>2. /\ writer = "place" /\ cur \in Frames /\ out \in Seq(Frames)
      /\ out' = Append(out, cur) /\ result' = result /\ reader' = reader
  BY <1>1 DEF WriterWrite, TypeInv, TypeOK, mainVars, readerVars
<1>3. result = "none"
  BY <1>1, <1>2 DEF EndInv, WriterGone, Ended
<1>4. cur \in Place("writer") /\ Elems(out) = Place("out")
  BY <1>2, PlacesAre
<1>5. cur \notin Elems(out)
  BY <1>1, <1>4 DEF PathInv, Spread, Apart, Names
<1>6. Elems(out') = Elems(out) \cup {cur}
  BY <1>2, Appended
<1> PICK fr \in Frames : fr = cur
  BY <1>2
<1>7. Engine!Emit(fr)
  <2>1. /\ fr \notin {out[i] : i \in 1..Len(out)}
        /\ {out'[i] : i \in 1..Len(out')} = {out[i] : i \in 1..Len(out)} \cup {fr}
    BY <1>5, <1>6 DEF Elems
  <2>2. result = "none" /\ result' = "none"
    BY <1>2, <1>3
  <2> QED  BY <2>1, <2>2 DEF Engine!Emit
<1> QED
  BY <1>7 DEF Engine!Next, Engine!Frames, Frames

LEMMA JoinRefines == ASSUME IInv, JoinAll PROVE Engine!Next
<1>1. /\ EndInv /\ WorkersEnded /\ WriterGone /\ main = "all" /\ result = "none"
      /\ reader \in Ended /\ out' = out /\ reader' = reader
      /\ result' = IF Failed THEN "err" ELSE "ok"
  BY DEF IInv, JoinAll, EndInv, Failed, writerVars, readerVars
<1>2. CASE result' = "ok" /\ reader = "ok"
  <2>1. Elems(out) = Frames
    BY <1>1, <1>2, WholeOutput
  <2>2. Engine!EndOk
    BY <1>1, <1>2, <2>1 DEF Engine!EndOk, Engine!Frames, Frames, Elems
  <2> QED  BY <2>2 DEF Engine!Next
<1>3. CASE ~(result' = "ok" /\ reader = "ok")
  <2>1. Engine!EndErr
    BY <1>1, <1>3 DEF Engine!EndErr, Ended
  <2> QED  BY <2>1 DEF Engine!Next
<1> QED
  BY <1>2, <1>3

\* The engine implements the common promise of the engines: no frame is put
\* in the output twice, and Ok of a call whose reader did not fail means that
\* none is missing.
THEOREM ImplementsTranscodeHolds == Spec => ImplementsTranscode
<1>1. Init => Engine!Init
  BY SizeAssumption DEF Init, Engine!Init
<1>2. IInv /\ [Next]_vars => [Engine!Next]_(Engine!vars)
  <2> SUFFICES ASSUME IInv, [Next]_vars PROVE [Engine!Next]_(Engine!vars)
    OBVIOUS
  <2>1. CASE WriterWrite
    BY <2>1, WriteRefines
  <2>2. CASE JoinAll
    BY <2>2, JoinRefines
  <2>3. CASE Reader
    <3>1. reader \notin Ended /\ out' = out /\ result' = result
      BY <2>3 DEF Reader, ReaderOpen, ReaderRecv, ReaderFails, ReaderSend, ReaderDone, Ended,
                  writerVars, mainVars
    <3>2. result # "ok"
      BY <3>1 DEF IInv, EndInv
    <3> QED  BY <3>1, <3>2 DEF Engine!vars
  <2>4. ASSUME NEW w \in Workers, Worker(w) PROVE UNCHANGED (Engine!vars)
    BY <2>4, WorkerEnd DEF IInv, TypeInv, Engine!vars, readerVars, writerVars, mainVars
  <2>5. CASE Writer /\ ~WriterWrite
    BY <2>5 DEF Writer, WriterOpen, WriterRecv, WriterDone, WriterStash, WriterFails, WriterBack,
                Engine!vars, readerVars, mainVars
  <2>6. CASE JoinReader \/ UNCHANGED vars
    BY <2>6 DEF JoinReader, vars, readerVars, writerVars, mainVars, Engine!vars
  <2> QED
    BY <2>1, <2>2, <2>3, <2>4, <2>5, <2>6 DEF Next, Main
<1> QED
  BY <1>1, <1>2, Invariant, PTL DEF Spec, ImplementsTranscode, Engine!Spec

-----------------------------------------------------------------------------
(* No thread waits for ever.  There is always one that can move, and there *)
(* are only so many moves.                                                 *)

\* What a step of worker w takes and gives.
WorkerMoves(w) ==
    LET was == worker[w].pc
        is  == worker'[w].pc
    IN  /\ \A v \in Workers : v # w => worker'[v] = worker[v]
        /\ UNCHANGED <<readerVars, writerVars, mainVars>>
        /\ \/ /\ \/ was = "start" /\ is = "src"
                 \/ was = "free" /\ is = "tgt"
              /\ GiveSrc /\ UNCHANGED <<freeTgt, fullSrc, fullTgt>>
           \/ /\ was = "tgt" /\ is = "src"
              /\ freeTgt' = freeTgt - 1 /\ UNCHANGED <<freeSrc, fullSrc, fullTgt>>
           \/ /\ was = "src" /\ is = "process" /\ fullSrc # <<>>
              /\ fullSrc' = Tail(fullSrc) /\ UNCHANGED <<freeSrc, freeTgt, fullTgt>>
           \/ was = "src" /\ is = "ok" /\ reader \in Ended /\ UNCHANGED chanVars
           \/ /\ was = "process" /\ is = "free"
              /\ fullTgt' = Append(fullTgt, worker[w].fr)
              /\ UNCHANGED <<freeSrc, freeTgt, fullSrc>>
           \/ was \in {"tgt", "process"} /\ is = "err" /\ UNCHANGED chanVars

LEMMA WorkerMovesSo == ASSUME TypeOK, NEW w \in Workers, Worker(w) PROVE WorkerMoves(w)
<1>1. CASE WorkerTakeSrc(w)
  <2>1. /\ worker[w].pc = "src" /\ worker'[w].pc = "process"
        /\ \A v \in Workers : v # w => worker'[v] = worker[v]
    BY <1>1 DEF WorkerTakeSrc, TypeOK
  <2> QED  BY <1>1, <2>1 DEF WorkerTakeSrc, WorkerMoves
<1>2. CASE WorkerSend(w)
  <2>1. CASE WriterGone
    <3>1. Go(w, "err") /\ worker[w].pc = "process" /\ UNCHANGED chanVars
          /\ UNCHANGED <<readerVars, writerVars, mainVars>>
      BY <1>2, <2>1 DEF WorkerSend, chanVars
    <3> QED  BY <3>1, Goes DEF WorkerMoves
  <2>2. CASE ~WriterGone
    <3>1. Go(w, "free") /\ worker[w].pc = "process" /\ fullTgt' = Append(fullTgt, worker[w].fr)
          /\ UNCHANGED <<readerVars, writerVars, mainVars, freeSrc, freeTgt, fullSrc>>
      BY <1>2, <2>2 DEF WorkerSend
    <3> QED  BY <3>1, Goes DEF WorkerMoves
  <2> QED  BY <2>1, <2>2
<1>3. CASE WorkerStart(w) \/ WorkerFreeSrc(w)
  BY <1>3, Goes DEF WorkerStart, WorkerFreeSrc, WorkerMoves
<1>4. CASE WorkerTakeTgt(w)
  BY <1>4, Goes DEF WorkerTakeTgt, WorkerMoves
<1>5. CASE WorkerNoTgt(w) \/ WorkerFails(w)
  BY <1>5, Goes DEF WorkerNoTgt, WorkerFails, WorkerMoves
<1>6. CASE WorkerDone(w)
  BY <1>6, Goes DEF WorkerDone, WorkerMoves, FullSrcClosed
<1> QED
  BY <1>1, <1>2, <1>3, <1>4, <1>5, <1>6 DEF Worker

\* How the queues grow and shrink.
LEMMA QueueLengths ==
    ASSUME TypeOK
    PROVE  /\ Len(fullSrc) \in Nat /\ Len(fullTgt) \in Nat
           /\ fullSrc # <<>> /\ fullSrc' = Tail(fullSrc) => Len(fullSrc') = Len(fullSrc) - 1
           /\ fullTgt # <<>> /\ fullTgt' = Tail(fullTgt) => Len(fullTgt') = Len(fullTgt) - 1
           /\ \A m : fullSrc' = Append(fullSrc, m) => Len(fullSrc') = Len(fullSrc) + 1
           /\ \A m : fullTgt' = Append(fullTgt, m) => Len(fullTgt') = Len(fullTgt) + 1
<1>1. fullSrc \in Seq(Frames) /\ fullTgt \in Seq(Frames)
  BY DEF TypeOK
<1> QED
  BY <1>1

\* How the stash does.
LEMMA StashSizes ==
    ASSUME TypeOK
    PROVE  /\ Cardinality(stash) \in Nat
           /\ cur \notin stash /\ stash' = stash \cup {cur} =>
                 Cardinality(stash') = Cardinality(stash) + 1
           /\ \A fr \in stash : stash' = stash \ {fr} =>
                 Cardinality(stash') = Cardinality(stash) - 1
<1>1. IsFiniteSet(stash) /\ Cardinality(stash) \in Nat
  BY StashFinite
<1>2. ASSUME cur \notin stash, stash' = stash \cup {cur}
      PROVE  Cardinality(stash') = Cardinality(stash) + 1
  BY <1>1, <1>2, FS_AddElement
<1>3. ASSUME NEW fr \in stash, stash' = stash \ {fr}
      PROVE  Cardinality(stash') = Cardinality(stash) - 1
  BY <1>1, <1>3, FS_RemoveElement
<1> QED
  BY <1>1, <1>2, <1>3

-----------------------------------------------------------------------------
(* Until a thread fails no buffer is lost: the reader's until it ends, the *)
(* others to the end, when each worker that is done has kept its own.      *)

HasSrc == {"start", "process", "free"}
HasTgt == {"start", "src", "process", "ok"}
AllTgts == freeTgt + Len(fullTgt) + Cardinality(stash)
           + (IF writer \in {"place", "back"} THEN 1 ELSE 0) + At(HasTgt)

TightInv == Failed \/ (AllTgts = K /\ (reader \in Ended \/ Srcs = K))

LEMMA CountsToo ==
    ASSUME TypeOK
    PROVE  /\ freeSrc \in Nat /\ freeTgt \in Nat /\ At(HasSrc) \in Nat /\ At(HasTgt) \in Nat
           /\ Srcs = freeSrc + Len(fullSrc) + (IF reader = "read" THEN 1 ELSE 0) + At(HasSrc)
  BY Counts, AtIs DEF HasSrc, HasTgt, Srcs

LEMMA WorkerTight == ASSUME TypeOK, TightInv, NEW w \in Workers, Worker(w) PROVE TightInv'
<1> SUFFICES ASSUME ~Failed' PROVE AllTgts' = K /\ (reader' \in Ended \/ Srcs' = K)
  BY DEF TightInv, K
<1>1. ~Failed
  BY FailedStays DEF Next
<1>2. WorkerMoves(w) /\ worker'[w].pc # "err"
  BY WorkerMovesSo DEF Failed
<1>3. /\ UNCHANGED <<reader, writer, stash>>
      /\ \A v \in Workers : v # w => worker'[v].pc = worker[v].pc
  BY <1>2 DEF WorkerMoves, readerVars, writerVars
<1> DEFINE In(pc, pcs) == IF pc \in pcs THEN 1 ELSE 0
           a == At(HasSrc)  b == At(HasTgt)  f == Len(fullSrc)  g == Len(fullTgt)
           a1 == At(HasSrc)'  b1 == At(HasTgt)'  f1 == Len(fullSrc')  g1 == Len(fullTgt')
           c == Cardinality(stash) + (IF writer \in {"place", "back"} THEN 1 ELSE 0)
           r == IF reader = "read" THEN 1 ELSE 0
<1>4. /\ a1 = a + In(worker'[w].pc, HasSrc) - In(worker[w].pc, HasSrc)
      /\ b1 = b + In(worker'[w].pc, HasTgt) - In(worker[w].pc, HasTgt)
  BY <1>3, AtMoves
<1>5. /\ a \in Nat /\ b \in Nat /\ f \in Nat /\ g \in Nat /\ c \in Nat /\ r \in Nat
      /\ freeSrc \in Nat /\ freeTgt \in Nat
  BY CountsToo, QueueLengths, StashSizes
<1>6. /\ AllTgts = freeTgt + g + c + b /\ AllTgts' = freeTgt' + g1 + c + b1
      /\ Srcs = freeSrc + f + r + a /\ Srcs' = freeSrc' + f1 + r + a1
  <2>1. Srcs' = freeSrc' + f1 + r + a1
    BY <1>3 DEF Srcs, HasSrc
  <2>2. AllTgts = freeTgt + g + c + b
    BY <1>5, StashSizes DEF AllTgts
  <2>3. AllTgts' = freeTgt' + g1 + Cardinality(stash)
                   + (IF writer \in {"place", "back"} THEN 1 ELSE 0) + b1
    BY <1>3 DEF AllTgts
  <2>4. freeTgt' \in Int /\ g1 \in Int
    BY <1>2, <1>5, QueueLengths DEF WorkerMoves, chanVars
  <2>5. AllTgts' = freeTgt' + g1 + c + b1
    BY <2>3, <2>4, StashSizes
  <2> QED  BY <2>1, <2>2, <2>5, CountsToo
<1>7. AllTgts = K /\ (reader \in Ended \/ Srcs = K)
  BY <1>1 DEF TightInv
<1> SUFFICES freeTgt' + g1 + b1 = freeTgt + g + b
             /\ (reader \notin Ended => freeSrc' + f1 + a1 = freeSrc + f + a)
  <2>1. /\ freeTgt' \in Int /\ g1 \in Int /\ b1 \in Int
        /\ freeSrc' \in Int /\ f1 \in Int /\ a1 \in Int
    <3>1. a1 \in Int /\ b1 \in Int
      BY <1>4, <1>5
    <3>2. freeTgt' \in Int /\ freeSrc' \in Int
      BY <1>2, <1>5 DEF WorkerMoves, chanVars, GiveSrc
    <3>3. f1 \in Int /\ g1 \in Int
      BY <1>2, <1>5, QueueLengths DEF WorkerMoves, chanVars
    <3> QED  BY <3>1, <3>2, <3>3
  <2>2. reader' = reader
    BY <1>3
  <2> DEFINE s1 == freeSrc'  t1 == freeTgt'
  <2>3. s1 \in Int /\ t1 \in Int /\ t1 + g1 + b1 = freeTgt + g + b
        /\ (reader \notin Ended => s1 + f1 + a1 = freeSrc + f + a)
    BY <2>1
  <2> HIDE DEF a, b, f, g, a1, b1, f1, g1, c, r, s1, t1
  <2>4. t1 + g1 + c + b1 = freeTgt + g + c + b
    BY ONLY <1>5, <2>1, <2>3
  <2>5. reader \notin Ended => s1 + f1 + r + a1 = freeSrc + f + r + a
    BY ONLY <1>5, <2>1, <2>3
  <2> USE DEF s1, t1
  <2>6. AllTgts' = AllTgts /\ (reader \notin Ended => Srcs' = Srcs)
    BY <1>6, <2>4, <2>5
  <2> QED  BY <1>7, <2>2, <2>6
<1> HIDE DEF a, b, a1, b1
<1>8. CASE /\ \/ worker[w].pc = "start" /\ worker'[w].pc = "src"
              \/ worker[w].pc = "free" /\ worker'[w].pc = "tgt"
           /\ GiveSrc /\ UNCHANGED <<freeTgt, fullSrc, fullTgt>>
  <2>1. a1 = a - 1 /\ b1 = b
    BY <1>4, <1>5, <1>8 DEF HasSrc, HasTgt
  <2> QED  BY <1>5, <1>8, <2>1 DEF GiveSrc
<1>9. CASE /\ worker[w].pc = "tgt" /\ worker'[w].pc = "src"
           /\ freeTgt' = freeTgt - 1 /\ UNCHANGED <<freeSrc, fullSrc, fullTgt>>
  <2>1. a1 = a /\ b1 = b + 1
    BY <1>4, <1>5, <1>9 DEF HasSrc, HasTgt
  <2> QED  BY <1>5, <1>9, <2>1
<1>10. CASE /\ worker[w].pc = "src" /\ worker'[w].pc = "process" /\ fullSrc # <<>>
            /\ fullSrc' = Tail(fullSrc) /\ UNCHANGED <<freeSrc, freeTgt, fullTgt>>
  <2>1. a1 = a + 1 /\ b1 = b
    BY <1>4, <1>5, <1>10 DEF HasSrc, HasTgt
  <2>2. f1 = f - 1
    BY <1>10, QueueLengths
  <2> QED  BY <1>5, <1>10, <2>1, <2>2
<1>11. CASE worker[w].pc = "src" /\ worker'[w].pc = "ok" /\ reader \in Ended /\ UNCHANGED chanVars
  <2>1. b1 = b
    BY <1>4, <1>5, <1>11 DEF HasSrc, HasTgt
  <2> QED  BY <1>5, <1>11, <2>1 DEF chanVars
<1>12. CASE /\ worker[w].pc = "process" /\ worker'[w].pc = "free"
            /\ fullTgt' = Append(fullTgt, worker[w].fr)
            /\ UNCHANGED <<freeSrc, freeTgt, fullSrc>>
  <2>1. a1 = a /\ b1 = b - 1
    BY <1>4, <1>5, <1>12 DEF HasSrc, HasTgt
  <2>2. g1 = g + 1
    BY <1>12, QueueLengths
  <2> QED  BY <1>5, <1>12, <2>1, <2>2
<1> QED
  BY <1>2, <1>8, <1>9, <1>10, <1>11, <1>12 DEF WorkerMoves

LEMMA ReaderTight == ASSUME TypeOK, TightInv, Reader PROVE TightInv'
<1>1. UNCHANGED <<worker, writerVars, freeTgt, fullTgt>>
  BY DEF Reader, ReaderOpen, ReaderRecv, ReaderFails, ReaderSend, ReaderDone, chanVars
<1>2. AllTgts' = AllTgts /\ Failed' = Failed
  BY <1>1, AtStays DEF AllTgts, Failed, writerVars
<1>3. At(HasSrc)' = At(HasSrc)
  BY <1>1, AtStays
<1> DEFINE a == At(HasSrc)  f == Len(fullSrc)  f1 == Len(fullSrc')
           R(pc) == IF pc = "read" THEN 1 ELSE 0
<1>4. a \in Nat /\ f \in Nat /\ freeSrc \in Nat
  BY CountsToo, QueueLengths
<1>5. Srcs = freeSrc + f + R(reader) + a /\ Srcs' = freeSrc' + f1 + R(reader') + a
  <2>1. Srcs' = freeSrc' + f1 + R(reader') + At(HasSrc)'
    BY DEF Srcs, HasSrc
  <2> QED  BY <1>3, <2>1, CountsToo
<1> SUFFICES reader' \in Ended \/ Srcs' = Srcs
  <2>1. reader \notin Ended
    BY DEF Reader, ReaderOpen, ReaderRecv, ReaderFails, ReaderSend, ReaderDone, Ended
  <2> QED  BY <1>2, <2>1 DEF TightInv, K
<1>6. CASE ReaderOpen \/ ReaderFails \/ ReaderDone
  <2>1. reader' \in Ended \/ (reader = "open" /\ reader' = "recv" /\ f1 = f /\ freeSrc' = freeSrc)
    BY <1>6 DEF ReaderOpen, ReaderFails, ReaderDone, Ended, chanVars
  <2> HIDE DEF a, f, f1
  <2> QED  BY <1>4, <1>5, <2>1
<1>7. CASE ReaderRecv
  <2>1. reader = "recv" /\ reader' = "read" /\ f1 = f /\ freeSrc' = freeSrc - 1
    BY <1>7 DEF ReaderRecv
  <2> HIDE DEF a, f, f1
  <2> QED  BY <1>4, <1>5, <2>1
<1>8. CASE ReaderSend
  <2>1. reader = "read" /\ reader' = "recv" /\ f1 = f + 1 /\ freeSrc' = freeSrc
    BY <1>8, QueueLengths DEF ReaderSend
  <2> HIDE DEF a, f, f1
  <2> QED  BY <1>4, <1>5, <2>1
<1> QED
  BY <1>6, <1>7, <1>8 DEF Reader

\* What a step of the writer takes and gives; the frame in hand is not stashed.
WriterMoves ==
    /\ UNCHANGED <<readerVars, worker, mainVars, freeSrc, fullSrc>>
    /\ \/ /\ \/ writer = "open" /\ writer' = "recv"
             \/ writer = "place" /\ writer' = "back"
             \/ writer = "recv" /\ writer' = "ok"
          /\ UNCHANGED <<freeTgt, fullTgt, stash>>
       \/ /\ writer = "recv" /\ writer' = "place" /\ fullTgt # <<>>
          /\ fullTgt' = Tail(fullTgt) /\ UNCHANGED <<freeTgt, stash>>
       \/ /\ writer = "place" /\ writer' = "recv" /\ cur \notin stash
          /\ stash' = stash \cup {cur} /\ UNCHANGED <<freeTgt, fullTgt>>
       \/ /\ writer \in {"open", "place"} /\ writer' = "err"
          /\ UNCHANGED <<freeTgt, fullTgt, stash>>
       \/ /\ writer = "back" /\ writer' = "recv"
          /\ freeTgt' = freeTgt + 1 /\ UNCHANGED <<fullTgt, stash>>
       \/ /\ writer = "back" /\ writer' = "place"
          /\ \E fr \in stash : stash' = stash \ {fr}
          /\ freeTgt' = freeTgt + 1 /\ UNCHANGED fullTgt

LEMMA WriterMovesSo == ASSUME PathInv, Writer PROVE WriterMoves
<1>1. CASE WriterStash
  <2>1. cur \notin stash
    <3>1. Place("writer") \cap Place("stash") = {}
      BY DEF PathInv, Spread, Apart, Names
    <3> QED  BY <1>1, <3>1, PlacesAre DEF WriterStash
  <2> QED  BY <1>1, <2>1 DEF WriterStash, WriterMoves, chanVars
<1>2. CASE WriterOpen \/ WriterDone \/ WriterWrite \/ WriterFails
  BY <1>2 DEF WriterOpen, WriterDone, WriterWrite, WriterFails, WriterMoves, chanVars
<1>3. CASE WriterRecv
  BY <1>3 DEF WriterRecv, WriterMoves
<1>4. CASE WriterBack
  BY <1>4 DEF WriterBack, WriterMoves
<1> QED
  BY <1>1, <1>2, <1>3, <1>4 DEF Writer

LEMMA WriterTight == ASSUME TypeOK, PathInv, TightInv, Writer PROVE TightInv'
<1>1. WriterMoves /\ (Failed => Failed')
  BY WriterMovesSo, FailedStays DEF Next
<1>2. UNCHANGED <<reader, worker, freeSrc, fullSrc>> /\ Srcs' = Srcs
  BY <1>1, AtStays DEF WriterMoves, readerVars, Srcs
<1> DEFINE b == At(HasTgt)  g == Len(fullTgt)  g1 == Len(fullTgt')
           c == Cardinality(stash)  c1 == Cardinality(stash')
           W(pc) == IF pc \in {"place", "back"} THEN 1 ELSE 0
<1>3. b \in Nat /\ g \in Nat /\ c \in Nat /\ freeTgt \in Nat
  BY CountsToo, QueueLengths, StashSizes
<1>4. AllTgts = freeTgt + g + c + W(writer) + b /\ AllTgts' = freeTgt' + g1 + c1 + W(writer') + b
  <2>1. AllTgts' = freeTgt' + g1 + c1 + W(writer') + At(HasTgt)'
    BY DEF AllTgts
  <2>2. At(HasTgt)' = b
    BY <1>2, AtStays
  <2> QED  BY <2>1, <2>2 DEF AllTgts
<1> SUFFICES Failed' \/ AllTgts' = AllTgts
  BY <1>1, <1>2 DEF TightInv, K
<1>5. CASE UNCHANGED <<freeTgt, fullTgt, stash>>
  <2>1. \/ Failed'
        \/ writer = "open" /\ writer' = "recv"
        \/ writer = "place" /\ writer' = "back"
        \/ writer = "recv" /\ writer' = "ok"
        \/ cur \notin stash /\ stash' = stash \cup {cur}
        \/ freeTgt' = freeTgt + 1
    BY <1>1, <1>5 DEF WriterMoves, Failed
  <2>2. ~(cur \notin stash /\ stash' = stash \cup {cur}) /\ freeTgt' # freeTgt + 1
    BY <1>3, <1>5
  <2>3. g1 = g /\ c1 = c
    BY <1>5
  <2> HIDE DEF b, c, g, c1, g1
  <2> QED  BY <1>3, <1>4, <1>5, <2>1, <2>2, <2>3
<1>6. CASE ~UNCHANGED <<freeTgt, fullTgt, stash>>
  <2>1. \/ /\ writer = "recv" /\ writer' = "place"
           /\ g1 = g - 1 /\ c1 = c /\ freeTgt' = freeTgt
        \/ /\ writer = "place" /\ writer' = "recv"
           /\ g1 = g /\ c1 = c + 1 /\ freeTgt' = freeTgt
        \/ /\ writer = "back" /\ writer' = "recv"
           /\ g1 = g /\ c1 = c /\ freeTgt' = freeTgt + 1
        \/ /\ writer = "back" /\ writer' = "place"
           /\ g1 = g /\ c1 = c - 1 /\ freeTgt' = freeTgt + 1
    BY <1>1, <1>6, QueueLengths, StashSizes DEF WriterMoves
  <2> HIDE DEF b, c, g, c1, g1
  <2> QED  BY <1>3, <1>4, <2>1
<1> QED
  BY <1>5, <1>6

LEMMA TightStep == ASSUME TypeOK, PathInv, TightInv, [Next]_vars PROVE TightInv'
<1>1. CASE Main \/ UNCHANGED vars
  <2>1. UNCHANGED <<reader, chanVars, worker, writer, stash>>
    BY <1>1 DEF Main, JoinReader, JoinAll, vars, readerVars, writerVars
  <2>2. AllTgts' = AllTgts /\ Srcs' = Srcs /\ Failed' = Failed
    BY <2>1, AtStays DEF AllTgts, Srcs, Failed, chanVars
  <2> QED  BY <2>1, <2>2 DEF TightInv, K
<1> QED
  BY <1>1, ReaderTight, WorkerTight, WriterTight DEF Next

LEMMA TightInit == ASSUME Init PROVE TightInv
<1>1. /\ {w \in Workers : worker[w].pc \in HasSrc} = Workers
      /\ {w \in Workers : worker[w].pc \in HasTgt} = Workers
  BY DEF Init, HasSrc, HasTgt
<1>2. At(HasSrc) = K /\ At(HasTgt) = K /\ K \in Nat
  BY <1>1, Constants DEF At, K
<1>3. /\ freeSrc = 0 /\ Len(fullSrc) = 0 /\ freeTgt = 0 /\ Len(fullTgt) = 0
      /\ Cardinality(stash) = 0 /\ reader # "read" /\ writer \notin {"place", "back"}
  BY FS_EmptySet DEF Init
<1>4. AllTgts = K
  BY <1>2, <1>3 DEF AllTgts
<1>5. Srcs = K
  BY <1>2, <1>3 DEF Srcs, HasSrc
<1> QED
  BY <1>4, <1>5 DEF TightInv

\* While a frame is stashed the next one is still on its way.
LEMMA StashWaits ==
    ASSUME IInv, ~Failed, writer = "recv", fullTgt = <<>>, \A w \in Workers : ~Holding(w)
    PROVE  stash = {}
<1> SUFFICES ASSUME stdout, NEW fr \in stash PROVE FALSE
  BY DEF IInv, OutInv
<1>1. /\ Len(out) = nextFr /\ nextFr \notin stash
      /\ \A i \in 1..Len(out) : out[i] = i - 1
  BY Constants DEF IInv, OutInv, TypeInv, TypeOK
<1>2. /\ fr \in Frames /\ fr \in Nat /\ nextFr \in Nat /\ First \in Nat
  BY FirstIs, Constants DEF IInv, PathInv, TypeInv, TypeOK
<1>3. fr < First
  BY PlacesAre DEF IInv, PathInv, Spread, Taken, Names
<1>4. fr \notin Elems(out)
  <2>1. Place("stash") \cap Place("out") = {}
    BY DEF IInv, PathInv, Spread, Apart, Names
  <2> QED  BY <2>1, PlacesAre
<1>5. nextFr < fr
  <2>1. fr < nextFr => fr + 1 \in 1..Len(out) /\ out[fr + 1] = fr
    BY <1>1, <1>2
  <2>2. ~(fr < nextFr)
    BY <1>4, <2>1 DEF Elems
  <2> QED  BY <1>1, <1>2, <2>2
<1>6. nextFr \in Frames /\ nextFr < First
  BY <1>2, <1>3, <1>5, SizeAssumption DEF Frames
<1>7. PICK p \in Names : nextFr \in Place(p)
  BY <1>6 DEF IInv, PathInv, Spread, Kept
<1>8. Place("worker") = {} /\ Place("fullTgt") = {} /\ Place("writer") = {}
  BY PlacesAre DEF Elems
<1>9. nextFr \notin Elems(out)
  BY <1>1, <1>2 DEF Elems
<1> QED
  BY <1>1, <1>7, <1>8, <1>9, PlacesAre DEF Names

\* The buffers that are not lost cannot all be where nobody needs one.
LEMMA NeverStuckFromInv == ASSUME IInv, TightInv PROVE NeverStuck
<1> SUFFICES ASSUME main # "returned", ~Failed, ~ReaderReady, ~WriterReady, ~MainReady,
                    \A w \in Workers : ~WorkerReady(w)
             PROVE  FALSE
  BY DEF NeverStuck
<1>1. TypeOK
  BY DEF IInv, TypeInv
<1>2. \A w \in Workers : worker[w].pc \in {"tgt", "src", "ok"}
  BY <1>1 DEF TypeOK, WorkerReady, Failed
<1>3. writer = "recv" /\ fullTgt = <<>> /\ ~FullTgtClosed
  <2>1. writer # "ok"
    BY <1>1 DEF IInv, EndInv, MainReady, WriterGone, Ended, TypeOK
  <2> QED  BY <1>1, <2>1 DEF WriterReady, TypeOK, Failed
<1>4. stash = {}
  BY <1>2, <1>3, StashWaits DEF Holding
<1>5. freeTgt \in Nat /\ At(HasTgt) \in Nat /\ K \in Nat /\ K > 0
  BY <1>1, CountsToo, Constants
<1>6. freeTgt + At(HasTgt) = K
  <2>1. Len(fullTgt) = 0 /\ Cardinality(stash) = 0 /\ writer \notin {"place", "back"}
    BY <1>3, <1>4, FS_EmptySet
  <2>2. AllTgts = K
    BY DEF TightInv
  <2> QED  BY <1>5, <2>1, <2>2 DEF AllTgts
<1>7. CASE main = "reader"
  <2>1. reader = "recv" /\ freeSrc = 0
    BY <1>1, <1>7, Constants DEF TypeOK, MainReady, ReaderReady, Ended
  <2>2. Srcs = K /\ At(HasSrc) = 0
    <3>1. {w \in Workers : worker[w].pc \in HasSrc} = {}
      BY <1>2 DEF HasSrc
    <3> QED  BY <2>1, <3>1, FS_EmptySet DEF TightInv, Ended, At
  <2>3. Len(fullSrc) = K
    BY <1>1, <2>1, <2>2, CountsToo, QueueLengths
  <2>4. fullSrc # <<>>
    BY <1>5, <2>3
  <2>5. \A w \in Workers : worker[w].pc = "tgt"
    BY <1>2, <2>1, <2>4 DEF WorkerReady, IInv, EndInv, Ended
  <2>6. At(HasTgt) = 0
    <3>1. {w \in Workers : worker[w].pc \in HasTgt} = {}
      BY <2>5 DEF HasTgt
    <3> QED  BY <3>1, FS_EmptySet DEF At
  <2>7. freeTgt > 0
    BY <1>5, <1>6, <2>6
  <2> QED  BY <2>5, <2>7, SizeAssumption DEF WorkerReady
<1>8. CASE main = "all"
  <2>1. FullSrcClosed
    BY <1>8 DEF IInv, EndInv, FullSrcClosed
  <2>2. \A w \in Workers : worker[w].pc \in {"tgt", "ok"}
    BY <1>2, <2>1 DEF WorkerReady
  <2>3. PICK w \in Workers : worker[w].pc = "tgt"
    BY <1>3, <1>8, <2>2 DEF FullTgtClosed, WorkersEnded, Ended
  <2>4. At(HasTgt) = K
    BY <1>5, <1>6, <2>3 DEF WorkerReady
  <2>5. {v \in Workers : worker[v].pc \in HasTgt} \subseteq Workers \ {w}
    BY <2>3 DEF HasTgt
  <2>6. IsFiniteSet(Workers \ {w}) /\ Cardinality(Workers \ {w}) = K - 1
    BY SizeAssumption, FS_RemoveElement DEF K
  <2>7. At(HasTgt) <= K - 1
    BY <2>5, <2>6, FS_Subset DEF At
  <2> QED  BY <1>5, <2>4, <2>7
<1> QED
  BY <1>1, <1>7, <1>8 DEF TypeOK

\* The reader, the workers, the writer and the caller of spmtsc never all wait
\* for each other while no worker and no writer has failed.
THEOREM NeverStuckHolds == Spec => []NeverStuck
<1>1. IInv => TypeOK /\ PathInv
  BY DEF IInv, TypeInv
<1> QED
  BY <1>1, InitInv, StepInv, TightInit, TightStep, NeverStuckFromInv, PTL DEF Spec

-----------------------------------------------------------------------------
(* How many steps are left at most.  A frame not yet read costs ten: two of *)
(* the reader, four of a worker, and four of the writer if it is stashed.  *)
(* A frame pays for the steps after the place it is in.                    *)

ReaderAt(pc) == CASE pc = "open" -> 3
                  [] pc = "recv" -> 2
                  [] pc = "read" -> 1
                  [] OTHER       -> 0
MainAt(pc)   == CASE pc = "reader" -> 2
                  [] pc = "all"    -> 1
                  [] OTHER         -> 0
WorkerAt(pc) == CASE pc = "start"   -> 2
                  [] pc = "tgt"     -> 2
                  [] pc = "src"     -> 1
                  [] pc = "process" -> 8
                  [] pc = "free"    -> 3
                  [] OTHER          -> 0
WriterAt(pc) == CASE pc = "open"  -> 2
                  [] pc = "recv"  -> 1
                  [] pc = "place" -> 4
                  [] pc = "back"  -> 3
                  [] OTHER        -> 0

ReaderLeft  == 10 * (NumFrames - next) + ReaderAt(reader)
WorkersLeft == 2 * At({"start"}) + 2 * At({"tgt"}) + At({"src"}) + 8 * At({"process"})
               + 3 * At({"free"})
WriterLeft  == 2 * Cardinality(stash) + WriterAt(writer)
QueuesLeft  == 8 * Len(fullSrc) + 4 * Len(fullTgt)

Left == ReaderLeft + WorkersLeft + WriterLeft + QueuesLeft + MainAt(main)

LEMMA AtsAre ==
    /\ \A pc : /\ ReaderAt(pc) \in 0..3 /\ MainAt(pc) \in 0..2
               /\ WorkerAt(pc) \in 0..8 /\ WriterAt(pc) \in 0..4
    /\ ReaderAt("open") = 3 /\ ReaderAt("recv") = 2 /\ ReaderAt("read") = 1
    /\ ReaderAt("ok") = 0 /\ ReaderAt("err") = 0
    /\ MainAt("reader") = 2 /\ MainAt("all") = 1 /\ MainAt("returned") = 0
    /\ WorkerAt("start") = 2 /\ WorkerAt("tgt") = 2 /\ WorkerAt("src") = 1
    /\ WorkerAt("process") = 8 /\ WorkerAt("free") = 3
    /\ WorkerAt("ok") = 0 /\ WorkerAt("err") = 0
    /\ WriterAt("open") = 2 /\ WriterAt("recv") = 1 /\ WriterAt("place") = 4
    /\ WriterAt("back") = 3 /\ WriterAt("ok") = 0 /\ WriterAt("err") = 0
  BY DEF ReaderAt, MainAt, WorkerAt, WriterAt

LEMMA WorkersLeftMoves ==
    ASSUME TypeOK, NEW w \in Workers, \A v \in Workers : v # w => worker'[v] = worker[v]
    PROVE  WorkersLeft' = WorkersLeft + WorkerAt(worker'[w].pc) - WorkerAt(worker[w].pc)
<1> DEFINE was == worker[w].pc  is == worker'[w].pc
           In(x, pc) == IF x = pc THEN 1 ELSE 0
<1>1. \A pc : At({pc}) \in Nat /\ At({pc})' = At({pc}) + In(is, pc) - In(was, pc)
  <2> TAKE pc
  <2>1. At({pc})' = At({pc}) + (IF is \in {pc} THEN 1 ELSE 0) - (IF was \in {pc} THEN 1 ELSE 0)
    BY AtMoves
  <2> QED  BY <2>1, AtIs
<1>2. /\ At({"start"}) \in Nat
      /\ At({"start"})' = At({"start"}) + In(is, "start") - In(was, "start")
      /\ At({"tgt"}) \in Nat /\ At({"tgt"})' = At({"tgt"}) + In(is, "tgt") - In(was, "tgt")
      /\ At({"src"}) \in Nat /\ At({"src"})' = At({"src"}) + In(is, "src") - In(was, "src")
      /\ At({"process"}) \in Nat
      /\ At({"process"})' = At({"process"}) + In(is, "process") - In(was, "process")
      /\ At({"free"}) \in Nat /\ At({"free"})' = At({"free"}) + In(is, "free") - In(was, "free")
  BY <1>1
<1> HIDE DEF was, is
<1>3. \A x : /\ In(x, "start") \in Nat /\ In(x, "tgt") \in Nat /\ In(x, "src") \in Nat
             /\ In(x, "process") \in Nat /\ In(x, "free") \in Nat
             /\ WorkerAt(x) = 2 * In(x, "start") + 2 * In(x, "tgt") + In(x, "src")
                              + 8 * In(x, "process") + 3 * In(x, "free")
  BY DEF WorkerAt
<1> HIDE DEF In
<1>4. WorkersLeft' = WorkersLeft + WorkerAt(is) - WorkerAt(was)
  BY <1>2, <1>3 DEF WorkersLeft
<1> QED
  BY <1>4 DEF was, is

\* What is left of each part is a number.
LEMMA LeftIs ==
    ASSUME TypeOK
    PROVE  /\ ReaderLeft \in Nat /\ WorkersLeft \in Nat /\ WriterLeft \in Nat
           /\ QueuesLeft \in Nat /\ MainAt(main) \in Nat /\ Left \in Nat
<1>1. ReaderLeft \in Nat
  <2>1. NumFrames - next \in Nat
    BY SizeAssumption DEF TypeOK
  <2> QED  BY <2>1, AtsAre DEF ReaderLeft
<1>2. WriterLeft \in Nat
  BY StashSizes, AtsAre DEF WriterLeft
<1>3. WorkersLeft \in Nat
  <2>1. /\ At({"start"}) \in Nat /\ At({"tgt"}) \in Nat /\ At({"src"}) \in Nat
        /\ At({"process"}) \in Nat /\ At({"free"}) \in Nat
    BY AtIs
  <2> QED  BY <2>1 DEF WorkersLeft
<1>4. QueuesLeft \in Nat
  BY QueueLengths DEF QueuesLeft
<1> QED
  BY <1>1, <1>2, <1>3, <1>4, AtsAre DEF Left

\* A frame enters or leaves a queue.
LEMMA QueuesMove ==
    ASSUME TypeOK
    PROVE  /\ fullSrc' = fullSrc /\ fullTgt' = fullTgt => QueuesLeft' = QueuesLeft
           /\ fullSrc' = Append(fullSrc, next) /\ fullTgt' = fullTgt =>
                 QueuesLeft' = QueuesLeft + 8
           /\ fullSrc # <<>> /\ fullSrc' = Tail(fullSrc) /\ fullTgt' = fullTgt =>
                 QueuesLeft' = QueuesLeft - 8
           /\ fullSrc' = fullSrc /\ (\E m : fullTgt' = Append(fullTgt, m)) =>
                 QueuesLeft' = QueuesLeft + 4
           /\ fullSrc' = fullSrc /\ fullTgt # <<>> /\ fullTgt' = Tail(fullTgt) =>
                 QueuesLeft' = QueuesLeft - 4
<1> DEFINE f == Len(fullSrc)  g == Len(fullTgt)  f1 == Len(fullSrc')  g1 == Len(fullTgt')
<1>1. /\ QueuesLeft = 8 * f + 4 * g /\ QueuesLeft' = 8 * f1 + 4 * g1
      /\ f \in Nat /\ g \in Nat
  BY QueueLengths DEF QueuesLeft
<1>2. /\ fullSrc' = fullSrc => f1 = f
      /\ fullTgt' = fullTgt => g1 = g
      /\ fullSrc' = Append(fullSrc, next) => f1 = f + 1
      /\ fullSrc # <<>> /\ fullSrc' = Tail(fullSrc) => f1 = f - 1
      /\ (\E m : fullTgt' = Append(fullTgt, m)) => g1 = g + 1
      /\ fullTgt # <<>> /\ fullTgt' = Tail(fullTgt) => g1 = g - 1
  BY QueueLengths
<1> HIDE DEF f, g, f1, g1
<1>3. /\ f1 = f /\ g1 = g => QueuesLeft' = QueuesLeft
      /\ f1 = f + 1 /\ g1 = g => QueuesLeft' = QueuesLeft + 8
      /\ f1 = f - 1 /\ g1 = g => QueuesLeft' = QueuesLeft - 8
      /\ f1 = f /\ g1 = g + 1 => QueuesLeft' = QueuesLeft + 4
      /\ f1 = f /\ g1 = g - 1 => QueuesLeft' = QueuesLeft - 4
  BY <1>1
<1> QED
  BY <1>2, <1>3

LEMMA ReaderSpends == ASSUME TypeOK, Reader PROVE Left' < Left
<1>1. UNCHANGED <<worker, fullTgt, writer, stash, main>>
  BY DEF Reader, ReaderOpen, ReaderRecv, ReaderFails, ReaderSend, ReaderDone, chanVars,
     writerVars, mainVars
<1>2. WorkersLeft' = WorkersLeft /\ WriterLeft' = WriterLeft /\ MainAt(main') = MainAt(main)
  BY <1>1 DEF WorkersLeft, At, WriterLeft
<1>3. next \in Nat /\ NumFrames \in Nat
  BY SizeAssumption DEF TypeOK
<1>4. CASE ReaderSend
  <2>1. QueuesLeft' = QueuesLeft + 8
    BY <1>1, <1>4, QueuesMove DEF ReaderSend
  <2>2. ReaderLeft' = ReaderLeft - 9
    BY <1>3, <1>4, AtsAre DEF ReaderSend, ReaderLeft
  <2> QED  BY <1>2, <2>1, <2>2, LeftIs DEF Left
<1>5. CASE ~ReaderSend
  <2>1. fullSrc' = fullSrc /\ next' = next
    BY <1>5 DEF Reader, ReaderOpen, ReaderRecv, ReaderFails, ReaderDone, chanVars
  <2>2. QueuesLeft' = QueuesLeft
    BY <1>1, <2>1, QueuesMove
  <2>3. ReaderAt(reader') < ReaderAt(reader)
    BY <1>5, AtsAre DEF Reader, ReaderOpen, ReaderRecv, ReaderFails, ReaderDone
  <2>4. ReaderLeft' < ReaderLeft /\ ReaderLeft' \in Int
    BY <1>3, <2>1, <2>3, AtsAre DEF ReaderLeft
  <2> QED  BY <1>2, <2>2, <2>4, LeftIs DEF Left
<1> QED
  BY <1>4, <1>5

LEMMA WorkerSpends == ASSUME TypeOK, NEW w \in Workers, Worker(w) PROVE Left' < Left
<1> DEFINE was == worker[w].pc  is == worker'[w].pc
<1>1. WorkerMoves(w)
  BY WorkerMovesSo
<1>2. /\ UNCHANGED <<reader, next, main, writer, stash>>
      /\ \A v \in Workers : v # w => worker'[v] = worker[v]
  BY <1>1 DEF WorkerMoves, readerVars, writerVars, mainVars
<1>3. ReaderLeft' = ReaderLeft /\ WriterLeft' = WriterLeft /\ MainAt(main') = MainAt(main)
  BY <1>2 DEF ReaderLeft, WriterLeft
<1>4. WorkersLeft' = WorkersLeft + WorkerAt(is) - WorkerAt(was)
  BY <1>2, WorkersLeftMoves
<1>5. WorkerAt(is) \in Nat /\ WorkerAt(was) \in Nat
  BY AtsAre
<1> SUFFICES QueuesLeft' \in Int /\ QueuesLeft' + WorkerAt(is) < QueuesLeft + WorkerAt(was)
  BY <1>3, <1>4, <1>5, LeftIs DEF Left
<1>6. \/ /\ \/ was = "start" /\ is = "src"
            \/ was = "free" /\ is = "tgt"
            \/ was = "tgt" /\ is = "src"
            \/ was = "src" /\ is = "ok"
            \/ was \in {"tgt", "process"} /\ is = "err"
         /\ QueuesLeft' = QueuesLeft
      \/ was = "src" /\ is = "process" /\ QueuesLeft' = QueuesLeft - 8
      \/ was = "process" /\ is = "free" /\ QueuesLeft' = QueuesLeft + 4
  BY <1>1, QueuesMove DEF WorkerMoves, chanVars
<1> HIDE DEF was, is
<1> QED
  BY <1>6, LeftIs, AtsAre

LEMMA WriterSpends == ASSUME TypeOK, PathInv, Writer PROVE Left' < Left
<1>1. WriterMoves
  BY WriterMovesSo
<1>2. UNCHANGED <<reader, next, main, worker, fullSrc>>
  BY <1>1 DEF WriterMoves, readerVars, mainVars
<1>3. ReaderLeft' = ReaderLeft /\ WorkersLeft' = WorkersLeft /\ MainAt(main') = MainAt(main)
  BY <1>2 DEF ReaderLeft, WorkersLeft, At
<1> DEFINE c == Cardinality(stash)  c1 == Cardinality(stash')
<1>4. c \in Nat /\ (stash' = stash => c1 = c)
  BY StashSizes
<1>5. WriterLeft = 2 * c + WriterAt(writer) /\ WriterLeft' = 2 * c1 + WriterAt(writer')
  BY DEF WriterLeft
<1> SUFFICES /\ QueuesLeft' \in Int /\ WriterLeft' \in Int
             /\ QueuesLeft' + WriterLeft' < QueuesLeft + WriterLeft
  BY <1>3, LeftIs DEF Left
<1>6. \/ /\ \/ writer = "open" /\ writer' = "recv"
            \/ writer = "place" /\ writer' = "back"
            \/ writer = "recv" /\ writer' = "ok"
            \/ writer \in {"open", "place"} /\ writer' = "err"
            \/ writer = "back" /\ writer' = "recv"
         /\ QueuesLeft' = QueuesLeft /\ c1 = c
      \/ writer = "recv" /\ writer' = "place" /\ QueuesLeft' = QueuesLeft - 4 /\ c1 = c
      \/ writer = "place" /\ writer' = "recv" /\ QueuesLeft' = QueuesLeft /\ c1 = c + 1
      \/ writer = "back" /\ writer' = "place" /\ QueuesLeft' = QueuesLeft /\ c1 = c - 1
  BY <1>1, <1>2, <1>4, QueuesMove, StashSizes DEF WriterMoves
<1> HIDE DEF c, c1
<1> QED
  BY <1>4, <1>5, <1>6, LeftIs, AtsAre

LEMMA MainSpends == ASSUME TypeOK, Main PROVE Left' < Left
<1>1. /\ UNCHANGED <<reader, next, worker, fullSrc, fullTgt, writer, stash>>
      /\ MainAt(main') < MainAt(main)
  BY AtsAre DEF Main, JoinReader, JoinAll, readerVars, chanVars, writerVars
<1>2. /\ ReaderLeft' = ReaderLeft /\ WorkersLeft' = WorkersLeft
      /\ WriterLeft' = WriterLeft /\ QueuesLeft' = QueuesLeft
  BY <1>1 DEF ReaderLeft, WorkersLeft, At, WriterLeft, QueuesLeft
<1> QED
  BY <1>1, <1>2, LeftIs, AtsAre DEF Left

\* Every step of spmtsc uses one up, whatever the threads do in which order, and
\* whatever fails.  With NeverStuck, threads that go on while they can bring the
\* call to its end in so many steps, unless a worker or the writer fails.
THEOREM StepsBounded ==
    Spec => /\ Left = 10 * NumFrames + 2 * K + 7
            /\ [](Left \in Nat)
            /\ [][Left' < Left]_vars
<1>1. ASSUME Init PROVE Left = 10 * NumFrames + 2 * K + 7
  <2>1. NumFrames \in Nat /\ K \in Nat
    BY Constants
  <2>2. {w \in Workers : worker[w].pc \in {"start"}} = Workers
    BY <1>1 DEF Init
  <2>3. At({"start"}) = K
    BY <2>2 DEF At, K
  <2>4. ASSUME NEW pc, pc # "start" PROVE At({pc}) = 0
    <3>1. {w \in Workers : worker[w].pc \in {pc}} = {}
      BY <1>1, <2>4 DEF Init
    <3> QED  BY <3>1, FS_EmptySet DEF At
  <2>5. /\ At({"tgt"}) = 0 /\ At({"src"}) = 0 /\ At({"process"}) = 0 /\ At({"free"}) = 0
    BY <2>4
  <2>6. WorkersLeft = 2 * K
    BY <2>1, <2>3, <2>5 DEF WorkersLeft
  <2>7. ReaderLeft = 10 * NumFrames + 3 /\ QueuesLeft = 0 /\ MainAt(main) = 2
    BY <1>1, <2>1, AtsAre DEF Init, ReaderLeft, QueuesLeft
  <2>8. WriterLeft = 2
    <3>1. Cardinality(stash) = 0 /\ writer = "open"
      BY <1>1, FS_EmptySet DEF Init
    <3> QED  BY <3>1, AtsAre DEF WriterLeft
  <2> QED
    BY <2>1, <2>6, <2>7, <2>8 DEF Left
<1>2. IInv /\ [Next]_vars => [Left' < Left]_vars
  BY ReaderSpends, WorkerSpends, WriterSpends, MainSpends DEF Next, IInv, TypeInv
<1>3. IInv => Left \in Nat
  BY LeftIs DEF IInv, TypeInv
<1> QED
  BY <1>1, <1>2, <1>3, Invariant, PTL DEF Spec

=============================================================================
