--------------------------- MODULE TokioHttp_proofs ---------------------------
(***************************************************************************)
(* What transcode_http keeps, for every header and frame size, every way   *)
(* of cutting the body into pieces and every number of workers and frames. *)
(*                                                                         *)
(* Reading: the frame buffer holds the bytes of its frame, each in its     *)
(* place.  BytesInPlace alone is not inductive: the piece carried over has *)
(* to be the bytes that follow those in the buffer, up to the last one     *)
(* received (ReadInv).  Every step of the ring, whatever the workers, the  *)
(* stream, the request and the server do meanwhile, is a step of ReadSpec  *)
(* or leaves the reading alone, so the frames of the ring are made of      *)
(* their own bytes too.                                                    *)
(*                                                                         *)
(* The ring: types, the order of the body that is sent, that no channel is *)
(* full when it is sent to, and the promise of the engines.  The room on   *)
(* the channels comes from counting buffer pairs against frames sent       *)
(* (BufferInv) and from placing what left ctx before what is on it         *)
(* (PlaceInv); the promise needs that a count is reported only at the end  *)
(* of the stream, and is that of the frames sent (EndInv).                 *)
(*                                                                         *)
(* That nobody is stuck needs the exact count of the buffer pairs          *)
(* (FlowInv), that every frame that left ctx is in one place until a       *)
(* worker or the stream ends with it (PathInv), that a waiting stream does *)
(* not hold the frame whose turn it is (WaitInv), and that the end marks   *)
(* on wq and those counted are those sent (ByeInv).                        *)
(***************************************************************************)
EXTENDS TokioHttp, FiniteSetTheorems, Integers, TLAPS

-----------------------------------------------------------------------------
(* Reading the body: the theorems of HttpRead. *)

\* The position of the first byte of the frame that is read.
Start == HeaderSize + fr * FrameSize

ReadInv ==
    /\ got \in Nat /\ fr \in Nat
    /\ carry \in Seq(Nat) /\ buf \in Seq(Nat)
    /\ Len(buf) <= FrameSize
    /\ got = 0 => carry = <<>> /\ buf = <<>> /\ fr = 0
    /\ got > 0 => got = Start + Len(buf) + Len(carry)
    /\ \A i \in 1..Len(buf) : buf[i] = Start + i - 1
    /\ \A i \in 1..Len(carry) : carry[i] = Start + Len(buf) + i - 1

\* Where the next frame starts.
LEMMA NextStart ==
    ASSUME NEW n \in Nat
    PROVE  /\ n * FrameSize \in Nat
           /\ (n + 1) * FrameSize = n * FrameSize + FrameSize
<1>1. FrameSize \in Int /\ FrameSize >= 0 /\ n \in Int /\ n >= 0
  BY SizesAssumption
<1>2. \A a, b \in Int : (a + 1) * b = a * b + b
  OBVIOUS
<1>3. \A a, b \in Int : a >= 0 /\ b >= 0 => a * b \in Int /\ a * b >= 0
  OBVIOUS
<1> QED
  BY <1>1, <1>2, <1>3

\* What is left of a piece when its first k bytes are taken.
LEMMA RestIs ==
    ASSUME NEW s \in Seq(Nat), NEW k \in Nat, k <= Len(s)
    PROVE  LET r == SubSeq(s, k + 1, Len(s)) IN
           /\ r \in Seq(Nat) /\ Len(r) = Len(s) - k
           /\ \A i \in 1..Len(r) : r[i] = s[i + k] /\ i + k \in 1..Len(s)
<1> DEFINE r == SubSeq(s, k + 1, Len(s))
<1>1. r \in Seq(Nat) /\ Len(r) = Len(s) - k
  OBVIOUS
<1>2. ASSUME NEW i \in 1..Len(r) PROVE r[i] = s[i + k] /\ i + k \in 1..Len(s)
  <2>1. i \in 1..(Len(s) - k) /\ i + k \in 1..Len(s) /\ (k + 1) + i - 1 = i + k
    BY <1>1
  <2>2. r[i] = s[(k + 1) + i - 1]
    BY <2>1
  <2> QED  BY <2>1, <2>2
<1> QED  BY <1>1, <1>2

LEMMA StartType == ReadInv => Start \in Nat
<1> SUFFICES ASSUME ReadInv PROVE Start \in Nat
  OBVIOUS
<1>1. fr \in Nat
  BY DEF ReadInv
<1>2. fr * FrameSize \in Nat
  BY <1>1, NextStart
<1> QED
  BY <1>2, SizesAssumption DEF Start

\* The piece delivered after got bytes.
LEMMA ChunkIs ==
    ASSUME NEW n \in Nat, got \in Nat
    PROVE  /\ Chunk(n) \in Seq(Nat) /\ Len(Chunk(n)) = n
           /\ \A i \in 1..n : Chunk(n)[i] = got + i - 1
<1>1. \A i \in 1..n : got + i - 1 \in Nat
  OBVIOUS
<1> QED
  BY <1>1 DEF Chunk

LEMMA SplitHeaderInv ==
    ASSUME ReadInv, NEW n \in ChunkSizes, SplitHeader(n)
    PROVE  ReadInv'
<1>1. n \in Nat /\ n >= HeaderSize /\ HeaderSize \in Nat \ {0} /\ n > 0
  BY SizesAssumption DEF SplitHeader
<1>2. got = 0 /\ got' = n /\ fr' = fr /\ buf' = buf /\ fr = 0 /\ buf = <<>>
  BY DEF SplitHeader, ReadInv
<1>3. carry' = SubSeq(Chunk(n), HeaderSize + 1, n)
  BY DEF SplitHeader
<1>4. /\ carry' \in Seq(Nat) /\ Len(carry') = n - HeaderSize
      /\ \A i \in 1..Len(carry') : carry'[i] = HeaderSize + i - 1
  <2>1. /\ Chunk(n) \in Seq(Nat) /\ Len(Chunk(n)) = n
        /\ \A i \in 1..n : Chunk(n)[i] = i - 1
    BY <1>1, <1>2, ChunkIs
  <2> DEFINE c == Chunk(n)
  <2>2. carry' = SubSeq(c, HeaderSize + 1, Len(c)) /\ c \in Seq(Nat) /\ Len(c) = n
    BY <1>3, <2>1
  <2> HIDE DEF c
  <2>3. /\ carry' \in Seq(Nat) /\ Len(carry') = n - HeaderSize
        /\ \A i \in 1..Len(carry') : carry'[i] = c[i + HeaderSize]
    BY <1>1, <2>2, RestIs
  <2>4. \A i \in 1..Len(carry') : i + HeaderSize \in 1..n
    BY <1>1, <2>3
  <2> QED  BY <1>1, <2>1, <2>3, <2>4 DEF c
<1>5. Start' = HeaderSize
  BY <1>1, <1>2, SizesAssumption DEF Start
<1> QED
  BY <1>1, <1>2, <1>4, <1>5, SizesAssumption DEF ReadInv

LEMMA NextChunkInv == ASSUME ReadInv, got > 0, NextChunk PROVE ReadInv'
<1>1. PICK n \in ChunkSizes : carry' = Chunk(n) /\ got' = got + n
  BY DEF NextChunk
<1>2. n \in Nat /\ got \in Nat
  BY SizesAssumption DEF ReadInv
<1>3. fr' = fr /\ buf' = buf /\ carry = <<>> /\ Start' = Start
  BY DEF NextChunk, Start
<1>4. got = Start + Len(buf)
  BY <1>3, StartType DEF ReadInv
<1>5. /\ carry' \in Seq(Nat) /\ Len(carry') = n
      /\ \A i \in 1..n : carry'[i] = got + i - 1
  BY <1>1, <1>2, ChunkIs
<1> QED
  BY SMTT(30), <1>1, <1>2, <1>3, <1>4, <1>5, StartType DEF ReadInv

LEMMA TakeAllInv == ASSUME ReadInv, got > 0, TakeAll PROVE ReadInv'
<1>1. /\ got' = got /\ fr' = fr /\ carry' = <<>> /\ buf' = buf \o carry
      /\ Len(carry) <= FrameSize - Len(buf) /\ Start' = Start
  BY DEF TakeAll, ToRead, Start
<1>2. buf \in Seq(Nat) /\ carry \in Seq(Nat) /\ Start \in Nat
  BY StartType DEF ReadInv
<1>3. buf' \in Seq(Nat) /\ Len(buf') = Len(buf) + Len(carry)
  BY <1>1, <1>2
<1>4. ASSUME NEW i \in 1..Len(buf') PROVE buf'[i] = Start + i - 1
  <2>1. CASE i <= Len(buf)
    <3>1. buf'[i] = buf[i] /\ i \in 1..Len(buf)
      BY <1>1, <1>2, <1>3, <2>1
    <3> QED  BY <3>1 DEF ReadInv
  <2>2. CASE i > Len(buf)
    <3>1. buf'[i] = carry[i - Len(buf)] /\ i - Len(buf) \in 1..Len(carry)
      BY <1>1, <1>2, <1>3, <2>2
    <3> QED  BY <1>2, <3>1 DEF ReadInv
  <2> QED  BY <1>2, <1>3, <2>1, <2>2
<1> QED
  BY <1>1, <1>2, <1>3, <1>4, SizesAssumption DEF ReadInv

LEMMA TakePartInv == ASSUME ReadInv, got > 0, TakePart PROVE ReadInv'
<1> DEFINE k == FrameSize - Len(buf)
<1>1. /\ got' = got /\ fr' = fr /\ Start' = Start
      /\ buf' = buf \o SubSeq(carry, 1, k)
      /\ carry' = SubSeq(carry, k + 1, Len(carry))
      /\ k > 0 /\ Len(carry) > k
  BY DEF TakePart, ToRead, Start
<1>2. buf \in Seq(Nat) /\ carry \in Seq(Nat) /\ Start \in Nat /\ k \in Nat
  BY <1>1, StartType, SizesAssumption DEF ReadInv
<1> HIDE DEF k
<1>3. /\ carry' \in Seq(Nat) /\ Len(carry') = Len(carry) - k
      /\ \A i \in 1..Len(carry') : carry'[i] = carry[i + k]
  BY <1>1, <1>2, RestIs
<1>4. /\ SubSeq(carry, 1, k) \in Seq(Nat) /\ Len(SubSeq(carry, 1, k)) = k
      /\ \A i \in 1..k : SubSeq(carry, 1, k)[i] = carry[i]
  BY <1>1, <1>2
<1>5. buf' \in Seq(Nat) /\ Len(buf') = Len(buf) + k /\ Len(buf') = FrameSize
  BY <1>1, <1>2, <1>4, SizesAssumption DEF k
<1>6. ASSUME NEW i \in 1..Len(buf') PROVE buf'[i] = Start + i - 1
  <2>1. CASE i <= Len(buf)
    <3>1. buf'[i] = buf[i] /\ i \in 1..Len(buf)
      BY <1>1, <1>2, <1>4, <1>5, <2>1
    <3> QED  BY <3>1 DEF ReadInv
  <2>2. CASE i > Len(buf)
    <3>1. /\ buf'[i] = SubSeq(carry, 1, k)[i - Len(buf)]
          /\ i - Len(buf) \in 1..k
      BY <1>1, <1>2, <1>4, <1>5, <2>2
    <3>2. buf'[i] = carry[i - Len(buf)] /\ i - Len(buf) \in 1..Len(carry)
      BY SMTT(30), <1>1, <1>2, <1>4, <3>1
    <3> QED  BY <1>2, <3>2 DEF ReadInv
  <2> QED  BY <1>2, <1>5, <2>1, <2>2
<1>7. ASSUME NEW i \in 1..Len(carry')
      PROVE  carry'[i] = Start + Len(buf') + i - 1
  <2>1. carry'[i] = carry[i + k] /\ i + k \in 1..Len(carry)
    BY <1>1, <1>2, <1>3
  <2> QED  BY <1>2, <1>5, <2>1 DEF ReadInv
<1>8. got \in Nat /\ fr \in Nat /\ got = Start + Len(buf) + Len(carry)
  BY DEF ReadInv
<1>9. got' = Start' + Len(buf') + Len(carry')
  <2>1. /\ Len(buf') = Len(buf) + k /\ Len(carry') = Len(carry) - k
        /\ Start' = Start /\ got' = got
    BY <1>1, <1>3, <1>5
  <2>2. Len(buf) \in Nat /\ Len(carry) \in Nat /\ k \in Nat /\ Start \in Nat
    BY <1>2
  <2>3. got = Start + Len(buf) + Len(carry)
    BY <1>8
  <2> QED  BY <2>1, <2>2, <2>3
<1>10. Len(buf') <= FrameSize /\ got' = got /\ fr' = fr /\ Start' = Start
  BY <1>1, <1>5, SizesAssumption
<1>11. carry' \in Seq(Nat) /\ buf' \in Seq(Nat)
  BY <1>3, <1>5
<1>12. got' > 0
  BY <1>10
<1> QED
  BY <1>6, <1>7, <1>8, <1>9, <1>10, <1>11, <1>12 DEF ReadInv

LEMMA NextFrameInv == ASSUME ReadInv, got > 0, NextFrame PROVE ReadInv'
<1>1. /\ got' = got /\ carry' = carry /\ fr' = fr + 1 /\ buf' = <<>>
      /\ FrameSize - Len(buf) = 0
  BY DEF NextFrame, FrameRead, ToRead
<1>2. fr \in Nat /\ buf \in Seq(Nat) /\ carry \in Seq(Nat) /\ Start \in Nat
  BY StartType DEF ReadInv
<1>3. Start' = Start + FrameSize /\ Len(buf) = FrameSize
  BY <1>1, <1>2, NextStart, SizesAssumption DEF Start
<1> QED
  BY <1>1, <1>2, <1>3, SizesAssumption DEF ReadInv

LEMMA ReadInvInit == ReadInit => ReadInv
  BY SizesAssumption DEF ReadInit, ReadInv

LEMMA ReadInvStep == ReadInv /\ [ReadNext]_readVars => ReadInv'
<1> SUFFICES ASSUME ReadInv, [ReadNext]_readVars PROVE ReadInv'
  OBVIOUS
<1>1. ASSUME NEW n \in ChunkSizes, SplitHeader(n) PROVE ReadInv'
  BY <1>1, SplitHeaderInv
<1>2. CASE got > 0 /\ NextChunk  BY <1>2, NextChunkInv
<1>3. CASE got > 0 /\ TakeAll    BY <1>3, TakeAllInv
<1>4. CASE got > 0 /\ TakePart   BY <1>4, TakePartInv
<1>5. CASE got > 0 /\ NextFrame  BY <1>5, NextFrameInv
<1>6. CASE UNCHANGED readVars
  BY <1>6 DEF readVars, ReadInv, Start
<1> QED
  BY <1>1, <1>2, <1>3, <1>4, <1>5, <1>6 DEF ReadNext

\* ReadInv is an invariant of the reading.
THEOREM ReadInvHolds == ReadSpec => []ReadInv
  BY ReadInvInit, ReadInvStep, PTL DEF ReadSpec

\* Whatever the pieces, a frame is made of its own bytes, in order
\* (tokioworker.rs, the loop over chunk() in transcode_http).
THEOREM BytesInPlaceHolds == ReadSpec => []BytesInPlace
<1>1. ReadInv => BytesInPlace
  BY DEF ReadInv, BytesInPlace, Start
<1> QED
  BY <1>1, ReadInvHolds, PTL

-----------------------------------------------------------------------------
(* The ring reads as HttpRead says. *)

\* The loop is entered with the header read.
Entered == main \in {"buffer", "read", "send"} => got > 0

LEMMA EnteredInit == Init => ReadInit /\ Entered
  BY DEF Init, ReadInit, Entered

\* Only the opening, the reading and the sending of a frame touch readVars.
LEMMA StepKinds ==
    ASSUME [Next]_vars
    PROVE  \/ Open
           \/ MainRead /\ UNCHANGED main
           \/ MainSend
           \/ UNCHANGED readVars /\ (UNCHANGED main \/ main \in {"buffer", "read"})
           \/ UNCHANGED readVars /\ main' \in {"join", "returned", "panicked"}
<1>1. CASE Caller
  <2>1. CASE Open  BY <2>1
  <2>2. CASE OpenFails  BY <2>2 DEF OpenFails, Return, Panic
  <2>3. CASE MainFresh \/ MainRecycle \/ MainOrphaned \/ MainFilled \/ MainEof
    BY <2>3 DEF MainFresh, MainRecycle, MainOrphaned, MainFilled, MainEof
  <2>4. CASE MainRead  BY <2>4 DEF MainRead, mainVars
  <2>5. CASE MainReadFails \/ MainJoinPut \/ MainJoinWorkers
    BY <2>5 DEF MainReadFails, MainJoinPut, MainJoinWorkers, Return, Panic
  <2>6. CASE MainSend  BY <2>6
  <2> QED  BY <1>1, <2>1, <2>2, <2>3, <2>4, <2>5, <2>6 DEF Caller
<1>2. CASE Stream
  BY <1>2 DEF Stream, StreamHeader, StreamRecv, StreamBye, StreamClosed,
              StreamStash, StreamYield, StreamBack, mainVars
<1>3. CASE Request
  BY <1>3 DEF Request, PutEnds, StreamDropped, mainVars
<1>4. ASSUME NEW w \in Workers, Worker(w)
      PROVE  UNCHANGED readVars /\ UNCHANGED main
  BY <1>4 DEF Worker, WorkerRecv, WorkerClosed, WorkerProcess, WorkerSend,
              WorkerBye, mainVars
<1>5. CASE UNCHANGED vars
  BY <1>5 DEF vars, mainVars
<1> QED
  BY <1>1, <1>2, <1>3, <1>4, <1>5 DEF Next

LEMMA StepReads ==
    ASSUME Entered, ReadInv, [Next]_vars
    PROVE  [ReadNext]_readVars
<1>1. CASE Open
  <2>1. PICK n \in ChunkSizes : SplitHeader(n)
    BY <1>1 DEF Open
  <2> QED  BY <2>1 DEF ReadNext
<1>2. CASE MainRead
  <2>1. got > 0  BY <1>2 DEF MainRead, Entered
  <2> QED  BY <1>2, <2>1 DEF MainRead, ReadNext
<1>3. CASE MainSend
  <2>1. got > 0  BY <1>3 DEF MainSend, Entered
  <2> QED  BY <1>3, <2>1 DEF MainSend, ReadNext
<1> QED
  BY <1>1, <1>2, <1>3, StepKinds

LEMMA EnteredStep ==
    ASSUME Entered, ReadInv, [Next]_vars
    PROVE  Entered'
<1>1. CASE Open
  <2>1. PICK n \in ChunkSizes : SplitHeader(n)
    BY <1>1 DEF Open
  <2>2. got' > 0
    BY <2>1, SizesAssumption DEF SplitHeader
  <2> QED  BY <2>2 DEF Entered
<1>2. CASE MainRead /\ UNCHANGED main
  <2>1. got > 0 /\ got \in Nat
    BY <1>2 DEF MainRead, Entered, ReadInv
  <2>2. got' >= got
    BY <1>2, <2>1, SizesAssumption
       DEF MainRead, NextChunk, TakeAll, TakePart
  <2>3. ReadInv'
    BY ReadInvStep, StepReads
  <2>4. got' \in Nat
    BY <2>3 DEF ReadInv
  <2>5. got' > 0
    BY <2>1, <2>2, <2>4
  <2> QED  BY <2>5 DEF Entered
<1>3. CASE MainSend
  <2>1. got > 0 /\ got' = got
    BY <1>3 DEF MainSend, NextFrame, Entered
  <2> QED  BY <2>1 DEF Entered
<1>4. CASE UNCHANGED readVars /\ (UNCHANGED main \/ main \in {"buffer", "read"})
  BY <1>4 DEF Entered, readVars
<1>5. CASE UNCHANGED readVars /\ main' \in {"join", "returned", "panicked"}
  BY <1>5 DEF Entered
<1> QED
  BY <1>1, <1>2, <1>3, <1>4, <1>5, StepKinds

\* transcode_http implements HttpRead.
THEOREM ReadsTheBody == Spec => ReadSpec
<1>1. Init => ReadInit /\ Entered /\ ReadInv
  BY EnteredInit, ReadInvInit
<1>2. Entered /\ ReadInv /\ [Next]_vars => Entered' /\ ReadInv' /\ [ReadNext]_readVars
  BY StepReads, EnteredStep, ReadInvStep
<1> QED
  BY <1>1, <1>2, PTL DEF Spec, ReadSpec

\* Every frame the workers get holds the bytes of its own place in the body.
THEOREM FramesInPlace == Spec => []BytesInPlace
  BY ReadsTheBody, BytesInPlaceHolds, PTL

-----------------------------------------------------------------------------
(* The ring. *)

\* Worker w has a frame.
Holding(w) == worker[w].pc \in {"process", "send"}

\* The oldest frame on ctx, or the next one if ctx is empty.
First == fr - Len(ctx)

\* The frames read or being read: for each the caller has taken a buffer pair.
Taken == fr + (IF main \in {"read", "send"} THEN 1 ELSE 0)

TypeInv ==
    /\ TypeOK
    /\ main \in {"read", "send"} => fr < NumFrames
    /\ \A w \in Workers : Holding(w) => worker[w].fr \in Frames
    /\ stream = "place" => cur \in Frames
    /\ stream \in {"recv", "place", "back"} => numExited < N
    /\ main = "get" => stream = "idle" /\ put = "idle" /\ numExited = 0

BufferInv ==
    ~StreamGone =>
        Taken + rq + (IF stream = "back" THEN 1 ELSE 0)
            <= numWritten + (IF Taken < N THEN Taken ELSE N)

\* Whatever left ctx is older than what is on it.
PlaceInv ==
    /\ Len(ctx) <= fr /\ numWritten <= First
    /\ \A i \in 1..Len(ctx) : ctx[i] = First + i - 1
    /\ \A w \in Workers : Holding(w) => worker[w].fr < First
    /\ \A i \in 1..Len(wq) : wq[i] \in Frames => wq[i] < First
    /\ stream = "place" => cur < First
    /\ \A k \in reorder : k < First

EndInv ==
    /\ result = "none" <=> ~Ended
    /\ main = "join" \/ result = "ok" => put = "Ok"
    /\ reported # 0 => stream = "ended" /\ reported = numWritten

-----------------------------------------------------------------------------
(* Types. *)

LEMMA Constants == NumFrames \in Nat /\ Frames \subseteq Nat
                   /\ Bye \notin Frames /\ Hdr \notin Frames /\ Bye # Hdr
  BY FramesAssumption, MessageAssumption DEF Frames

\* num_workers is a number, as the pool is a part of a finite set.
LEMMA PoolSize == pool \subseteq Workers => N \in Nat
  BY FramesAssumption, FS_Subset, FS_CardinalityType DEF N

LEMMA TypeInit == Init => TypeInv
<1> SUFFICES ASSUME Init PROVE TypeInv
  OBVIOUS
<1>1. got \in Nat /\ carry \in Seq(Nat) /\ fr = 0 /\ buf \in Seq(Nat)
  BY DEF Init, ReadInit
<1>2. pool \subseteq Workers /\ main = "get" /\ stream = "idle" /\ put = "idle"
      /\ result = "none"
  BY DEF Init
<1>3. N \in Nat
  BY <1>2, PoolSize
<1>4. worker \in [Workers -> [pc : {"idle", "recv", "process", "send", "bye", "exited",
                                  "failed", "panicked"}, fr : Nat]]
  BY DEF Init
<1>5. sent \in [Workers -> BOOLEAN]
  BY DEF Init
<1>6. ctx \in Seq(Frames) /\ wq \in Seq(Frames \cup {Bye, Hdr})
      /\ out \in Seq(Frames \cup {Hdr})
  BY DEF Init
<1>7. /\ fr \in 0..NumFrames /\ numWritten \in 0..NumFrames
      /\ reported \in 0..NumFrames /\ numExited \in 0..N /\ rq \in 0..N
      /\ cur \in Nat /\ reorder \in SUBSET Frames /\ numExited = 0
  BY <1>1, <1>3, Constants, SMT DEF Init
<1>8. TypeOK
  BY <1>1, <1>2, <1>4, <1>5, <1>6, <1>7 DEF TypeOK, Errors
<1>9. \A w \in Workers : ~Holding(w)
  BY DEF Init, Holding
<1> QED
  BY <1>2, <1>7, <1>8, <1>9 DEF TypeInv

\* A step of the caller that hands on no frame and makes no channel.
LEMMA CallerTypes ==
    ASSUME TypeInv, ReadInv',
           UNCHANGED <<pool, ctx, workerVars, wq, streamVars, put, reported>>,
           fr' = fr, main' # "get",
           main' \in {"read", "send"} => fr < NumFrames,
           main' \in {"buffer", "read", "send", "await", "join", "returned", "panicked"},
           rq' \in 0..N,
           result' \in {"none", "ok", "panic"} \cup Errors
    PROVE  TypeInv'
<1>1. N' = N
  BY DEF N
<1>2. got' \in Nat /\ carry' \in Seq(Nat) /\ buf' \in Seq(Nat)
  BY DEF ReadInv
<1>3. TypeOK'
  BY <1>1, <1>2 DEF TypeInv, TypeOK, workerVars, streamVars
<1> QED
  BY <1>1, <1>3 DEF TypeInv, Holding, workerVars, streamVars

LEMMA OpenTypes == ASSUME TypeInv, ReadInv', Open PROVE TypeInv'
<1>1. N' = N /\ N > 0 /\ numExited = 0
  BY DEF Open, N, TypeInv
<1>2. got' \in Nat /\ carry' \in Seq(Nat) /\ buf' \in Seq(Nat) /\ fr' = fr
  BY DEF Open, ReadInv, SplitHeader
<1>3. /\ wq' = <<Hdr>> /\ stream' = "recv" /\ put' = "sending" /\ main' = "buffer"
      /\ UNCHANGED <<pool, ctx, sent, cur, reorder, numWritten, numExited, out,
                     rq, reported, result>>
  BY DEF Open
<1>4. wq' \in Seq(Frames \cup {Bye, Hdr})
  BY <1>3
<1>5. worker' = [w \in Workers |->
                   IF w \in pool THEN [worker[w] EXCEPT !.pc = "recv"] ELSE worker[w]]
  BY DEF Open
<1>6. /\ worker' \in [Workers -> [pc : {"idle", "recv", "process", "send", "bye",
                                     "exited", "failed", "panicked"}, fr : Nat]]
      /\ \A w \in Workers : Holding(w)' => Holding(w) /\ worker'[w].fr = worker[w].fr
  BY <1>5 DEF TypeInv, TypeOK, Holding
<1>7. TypeOK'
  BY <1>1, <1>2, <1>3, <1>4, <1>6 DEF TypeInv, TypeOK
<1> QED
  BY <1>1, <1>3, <1>6, <1>7 DEF TypeInv

LEMMA MainSendTypes == ASSUME TypeInv, ReadInv', MainSend PROVE TypeInv'
<1>1. fr \in Frames /\ ctx' \in Seq(Frames) /\ fr' \in 0..NumFrames
  BY FramesAssumption DEF MainSend, NextFrame, TypeInv, TypeOK, Frames
<1>2. got' \in Nat /\ carry' \in Seq(Nat) /\ buf' \in Seq(Nat) /\ N' = N
  BY DEF ReadInv, MainSend, N
<1>3. /\ UNCHANGED <<pool, workerVars, wq, streamVars, rq, putVars, result>>
      /\ main' = "buffer"
  BY DEF MainSend
<1>4. TypeOK'
  BY <1>1, <1>2, <1>3 DEF TypeInv, TypeOK, workerVars, streamVars, putVars
<1> QED
  BY <1>2, <1>3, <1>4 DEF TypeInv, Holding, workerVars, streamVars, putVars

LEMMA CallTypes == ASSUME TypeInv, ReadInv', Caller PROVE TypeInv'
<1>0. rq \in 0..N /\ fr \in 0..NumFrames /\ N \in Nat /\ NumFrames \in Nat
      /\ result \in {"none", "ok", "panic"} \cup Errors
  BY PoolSize, Constants DEF TypeInv, TypeOK
<1>1. CASE OpenFails
  BY <1>0, <1>1, CallerTypes DEF OpenFails, Return, Panic, readVars, putVars, Errors
<1>2. CASE MainFresh \/ MainOrphaned
  BY <1>0, <1>2, CallerTypes DEF MainFresh, MainOrphaned, readVars, putVars
<1>3. CASE MainRecycle
  BY <1>0, <1>3, CallerTypes DEF MainRecycle, readVars, putVars
<1>4. CASE MainRead
  <2>1. fr' = fr /\ main' = main
    BY <1>4 DEF MainRead, NextChunk, TakeAll, TakePart, mainVars
  <2>2. main = "read" /\ fr < NumFrames
    BY <1>4 DEF MainRead, TypeInv
  <2> QED
    BY <1>0, <1>4, <2>1, <2>2, CallerTypes DEF MainRead, mainVars, putVars
<1>5. CASE MainReadFails
  BY <1>0, <1>5, CallerTypes DEF MainReadFails, Return, readVars, putVars, Errors
<1>6. CASE MainFilled
  <2>1. fr < NumFrames
    BY <1>6 DEF MainFilled, TypeInv
  <2> QED
    BY <1>0, <1>6, <2>1, CallerTypes DEF MainFilled, readVars, putVars
<1>7. CASE MainEof
  BY <1>0, <1>7, CallerTypes DEF MainEof, readVars, putVars
<1>8. CASE MainJoinPut
  BY <1>0, <1>8, CallerTypes DEF MainJoinPut, Return, readVars, putVars, Errors
<1>9. CASE MainJoinWorkers
  BY <1>0, <1>9, CallerTypes DEF MainJoinWorkers, Return, Panic, readVars, putVars
<1> QED
  BY <1>1, <1>2, <1>3, <1>4, <1>5, <1>6, <1>7, <1>8, <1>9, OpenTypes, MainSendTypes
     DEF Caller

LEMMA WorkerTypes == ASSUME TypeInv, NEW w \in Workers, Worker(w) PROVE TypeInv'
<1>0. UNCHANGED <<readVars, mainVars, streamVars, rq, putVars, result>> /\ N' = N
  BY DEF Worker, WorkerRecv, WorkerClosed, WorkerProcess, WorkerSend, WorkerBye, N,
         mainVars
<1>1. CASE WorkerRecv(w)
  <2>0. ctx \in Seq(Frames) /\ ctx # <<>> /\ ctx' = Tail(ctx)
    BY <1>1 DEF WorkerRecv, TypeInv, TypeOK
  <2>a. Head(ctx) \in Frames /\ ctx' \in Seq(Frames)
    BY <2>0
  <2>1. Head(ctx) \in Frames /\ ctx' \in Seq(Frames) /\ Head(ctx) \in Nat
    BY <2>a, Constants
  <2>2. UNCHANGED <<wq, sent>>
        /\ worker' = [worker EXCEPT ![w] = [pc |-> "process", fr |-> Head(ctx)]]
    BY <1>1 DEF WorkerRecv
  <2>3. TypeOK'
    BY <1>0, <2>1, <2>2 DEF TypeInv, TypeOK, readVars, mainVars, streamVars, putVars
  <2> QED
    BY <1>0, <2>1, <2>2, <2>3
       DEF TypeInv, TypeOK, Holding, readVars, mainVars, streamVars, putVars
<1>2. ASSUME NEW pc \in {"recv", "send", "bye", "exited", "failed", "panicked"},
             Go(w, pc), UNCHANGED ctx, pc = "send" => Holding(w),
             wq' \in Seq(Frames \cup {Bye, Hdr}),
             sent' \in [Workers -> BOOLEAN]
      PROVE  TypeInv'
  <2>1. TypeOK'
    <3>1. worker' \in [Workers -> [pc : {"idle", "recv", "process", "send", "bye", "exited",
                                        "failed", "panicked"}, fr : Nat]]
      BY <1>2 DEF Go, TypeInv, TypeOK
    <3>2. /\ TypeOK /\ UNCHANGED <<got, carry, fr, buf, pool, main, ctx, stream, cur, reorder,
                                   numWritten, numExited, out, rq, put, reported, result>>
      BY <1>0, <1>2 DEF TypeInv, readVars, mainVars, streamVars, putVars
    <3> QED
      BY <1>0, <1>2, <3>1, <3>2 DEF TypeOK
  <2> QED
    BY SMTT(30), <1>0, <1>2, <2>1
       DEF Go, TypeInv, TypeOK, Holding, readVars, mainVars, streamVars, putVars
<1>3. wq \in Seq(Frames \cup {Bye, Hdr}) /\ sent \in [Workers -> BOOLEAN]
  BY DEF TypeInv, TypeOK
<1>4. CASE WorkerClosed(w)
  BY <1>2, <1>3, <1>4 DEF WorkerClosed
<1>5. CASE WorkerProcess(w)
  BY <1>2, <1>3, <1>5 DEF WorkerProcess, Holding
<1>6. CASE WorkerSend(w)
  <2>1. worker[w].fr \in Frames
    BY <1>6 DEF WorkerSend, TypeInv, Holding
  <2>2. CASE StreamGone
    BY <1>2, <1>3, <1>6, <2>2 DEF WorkerSend
  <2>3. CASE ~StreamGone
    <3>1. /\ wq' = Append(wq, worker[w].fr) /\ sent' = [sent EXCEPT ![w] = TRUE]
          /\ Go(w, "recv") /\ UNCHANGED ctx
      BY <1>6, <2>3 DEF WorkerSend
    <3>2. wq' \in Seq(Frames \cup {Bye, Hdr}) /\ sent' \in [Workers -> BOOLEAN]
      BY <1>3, <2>1, <3>1
    <3> QED  BY <1>2, <3>1, <3>2
  <2> QED  BY <2>2, <2>3
<1>7. CASE WorkerBye(w)
  <2>1. wq' \in Seq(Frames \cup {Bye, Hdr})
    BY <1>3, <1>7 DEF WorkerBye
  <2> QED  BY <1>2, <1>3, <1>7, <2>1 DEF WorkerBye
<1> QED
  BY <1>1, <1>4, <1>5, <1>6, <1>7 DEF Worker

LEMMA StreamTypes == ASSUME TypeInv, Stream PROVE TypeInv'
<1>0. /\ UNCHANGED <<readVars, mainVars, ctx, workerVars, putVars, result>> /\ N' = N
      /\ stream \in {"recv", "place", "back"} /\ numExited < N /\ main # "get"
      /\ N \in Nat
  BY PoolSize DEF Stream, StreamHeader, StreamRecv, StreamBye, StreamClosed, StreamStash,
         StreamYield, StreamBack, mainVars, N, TypeInv, TypeOK
<1>1. ASSUME stream' \in {"recv", "place", "back", "ended"},
             wq' \in Seq(Frames \cup {Bye, Hdr}), out' \in Seq(Frames \cup {Hdr}),
             cur' \in Nat, reorder' \in SUBSET Frames, numWritten' \in 0..NumFrames,
             numExited' \in 0..N, rq' \in 0..N,
             stream' = "place" => cur' \in Frames,
             stream' # "ended" => numExited' < N
      PROVE  TypeInv'
  <2>1. TypeOK'
    BY <1>0, <1>1 DEF TypeInv, TypeOK, readVars, mainVars, workerVars, putVars
  <2> QED
    BY <1>0, <1>1, <2>1
       DEF TypeInv, Holding, readVars, mainVars, workerVars, putVars
<1>2. /\ wq \in Seq(Frames \cup {Bye, Hdr}) /\ out \in Seq(Frames \cup {Hdr})
      /\ cur \in Nat /\ reorder \in SUBSET Frames /\ numWritten \in 0..NumFrames
      /\ numExited \in 0..N /\ rq \in 0..N
      /\ stream = "place" => cur \in Frames
  BY DEF TypeInv, TypeOK
<1>3. wq # <<>> /\ wq' = Tail(wq) => wq' \in Seq(Frames \cup {Bye, Hdr})
  BY <1>2
<1>4. CASE StreamHeader
  <2>1. out' = out
    BY <1>2, <1>4 DEF StreamHeader, HdrMessage
  <2> QED  BY <1>0, <1>1, <1>2, <1>3, <1>4, <2>1 DEF StreamHeader
<1>5. CASE StreamRecv
  <2>1. cur' \in Frames /\ cur' \in Nat
    BY <1>5, Constants DEF StreamRecv
  <2> QED  BY <1>0, <1>1, <1>2, <1>3, <1>5, <2>1 DEF StreamRecv
<1>6. CASE StreamBye
  <2>1. numExited' \in 0..N /\ (stream' # "ended" => numExited' < N)
        /\ stream' \in {"ended", "recv"}
    BY <1>0, <1>2, <1>6 DEF StreamBye
  <2> QED  BY <1>1, <1>2, <1>3, <1>6, <2>1 DEF StreamBye
<1>7. CASE StreamClosed
  BY <1>0, <1>1, <1>2, <1>7 DEF StreamClosed
<1>8. CASE StreamStash
  BY <1>0, <1>1, <1>2, <1>8 DEF StreamStash
<1>9. CASE StreamYield
  <2>1. cur \in Frames /\ numWritten' \in 0..NumFrames
    BY <1>2, <1>9, FramesAssumption DEF StreamYield, Frames
  <2>2. out' \in Seq(Frames \cup {Hdr})
    BY <1>2, <1>9, <2>1 DEF StreamYield
  <2> QED  BY <1>0, <1>1, <1>2, <1>9, <2>1, <2>2 DEF StreamYield
<1>10. CASE StreamBack
  <2>1. rq' \in 0..N
    BY <1>0, <1>2, <1>10 DEF StreamBack
  <2>2. /\ cur' \in Nat /\ reorder' \in SUBSET Frames
        /\ stream' \in {"recv", "place", "ended"}
        /\ stream' = "place" => cur' \in Frames
    BY <1>2, <1>10 DEF StreamBack
  <2> QED  BY <1>0, <1>1, <1>2, <1>10, <2>1, <2>2 DEF StreamBack
<1> QED
  BY <1>4, <1>5, <1>6, <1>7, <1>8, <1>9, <1>10 DEF Stream

LEMMA RequestTypes == ASSUME TypeInv, Request PROVE TypeInv'
<1>1. /\ UNCHANGED <<readVars, mainVars, ctx, workerVars, wq, cur, reorder,
                     numWritten, numExited, out, rq, result>>
      /\ put' \in {"sending", "Ok", "Err"} /\ main # "get" /\ N' = N
      /\ stream' \in {stream, "dropped"} /\ reported' \in 0..NumFrames
  BY Constants DEF Request, PutEnds, StreamDropped, TypeInv, TypeOK, streamVars, putVars,
                   mainVars, N
<1>2. TypeOK'
  BY <1>1 DEF TypeInv, TypeOK, readVars, mainVars, workerVars
<1> QED
  BY <1>1, <1>2 DEF TypeInv, Holding, readVars, mainVars, workerVars

LEMMA TypeStep == TypeInv /\ ReadInv' /\ [Next]_vars => TypeInv'
<1> SUFFICES ASSUME TypeInv, ReadInv', [Next]_vars PROVE TypeInv'
  OBVIOUS
<1>1. CASE UNCHANGED vars
  <2>1. N' = N
    BY <1>1 DEF vars, mainVars, N
  <2>2. TypeOK'
    BY <1>1, <2>1 DEF vars, readVars, mainVars, workerVars, streamVars, putVars,
                      TypeInv, TypeOK
  <2> QED
    BY <1>1, <2>1, <2>2 DEF vars, readVars, mainVars, workerVars, streamVars, putVars,
                            TypeInv, Holding
<1> QED
  BY <1>1, CallTypes, WorkerTypes, StreamTypes, RequestTypes DEF Next

LEMMA TypeInvHolds == Spec => [](TypeInv /\ ReadInv)
<1>1. Init => TypeInv /\ ReadInv /\ Entered
  BY TypeInit, EnteredInit, ReadInvInit
<1>2. TypeInv /\ ReadInv /\ Entered /\ [Next]_vars => (TypeInv /\ ReadInv /\ Entered)'
  BY TypeStep, StepReads, EnteredStep, ReadInvStep
<1> QED
  BY <1>1, <1>2, PTL DEF Spec

-----------------------------------------------------------------------------
\* The state keeps its shape: types and bounds of every variable.
THEOREM TypeCorrect == Spec => []TypeOK
<1>1. TypeInv => TypeOK
  BY DEF TypeInv
<1> QED
  BY <1>1, TypeInvHolds, PTL

-----------------------------------------------------------------------------
(* The order of the body. *)

\* Only the stream's yield adds to the body: the header's message adds nothing.
LEMMA BodySteps ==
    ASSUME TypeInv, [Next]_vars
    PROVE  StreamYield \/ UNCHANGED <<out, numWritten>>
<1>1. CASE Caller
  BY <1>1 DEF Caller, Open, OpenFails, MainFresh, MainRecycle, MainOrphaned, MainRead,
       MainReadFails, MainFilled, MainSend, MainEof, MainJoinPut, MainJoinWorkers,
       streamVars
<1>2. CASE StreamHeader
  <2>1. out \in Seq(Frames \cup {Hdr}) /\ out' = out \o <<>>
    BY <1>2 DEF StreamHeader, HdrMessage, TypeInv, TypeOK
  <2>2. out' = out
    BY <2>1
  <2> QED  BY <1>2, <2>2 DEF StreamHeader
<1>3. CASE Stream /\ ~StreamHeader
  BY <1>3 DEF Stream, StreamRecv, StreamBye, StreamClosed, StreamStash, StreamBack
<1>4. CASE Request
  BY <1>4 DEF Request, PutEnds, StreamDropped, streamVars
<1>5. ASSUME NEW w \in Workers, Worker(w) PROVE UNCHANGED <<out, numWritten>>
  BY <1>5 DEF Worker, WorkerRecv, WorkerClosed, WorkerProcess, WorkerSend, WorkerBye,
       streamVars
<1>6. CASE UNCHANGED vars
  BY <1>6 DEF vars, streamVars
<1> QED
  BY <1>1, <1>2, <1>3, <1>4, <1>5, <1>6 DEF Next

LEMMA OutStep == TypeInv /\ InOrder /\ [Next]_vars => InOrder'
<1> SUFFICES ASSUME TypeInv, InOrder, [Next]_vars PROVE InOrder'
  OBVIOUS
<1>1. CASE StreamYield
  <2>1. numWritten \in Nat /\ out = [i \in 1..numWritten |-> i - 1]
    BY Constants DEF TypeInv, TypeOK, InOrder
  <2>2. numWritten' = numWritten + 1 /\ out' = Append(out, numWritten)
    BY <1>1 DEF StreamYield
  <2>3. out' = [i \in 1..(numWritten + 1) |-> i - 1]
    BY <2>1, <2>2
  <2> QED  BY <2>2, <2>3 DEF InOrder
<1>2. CASE UNCHANGED <<out, numWritten>>
  BY <1>2 DEF InOrder
<1> QED
  BY <1>1, <1>2, BodySteps

\* The body of the PUT is frames 0, 1, 2, ..., for every order the workers
\* finish in and wherever the request, the GET or a worker ends early
\* (mk_stream, tokioworker.rs).
THEOREM InOrderHolds == Spec => []InOrder
<1>1. Init => InOrder
  BY DEF Init, InOrder
<1> QED
  BY <1>1, OutStep, TypeInvHolds, PTL DEF Spec

-----------------------------------------------------------------------------
(* The buffers. *)

LEMMA BufferStep ==
    TypeInv /\ ReadInv /\ BufferInv /\ [Next]_vars => BufferInv'
<1> SUFFICES ASSUME TypeInv, ReadInv, BufferInv, [Next]_vars PROVE BufferInv'
  OBVIOUS
<1>0. /\ fr \in Nat /\ rq \in Nat /\ numWritten \in Nat /\ N \in Nat
  BY Constants, PoolSize DEF TypeInv, TypeOK
<1> USE DEF BufferInv, Taken, StreamGone
<1>1. CASE Caller
  <2>0. UNCHANGED <<pool, streamVars>> \/ Open
    BY <1>1 DEF Caller, OpenFails, MainFresh, MainRecycle, MainOrphaned, MainRead,
         MainReadFails, MainFilled, MainSend, MainEof, MainJoinPut, MainJoinWorkers,
         mainVars
  <2>1. CASE Open
    <3>1. /\ fr' = fr /\ main = "get" /\ main' = "buffer" /\ stream' = "recv"
          /\ UNCHANGED <<pool, rq, numWritten>> /\ stream = "idle" /\ N' = N
      BY <2>1 DEF Open, SplitHeader, TypeInv, N
    <3> QED  BY <1>0, <3>1
  <2>2. CASE MainFresh \/ MainRecycle \/ MainOrphaned
    <3>1. /\ fr' = fr /\ main = "buffer" /\ main' = "read" /\ UNCHANGED <<stream, numWritten>>
          /\ N' = N
          /\ \/ fr < N /\ rq' = rq
             \/ fr >= N /\ rq' = rq - 1
             \/ stream \in {"ended", "dropped"}
      BY <2>2 DEF MainFresh, MainRecycle, MainOrphaned, readVars, streamVars, N
    <3> QED  BY <1>0, <3>1
  <2>3. CASE MainSend
    <3>1. /\ fr' = fr + 1 /\ main = "send" /\ main' = "buffer"
          /\ UNCHANGED <<stream, numWritten, rq>> /\ N' = N
      BY <2>3 DEF MainSend, NextFrame, streamVars, N
    <3> QED  BY <1>0, <3>1
  <2>4. CASE OpenFails \/ MainRead \/ MainReadFails \/ MainFilled \/ MainEof
             \/ MainJoinPut \/ MainJoinWorkers
    <3>1. fr' = fr /\ UNCHANGED <<stream, numWritten, rq>> /\ N' = N
      BY <2>4 DEF OpenFails, MainRead, MainReadFails, MainFilled, MainEof,
           MainJoinPut, MainJoinWorkers, NextChunk, TakeAll, TakePart, mainVars,
           readVars, streamVars, N
    <3>2. main' \in {"read", "send"} => main \in {"read", "send"}
      BY <2>4 DEF OpenFails, MainRead, MainReadFails, MainFilled, MainEof,
           MainJoinPut, MainJoinWorkers, Return, Panic, mainVars
    <3> QED  BY <1>0, <3>1, <3>2
  <2> QED
    BY <1>1, <2>1, <2>2, <2>3, <2>4 DEF Caller
<1>2. CASE Stream
  <2>0. UNCHANGED <<fr, main>> /\ N' = N
    BY <1>2 DEF Stream, StreamHeader, StreamRecv, StreamBye, StreamClosed,
                StreamStash, StreamYield, StreamBack, readVars, mainVars, N
  <2>1. CASE StreamYield
    <3>1. /\ stream = "place" /\ stream' = "back" /\ numWritten' = numWritten + 1
          /\ rq' = rq
      BY <2>1 DEF StreamYield
    <3> QED  BY <1>0, <2>0, <3>1
  <2>2. CASE StreamBack
    <3>1. /\ stream = "back" /\ stream' # "back" /\ numWritten' = numWritten
          /\ rq' = rq + 1 \/ rq' = rq
      BY <2>2 DEF StreamBack
    <3> QED  BY <1>0, <2>0, <3>1
  <2>3. CASE StreamHeader \/ StreamRecv \/ StreamBye \/ StreamClosed \/ StreamStash
    <3>1. UNCHANGED <<numWritten, rq>> /\ stream' # "back" /\ ~StreamGone
      BY <2>3 DEF StreamHeader, StreamRecv, StreamBye, StreamClosed, StreamStash
    <3>2. stream # "back"
      BY <2>3 DEF StreamHeader, StreamRecv, StreamBye, StreamClosed, StreamStash
    <3> QED  BY <1>0, <2>0, <3>1, <3>2
  <2> QED
    BY <1>2, <2>1, <2>2, <2>3 DEF Stream
<1>3. CASE Request
  <2>1. UNCHANGED <<fr, main, rq, numWritten>> /\ N' = N
        /\ (stream' = stream \/ stream' = "dropped")
    BY <1>3 DEF Request, PutEnds, StreamDropped, readVars, mainVars, streamVars, N
  <2> QED  BY <1>0, <2>1
<1>4. ASSUME UNCHANGED <<fr, main, rq, numWritten, stream, pool>> PROVE BufferInv'
  <2>1. N' = N
    BY <1>4 DEF N
  <2> QED  BY <1>4, <2>1
<1>5. ASSUME NEW w \in Workers, Worker(w) PROVE BufferInv'
  BY <1>4, <1>5 DEF Worker, WorkerRecv, WorkerClosed, WorkerProcess, WorkerSend,
       WorkerBye, readVars, mainVars, streamVars
<1>6. CASE UNCHANGED vars
  BY <1>4, <1>6 DEF vars, readVars, mainVars, streamVars
<1> QED
  BY <1>1, <1>2, <1>3, <1>5, <1>6 DEF Next

-----------------------------------------------------------------------------
(* Where the frames are. *)

LEMMA PlaceTypes ==
    ASSUME TypeInv
    PROVE  /\ fr \in Nat /\ numWritten \in Nat /\ cur \in Nat /\ First \in Int
           /\ ctx \in Seq(Nat) /\ wq \in Seq(Frames \cup {Bye, Hdr})
           /\ \A w \in Workers : worker[w].fr \in Nat
           /\ \A k \in reorder : k \in Nat
<1>1. fr \in Nat /\ numWritten \in Nat /\ cur \in Nat
  BY Constants DEF TypeInv, TypeOK
<1>2. ctx \in Seq(Frames) /\ wq \in Seq(Frames \cup {Bye, Hdr})
      /\ reorder \subseteq Frames
  BY DEF TypeInv, TypeOK
<1>3. Len(ctx) \in Nat /\ ctx \in Seq(Nat)
  <2>1. Frames \subseteq Nat
    BY Constants
  <2>3. \A i \in 1..Len(ctx) : ctx[i] \in Frames
    BY <1>2
  <2>2. \A i \in 1..Len(ctx) : ctx[i] \in Nat
    BY <2>1, <2>3
  <2> QED  BY <1>2, <2>2
<1>4. \A w \in Workers : worker[w].fr \in Nat
  BY DEF TypeInv, TypeOK
<1>5. First \in Int
  BY <1>1, <1>3 DEF First
<1> QED
  BY <1>1, <1>2, <1>3, <1>4, <1>5, Constants

\* A step that moves no frame, or only lets a worker drop one.
LEMMA NothingMoves ==
    ASSUME PlaceInv, UNCHANGED <<fr, ctx, wq, cur, reorder, numWritten>>,
           stream' = "place" => stream = "place",
           \A w \in Workers : Holding(w)' => Holding(w) /\ worker'[w].fr = worker[w].fr
    PROVE  PlaceInv'
<1>1. First' = First
  BY DEF First
<1> QED
  BY <1>1 DEF PlaceInv

LEMMA SendPlace == ASSUME TypeInv, PlaceInv, MainSend PROVE PlaceInv'
<1>1. /\ ctx' = Append(ctx, fr) /\ fr' = fr + 1
      /\ UNCHANGED <<worker, wq, stream, cur, reorder, numWritten>>
  BY DEF MainSend, NextFrame, workerVars, streamVars
<1>2. fr \in Nat /\ ctx \in Seq(Nat) /\ numWritten \in Nat
  BY PlaceTypes
<1>3. ctx' \in Seq(Nat) /\ Len(ctx') = Len(ctx) + 1 /\ Len(ctx) \in Nat
  BY <1>1, <1>2
<1>4. First' = First /\ First = fr - Len(ctx)
  BY <1>1, <1>2, <1>3 DEF First
<1>5. ASSUME NEW i \in 1..Len(ctx') PROVE ctx'[i] = First + i - 1
  <2>1. CASE i \in 1..Len(ctx)
    <3>1. ctx'[i] = ctx[i]
      BY <1>1, <1>2, <2>1
    <3> QED  BY <2>1, <3>1 DEF PlaceInv
  <2>2. CASE i = Len(ctx) + 1
    <3>1. ctx'[i] = fr
      BY <1>1, <1>2, <2>2
    <3> QED  BY <1>2, <1>3, <1>4, <2>2, <3>1
  <2> QED  BY <1>3, <2>1, <2>2
<1>6. Len(ctx') <= fr'
  BY <1>1, <1>2, <1>3 DEF PlaceInv
<1> QED
  BY <1>1, <1>4, <1>5, <1>6 DEF PlaceInv, Holding

\* A worker takes the oldest frame of ctx: all older ones stay older.
LEMMA RecvPlace ==
    ASSUME TypeInv, PlaceInv, NEW w \in Workers, WorkerRecv(w)
    PROVE  PlaceInv'
<1>1. /\ ctx # <<>> /\ ctx' = Tail(ctx)
      /\ worker' = [worker EXCEPT ![w] = [pc |-> "process", fr |-> Head(ctx)]]
      /\ UNCHANGED <<fr, wq, stream, cur, reorder, numWritten>>
  BY DEF WorkerRecv, readVars, streamVars
<1>2. fr \in Nat /\ ctx \in Seq(Nat) /\ numWritten \in Nat /\ First \in Int
  BY PlaceTypes
<1>3. ctx' \in Seq(Nat) /\ Len(ctx') = Len(ctx) - 1 /\ Len(ctx) > 0 /\ Len(ctx) \in Nat
  BY <1>1, <1>2
<1>4. First' = First + 1
  BY <1>1, <1>2, <1>3 DEF First
<1>5. Head(ctx) = First
  <2>1. Head(ctx) = ctx[1] /\ 1 \in 1..Len(ctx)
    BY <1>1, <1>2, <1>3
  <2>2. ctx[1] = First + 1 - 1
    BY <2>1 DEF PlaceInv
  <2> QED  BY <1>2, <2>1, <2>2
<1>6. ASSUME NEW i \in 1..Len(ctx') PROVE ctx'[i] = First' + i - 1
  <2>1. ctx'[i] = ctx[i + 1] /\ i + 1 \in 1..Len(ctx)
    BY <1>1, <1>2, <1>3
  <2>2. ctx[i + 1] = First + (i + 1) - 1
    BY <2>1 DEF PlaceInv
  <2> QED  BY <1>2, <1>4, <2>1, <2>2
<1>7. ASSUME NEW k \in Nat, k < First PROVE k < First'
  BY <1>2, <1>4, <1>7
<1>8. ASSUME NEW v \in Workers, Holding(v)' PROVE worker'[v].fr < First'
  <2>1. CASE v = w
    <3>1. worker'[v].fr = First
      BY <1>1, <1>5, <2>1 DEF TypeInv, TypeOK
    <3> QED  BY <1>2, <1>4, <3>1
  <2>2. CASE v # w
    <3>1. worker'[v] = worker[v]
      BY <1>1, <2>2 DEF TypeInv, TypeOK
    <3>2. Holding(v) /\ worker[v].fr < First /\ worker[v].fr \in Nat
      BY <1>8, <3>1, PlaceTypes DEF Holding, PlaceInv
    <3> QED  BY <1>7, <3>1, <3>2
  <2> QED  BY <2>1, <2>2
<1>9. Len(ctx') <= fr' /\ numWritten <= First'
  BY <1>1, <1>2, <1>3, <1>4 DEF PlaceInv
<1>10. \A i \in 1..Len(wq) : wq[i] \in Frames => wq[i] < First'
  BY <1>7, Constants DEF PlaceInv
<1>11. stream = "place" => cur < First'
  BY <1>7, PlaceTypes DEF PlaceInv
<1>12. \A k \in reorder : k < First'
  BY <1>7, PlaceTypes DEF PlaceInv
<1> QED
  BY <1>1, <1>6, <1>8, <1>9, <1>10, <1>11, <1>12 DEF PlaceInv

\* Something is sent to the stream: a mark, or a frame that left ctx.
LEMMA AppendPlace ==
    ASSUME TypeInv, PlaceInv, NEW msg, wq' = Append(wq, msg),
           msg \in Frames => msg < First,
           UNCHANGED <<fr, ctx, stream, cur, reorder, numWritten>>,
           \A w \in Workers : Holding(w)' => Holding(w) /\ worker'[w].fr = worker[w].fr
    PROVE  PlaceInv'
<1>1. First' = First
  BY DEF First
<1>2. wq \in Seq(Frames \cup {Bye, Hdr})
  BY PlaceTypes
<1>3. ASSUME NEW i \in 1..Len(wq'), wq'[i] \in Frames PROVE wq'[i] < First
  <2>1. CASE i \in 1..Len(wq)
    <3>1. wq'[i] = wq[i]
      BY <1>2, <2>1
    <3> QED  BY <1>3, <2>1, <3>1 DEF PlaceInv
  <2>2. CASE i \notin 1..Len(wq)
    <3>1. Len(wq) \in Nat /\ Len(wq') = Len(wq) + 1
      BY <1>2
    <3>2. i = Len(wq) + 1
      BY <2>2, <3>1
    <3>3. wq'[i] = msg
      BY <1>2, <3>2
    <3> QED  BY <1>3, <3>3
  <2> QED  BY <2>1, <2>2
<1> QED
  BY <1>1, <1>3 DEF PlaceInv

LEMMA WorkerPlace ==
    ASSUME TypeInv, PlaceInv, NEW w \in Workers, Worker(w)
    PROVE  PlaceInv'
<1>1. CASE WorkerRecv(w)
  BY <1>1, RecvPlace
<1>2. ASSUME ~WorkerRecv(w)
      PROVE  /\ UNCHANGED <<fr, ctx, stream, cur, reorder, numWritten>>
             /\ \A v \in Workers : Holding(v)' => Holding(v) /\ worker'[v].fr = worker[v].fr
  <2>1. UNCHANGED <<fr, ctx, stream, cur, reorder, numWritten>>
    BY <1>2 DEF Worker, WorkerClosed, WorkerProcess, WorkerSend, WorkerBye, readVars,
                streamVars
  <2>2. \E pc \in {"recv", "send", "bye", "exited", "failed", "panicked"} :
           /\ worker' = [worker EXCEPT ![w].pc = pc]
           /\ pc = "send" => worker[w].pc = "process"
    BY <1>2 DEF Worker, WorkerClosed, WorkerProcess, WorkerSend, WorkerBye, Go
  <2> QED
    BY <2>1, <2>2 DEF Holding, TypeInv, TypeOK
<1>3. CASE WorkerSend(w) /\ ~StreamGone
  <2>1. wq' = Append(wq, worker[w].fr) /\ ~WorkerRecv(w) /\ Holding(w)
    BY <1>3 DEF WorkerSend, WorkerRecv, Holding
  <2>2. worker[w].fr < First
    BY <2>1 DEF PlaceInv
  <2> QED
    BY <1>2, <2>1, <2>2, AppendPlace
<1>4. CASE WorkerBye(w) /\ ~StreamGone
  <2>1. wq' = Append(wq, Bye) /\ ~WorkerRecv(w)
    BY <1>4 DEF WorkerBye, WorkerRecv
  <2> QED
    BY <1>2, <2>1, AppendPlace, Constants
<1>5. CASE WorkerClosed(w) \/ WorkerProcess(w)
           \/ ((WorkerSend(w) \/ WorkerBye(w)) /\ StreamGone)
  <2>1. UNCHANGED wq /\ ~WorkerRecv(w)
    BY <1>5 DEF WorkerClosed, WorkerProcess, WorkerSend, WorkerBye, WorkerRecv
  <2> QED
    BY <1>2, <2>1, NothingMoves
<1> QED
  BY <1>1, <1>3, <1>4, <1>5 DEF Worker

LEMMA StreamPlace == ASSUME TypeInv, PlaceInv, Stream PROVE PlaceInv'
<1>0. UNCHANGED <<fr, ctx, worker>> /\ First' = First
  BY DEF Stream, StreamHeader, StreamRecv, StreamBye, StreamClosed, StreamStash,
         StreamYield, StreamBack, readVars, workerVars, First
<1>1. \A w \in Workers : Holding(w)' = Holding(w)
  BY <1>0 DEF Holding
<1>2. ASSUME wq # <<>>, wq' = Tail(wq)
      PROVE  \A i \in 1..Len(wq') : wq'[i] \in Frames => wq'[i] < First
  <2>1. wq \in Seq(Frames \cup {Bye, Hdr})
    BY PlaceTypes
  <2>2. \A i \in 1..Len(wq') : wq'[i] = wq[i + 1] /\ i + 1 \in 1..Len(wq)
    BY <1>2, <2>1
  <2> QED  BY <2>2 DEF PlaceInv
<1>3. CASE StreamHeader \/ StreamBye
  <2>1. /\ wq # <<>> /\ wq' = Tail(wq) /\ stream' # "place"
        /\ UNCHANGED <<cur, reorder, numWritten>>
    BY <1>3 DEF StreamHeader, StreamBye
  <2> QED  BY <1>0, <1>1, <1>2, <2>1 DEF PlaceInv
<1>4. CASE StreamRecv
  <2>1. /\ wq # <<>> /\ wq' = Tail(wq) /\ cur' = Head(wq) /\ Head(wq) \in Frames
        /\ UNCHANGED <<reorder, numWritten>>
    BY <1>4 DEF StreamRecv
  <2>2. Head(wq) = wq[1] /\ 1 \in 1..Len(wq)
    BY <2>1, PlaceTypes
  <2>3. cur' < First
    BY <2>1, <2>2 DEF PlaceInv
  <2> QED  BY <1>0, <1>1, <1>2, <2>1, <2>3 DEF PlaceInv
<1>5. CASE StreamClosed
  BY <1>0, <1>1, <1>5, NothingMoves DEF StreamClosed
<1>6. CASE StreamStash
  <2>1. /\ stream = "place" /\ stream' = "recv" /\ reorder' = reorder \cup {cur}
        /\ UNCHANGED <<wq, cur, numWritten>>
    BY <1>6 DEF StreamStash
  <2>2. \A k \in reorder' : k < First
    BY <2>1 DEF PlaceInv
  <2> QED  BY <1>0, <1>1, <2>1, <2>2 DEF PlaceInv
<1>7. CASE StreamYield
  <2>1. /\ stream = "place" /\ stream' = "back" /\ numWritten' = cur + 1
        /\ UNCHANGED <<wq, cur, reorder>>
    BY <1>7 DEF StreamYield
  <2>2. numWritten' <= First
    BY <2>1, PlaceTypes DEF PlaceInv
  <2> QED  BY <1>0, <1>1, <2>1, <2>2 DEF PlaceInv
<1>8. CASE StreamBack
  <2>1. /\ UNCHANGED <<wq, numWritten>>
        /\ \/ cur' = numWritten /\ numWritten \in reorder /\ reorder' = reorder \ {numWritten}
           \/ stream' = "recv" /\ UNCHANGED <<cur, reorder>>
    BY <1>8 DEF StreamBack
  <2>2. (stream' = "place" => cur' < First) /\ (\A k \in reorder' : k < First)
    BY <2>1 DEF PlaceInv
  <2> QED  BY <1>0, <1>1, <2>1, <2>2 DEF PlaceInv
<1> QED
  BY <1>3, <1>4, <1>5, <1>6, <1>7, <1>8 DEF Stream

LEMMA PlaceStep == TypeInv /\ PlaceInv /\ [Next]_vars => PlaceInv'
<1> SUFFICES ASSUME TypeInv, PlaceInv, [Next]_vars PROVE PlaceInv'
  OBVIOUS
<1>1. CASE Open
  <2>1. /\ wq' = <<Hdr>> /\ stream' = "recv"
        /\ UNCHANGED <<fr, ctx, cur, reorder, numWritten>>
    BY <1>1 DEF Open, SplitHeader
  <2>2. worker' = [w \in Workers |->
                     IF w \in pool THEN [worker[w] EXCEPT !.pc = "recv"] ELSE worker[w]]
    BY <1>1 DEF Open
  <2>3. \A w \in Workers : Holding(w)' => Holding(w) /\ worker'[w].fr = worker[w].fr
    BY <2>2 DEF TypeInv, TypeOK, Holding
  <2>4. \A i \in 1..Len(wq') : wq'[i] \notin Frames
    <3>1. Len(wq') = 1 /\ wq'[1] = Hdr
      BY <2>1
    <3> QED  BY <3>1, Constants
  <2>5. First' = First
    BY <2>1 DEF First
  <2> QED  BY <2>1, <2>3, <2>4, <2>5 DEF PlaceInv
<1>2. CASE Caller /\ ~Open /\ ~MainSend
  <2>1. UNCHANGED <<fr, ctx, worker, wq, stream, cur, reorder, numWritten>>
    BY <1>2 DEF Caller, OpenFails, MainFresh, MainRecycle, MainOrphaned, MainRead,
         MainReadFails, MainFilled, MainEof, MainJoinPut, MainJoinWorkers,
         NextChunk, TakeAll, TakePart, readVars, workerVars, streamVars
  <2> QED  BY <2>1, NothingMoves DEF Holding
<1>3. CASE Request
  <2>1. UNCHANGED <<fr, ctx, worker, wq, cur, reorder, numWritten>>
        /\ (stream' = stream \/ stream' = "dropped")
    BY <1>3 DEF Request, PutEnds, StreamDropped, readVars, workerVars, streamVars
  <2> QED  BY <2>1, NothingMoves DEF Holding
<1>4. CASE UNCHANGED vars
  BY <1>4, NothingMoves DEF vars, readVars, workerVars, streamVars, Holding
<1> QED
  BY <1>1, <1>2, <1>3, <1>4, SendPlace, WorkerPlace, StreamPlace DEF Next, Caller

LEMMA BoundsHold == Spec => [](TypeInv /\ ReadInv /\ BufferInv /\ PlaceInv)
<1>1. Init /\ TypeInv => BufferInv /\ PlaceInv
  <2> SUFFICES ASSUME Init, TypeInv PROVE BufferInv /\ PlaceInv
    OBVIOUS
  <2>1. /\ fr = 0 /\ rq = 0 /\ numWritten = 0 /\ ctx = <<>> /\ wq = <<>>
        /\ stream = "idle" /\ main = "get" /\ reorder = {}
    BY DEF Init, ReadInit
  <2>2. N \in Nat
    BY PoolSize DEF TypeInv, TypeOK
  <2>3. BufferInv
    BY <2>1, <2>2 DEF BufferInv, Taken
  <2>4. \A w \in Workers : ~Holding(w)
    BY DEF Init, Holding
  <2>5. First = 0
    <3>1. Len(ctx) = 0 /\ fr - 0 = 0
      BY <2>1
    <3> QED  BY <3>1 DEF First
  <2> QED  BY <2>1, <2>3, <2>4, <2>5 DEF PlaceInv
<1> QED
  BY <1>1, BufferStep, PlaceStep, TypeInvHolds, PTL DEF Spec

\* With a stream to bring buffers back, the caller finds room on ctx; and
\* the stream finds room on rq whatever became of the caller.
LEMMA RoomFromInv ==
    ASSUME TypeInv, BufferInv, PlaceInv
    PROVE  SendsHaveRoom
<1>1. /\ fr \in Nat /\ numWritten \in Nat /\ rq \in Nat /\ N \in Nat
      /\ Len(ctx) \in Nat
  BY PlaceTypes, PoolSize DEF TypeInv, TypeOK
<1>2. numWritten <= fr - Len(ctx)
  BY DEF PlaceInv, First
<1>3. ASSUME main = "send", ~StreamGone PROVE Len(ctx) < N
  <2>1. fr + 1 + rq <= numWritten + N
    BY <1>1, <1>3 DEF BufferInv, Taken
  <2> QED  BY <1>1, <1>2, <2>1
<1>4. ASSUME stream = "back" PROVE rq < N
  <2>1. Taken \in Nat /\ Taken >= fr
    BY <1>1 DEF Taken
  <2>2. Taken + rq + 1 <= numWritten + N
        /\ Taken + rq + 1 <= numWritten + Taken
    BY <1>1, <1>4, <2>1 DEF BufferInv, StreamGone
  <2> QED  BY <1>1, <1>2, <2>1, <2>2
<1> QED
  BY <1>3, <1>4 DEF SendsHaveRoom

\* Neither blocking send ever waits while the other side is there
\* (transcode_http and mk_stream, tokioworker.rs).
THEOREM RingBoundedHolds == Spec => []RingBounded
<1>1. TypeInv /\ BufferInv /\ PlaceInv => RingBounded
  BY RoomFromInv DEF RingBounded, TypeInv
<1> QED
  BY <1>1, BoundsHold, PTL

-----------------------------------------------------------------------------
(* What the answer promises. *)

\* What Transcode sees of the answer: an Ok with another count than the
\* header's is no Ok.
Shown == CASE result = "none" -> "none"
           [] result = "ok" /\ reported = NumFrames /\ NumFrames > 0 -> "ok"
           [] OTHER -> "err"

Output == {out[i] : i \in 1..Len(out)}

LEMMA Shows ==
    /\ Shown \in {"none", "ok", "err"}
    /\ Shown = "none" <=> result = "none"
    /\ Shown = "ok" <=> result = "ok" /\ reported = NumFrames /\ NumFrames > 0
  BY DEF Shown

LEMMA EndInit == Init => EndInv
  BY DEF Init, EndInv, Ended

LEMMA EndStep == TypeInv /\ EndInv /\ [Next]_vars => EndInv'
<1> SUFFICES ASSUME TypeInv, EndInv, [Next]_vars PROVE EndInv'
  OBVIOUS
<1>1. CASE Caller
  <2>1. CASE Open
    <3>1. /\ main = "get" /\ main' = "buffer" /\ UNCHANGED <<result, reported>>
          /\ stream = "idle"
      BY <2>1 DEF Open, TypeInv
    <3> QED  BY <3>1 DEF EndInv, Ended
  <2>2. CASE OpenFails
    BY <2>2 DEF OpenFails, Return, Panic, streamVars, putVars, EndInv, Ended
  <2>3. CASE MainFresh \/ MainRecycle \/ MainOrphaned \/ MainFilled \/ MainSend \/ MainEof
    <3>1. /\ main \in {"buffer", "read", "send"} /\ main' \in {"buffer", "read", "send", "await"}
          /\ UNCHANGED <<stream, numWritten, putVars, result>>
      BY <2>3 DEF MainFresh, MainRecycle, MainOrphaned, MainFilled, MainSend, MainEof,
                  streamVars
    <3> QED  BY <3>1 DEF EndInv, Ended, putVars
  <2>4. CASE MainRead
    BY <2>4 DEF MainRead, mainVars, streamVars, putVars, EndInv, Ended
  <2>5. CASE MainReadFails
    BY <2>5 DEF MainReadFails, Return, streamVars, putVars, EndInv, Ended
  <2>6. CASE MainJoinPut
    BY <2>6 DEF MainJoinPut, Return, streamVars, putVars, EndInv, Ended
  <2>7. CASE MainJoinWorkers
    BY <2>7 DEF MainJoinWorkers, Return, Panic, streamVars, putVars, EndInv, Ended
  <2> QED
    BY <1>1, <2>1, <2>2, <2>3, <2>4, <2>5, <2>6, <2>7 DEF Caller
<1>2. CASE Stream
  BY <1>2 DEF Stream, StreamHeader, StreamRecv, StreamBye, StreamClosed, StreamStash,
       StreamYield, StreamBack, mainVars, putVars, EndInv, Ended
<1>3. CASE PutEnds
  BY <1>3 DEF PutEnds, mainVars, streamVars, EndInv, Ended
<1>4. CASE StreamDropped
  BY <1>4 DEF StreamDropped, mainVars, putVars, EndInv, Ended
<1>5. ASSUME NEW w \in Workers, Worker(w) PROVE EndInv'
  BY <1>5 DEF Worker, WorkerRecv, WorkerClosed, WorkerProcess, WorkerSend, WorkerBye,
       mainVars, streamVars, putVars, EndInv, Ended
<1>6. CASE UNCHANGED vars
  BY <1>6 DEF vars, mainVars, streamVars, putVars, EndInv, Ended
<1> QED
  BY <1>1, <1>2, <1>3, <1>4, <1>5, <1>6 DEF Next, Request

LEMMA WholeOutput ==
    ASSUME TypeInv, InOrder
    PROVE  Output = 0..(numWritten - 1)
<1>1. numWritten \in Nat /\ out = [i \in 1..numWritten |-> i - 1] /\ Len(out) = numWritten
  BY PlaceTypes DEF InOrder
<1>2. Output = {i - 1 : i \in 1..numWritten}
  BY <1>1 DEF Output
<1>3. ASSUME NEW k \in 0..(numWritten - 1) PROVE k \in {i - 1 : i \in 1..numWritten}
  <2>1. k + 1 \in 1..numWritten /\ k = (k + 1) - 1
    BY <1>1
  <2> QED  BY <2>1
<1>4. ASSUME NEW i \in 1..numWritten PROVE i - 1 \in 0..(numWritten - 1)
  BY <1>1
<1> QED
  BY <1>2, <1>3, <1>4

\* A yield emits the frame whose turn it is, which is not out yet; the count
\* is not answered while the stream still yields.
LEMMA YieldRefines ==
    ASSUME TypeInv, InOrder, EndInv, StreamYield
    PROVE  [Engine!Next]_(Engine!vars)
<1>1. /\ stream = "place" /\ cur = numWritten /\ cur \in Frames /\ numWritten \in Nat
      /\ out' = Append(out, cur) /\ UNCHANGED <<result, reported>>
  BY PlaceTypes DEF StreamYield, TypeInv, putVars
<1>2. reported = 0 /\ Shown # "ok" /\ Shown' = Shown
  BY <1>1, Shows DEF EndInv, Shown
<1>3. cur \notin Output
  BY <1>1, WholeOutput
<1>4. Output' = Output \cup {cur}
  <2>1. /\ Len(out') = Len(out) + 1 /\ out'[Len(out) + 1] = cur
        /\ \A i \in 1..Len(out) : out'[i] = out[i]
        /\ Len(out) \in Nat
    BY <1>1 DEF TypeInv, TypeOK
  <2>2. \A i \in 1..Len(out') : i \in 1..Len(out) \/ i = Len(out) + 1
    BY <2>1
  <2>3. 1..Len(out) \subseteq 1..Len(out') /\ Len(out) + 1 \in 1..Len(out')
    BY <2>1
  <2> QED  BY <2>1, <2>2, <2>3 DEF Output
<1>5. PICK k : k = cur
  OBVIOUS
<1>6. Engine!Emit(k)
  BY <1>2, <1>3, <1>4, <1>5 DEF Engine!Emit, Output, Shown
<1>7. k \in Engine!Frames
  BY <1>1, <1>5 DEF Engine!Frames, Frames
<1> QED
  BY <1>6, <1>7 DEF Engine!Next, Engine!Emit

\* The caller's Ok comes after the request's, which counted a whole stream
\* or nothing.
LEMMA EndRefines ==
    ASSUME TypeInv, InOrder, EndInv, out' = out, reported' = reported,
           result' # result => result = "none"
    PROVE  [Engine!Next]_(Engine!vars)
<1>1. Output' = Output
  BY DEF Output
<1>2. CASE result' = result
  BY <1>1, <1>2 DEF Engine!vars, Output, Shown
<1>3. CASE result' # result
  <2>1. Shown = "none" /\ Shown' \in {"ok", "err"}
    BY <1>3 DEF Shown
  <2>2. CASE Shown' = "ok"
    <3>1. reported = NumFrames /\ NumFrames # 0
      BY <2>2, Constants DEF Shown
    <3>2. numWritten = NumFrames
      BY <3>1 DEF EndInv
    <3>3. Output = Frames
      BY <3>2, WholeOutput DEF Frames
    <3>4. Engine!EndOk
      BY <1>1, <2>1, <2>2, <3>3 DEF Engine!EndOk, Engine!Frames, Frames, Output, Shown
    <3> QED  BY <3>4 DEF Engine!Next
  <2>3. CASE Shown' = "err"
    <3>1. Engine!EndErr
      BY <1>1, <2>1, <2>3 DEF Engine!EndErr, Output, Shown
    <3> QED  BY <3>1 DEF Engine!Next
  <2> QED  BY <2>1, <2>2, <2>3
<1> QED
  BY <1>2, <1>3

\* The answer of the request changes what Transcode sees of no result: the
\* caller does not answer Ok before it.
LEMMA PutRefines ==
    ASSUME TypeInv, EndInv, PutEnds
    PROVE  UNCHANGED Engine!vars
<1>1. put = "sending" /\ UNCHANGED <<out, result>>
  BY DEF PutEnds, streamVars
<1>2. result # "ok"
  BY <1>1 DEF EndInv
<1>3. Shown' = Shown
  BY <1>1, <1>2 DEF Shown
<1> QED
  BY <1>1, <1>3 DEF Engine!vars, Shown

\* transcode_http implements the promise of the engines: a full count comes
\* with Ok only when every frame is in the body, and no frame goes there twice.
THEOREM ImplementsTranscodeHolds == Spec => ImplementsTranscode
<1>1. Init => Engine!Init
  BY FramesAssumption DEF Init, Engine!Init
<1>2. TypeInv /\ InOrder /\ EndInv /\ [Next]_vars => [Engine!Next]_(Engine!vars)
  <2> SUFFICES ASSUME TypeInv, InOrder, EndInv, [Next]_vars
               PROVE  [Engine!Next]_(Engine!vars)
    OBVIOUS
  <2>0. StreamYield \/ UNCHANGED out
    BY BodySteps
  <2>1. CASE StreamYield
    BY <2>1, YieldRefines
  <2>2. CASE PutEnds
    BY <2>2, PutRefines
  <2>3. CASE ~StreamYield /\ ~PutEnds
    <3>1. CASE Caller
      <4>1. reported' = reported /\ (result' # result => main \notin {"returned", "panicked"})
        BY <3>1 DEF Caller, Open, OpenFails, MainFresh, MainRecycle, MainOrphaned,
             MainRead, MainReadFails, MainFilled, MainSend, MainEof, MainJoinPut,
             MainJoinWorkers, putVars
      <4>2. result' # result => result = "none"
        BY <4>1 DEF EndInv, Ended
      <4> QED  BY <2>0, <2>3, <4>1, <4>2, EndRefines
    <3>2. CASE Stream
      BY <2>0, <2>3, <3>2, EndRefines DEF Stream, StreamHeader, StreamRecv, StreamBye,
         StreamClosed, StreamStash, StreamBack, putVars
    <3>3. CASE StreamDropped
      BY <2>0, <2>3, <3>3, EndRefines DEF StreamDropped, putVars
    <3>4. ASSUME NEW w \in Workers, Worker(w) PROVE [Engine!Next]_(Engine!vars)
      BY <2>0, <2>3, <3>4, EndRefines DEF Worker, WorkerRecv, WorkerClosed,
         WorkerProcess, WorkerSend, WorkerBye, putVars
    <3>5. CASE UNCHANGED vars
      BY <3>5, EndRefines DEF vars, streamVars, putVars
    <3> QED  BY <2>3, <3>1, <3>2, <3>3, <3>4, <3>5 DEF Next, Request
  <2> QED  BY <2>1, <2>2, <2>3
<1>3. Spec => []EndInv
  BY EndInit, EndStep, TypeInvHolds, PTL DEF Spec
<1> QED
  BY <1>1, <1>2, <1>3, TypeInvHolds, InOrderHolds, PTL
     DEF Spec, ImplementsTranscode, Engine!Spec

-----------------------------------------------------------------------------
(* Who waits for whom. *)

Least(a, b) == IF a < b THEN a ELSE b

\* As long as there is a caller, no buffer pair gets lost before the stream.
FlowInv ==
    ~StreamGone /\ ~Ended =>
        Taken + rq + (IF stream = "back" THEN 1 ELSE 0) = numWritten + Least(Taken, N)

\* The workers of the pool, the stream and the request start together.
StartInv ==
    /\ stream = "idle" <=> put = "idle"
    /\ \A w \in pool : worker[w].pc = "idle" <=> stream = "idle"
    /\ \A w \in Workers \ pool : worker[w].pc = "idle"
    /\ stream = "idle" => main = "get" \/ Ended
    /\ stream # "idle" => N > 0
    /\ stream = "dropped" => put \in {"Ok", "Err"}
    /\ main = "send" => FrameRead

LEMMA FlowStep == TypeInv /\ FlowInv /\ [Next]_vars => FlowInv'
<1> SUFFICES ASSUME TypeInv, FlowInv, [Next]_vars PROVE FlowInv'
  OBVIOUS
<1>0. /\ fr \in Nat /\ rq \in Nat /\ numWritten \in Nat /\ N \in Nat
  BY Constants, PoolSize DEF TypeInv, TypeOK
<1> USE DEF FlowInv, Taken, StreamGone, Ended, Least
<1>1. CASE Caller
  <2>1. CASE Open
    <3>1. /\ fr' = fr /\ main = "get" /\ main' = "buffer" /\ stream' = "recv"
          /\ UNCHANGED <<pool, rq, numWritten>> /\ stream = "idle" /\ N' = N
      BY <2>1 DEF Open, SplitHeader, TypeInv, N
    <3> QED  BY <1>0, <3>1
  <2>2. CASE MainFresh \/ MainRecycle \/ MainOrphaned
    <3>1. /\ fr' = fr /\ main = "buffer" /\ main' = "read" /\ UNCHANGED <<stream, numWritten>>
          /\ N' = N
          /\ \/ fr < N /\ rq' = rq
             \/ fr >= N /\ rq' = rq - 1
             \/ stream \in {"ended", "dropped"}
      BY <2>2 DEF MainFresh, MainRecycle, MainOrphaned, readVars, streamVars, N
    <3> QED  BY <1>0, <3>1
  <2>3. CASE MainSend
    <3>1. /\ fr' = fr + 1 /\ main = "send" /\ main' = "buffer"
          /\ UNCHANGED <<stream, numWritten, rq>> /\ N' = N
      BY <2>3 DEF MainSend, NextFrame, streamVars, N
    <3> QED  BY <1>0, <3>1
  <2>4. CASE OpenFails \/ MainRead \/ MainReadFails \/ MainFilled \/ MainEof
             \/ MainJoinPut \/ MainJoinWorkers
    <3>1. fr' = fr /\ UNCHANGED <<stream, numWritten, rq>> /\ N' = N
      BY <2>4 DEF OpenFails, MainRead, MainReadFails, MainFilled, MainEof,
           MainJoinPut, MainJoinWorkers, NextChunk, TakeAll, TakePart, mainVars,
           readVars, streamVars, N
    <3>2. \/ main' \in {"returned", "panicked"}
          \/ main' \in {"read", "send"} <=> main \in {"read", "send"}
      BY <2>4 DEF OpenFails, MainRead, MainReadFails, MainFilled, MainEof,
           MainJoinPut, MainJoinWorkers, Return, Panic, mainVars
    <3>3. main \in {"returned", "panicked"} => FALSE
      BY <2>4 DEF OpenFails, MainRead, MainReadFails, MainFilled, MainEof,
           MainJoinPut, MainJoinWorkers
    <3> QED  BY <1>0, <3>1, <3>2, <3>3
  <2> QED
    BY <1>1, <2>1, <2>2, <2>3, <2>4 DEF Caller
<1>2. CASE Stream
  <2>0. UNCHANGED <<fr, main>> /\ N' = N
    BY <1>2 DEF Stream, StreamHeader, StreamRecv, StreamBye, StreamClosed,
                StreamStash, StreamYield, StreamBack, readVars, mainVars, N
  <2>1. CASE StreamYield
    <3>1. /\ stream = "place" /\ stream' = "back" /\ numWritten' = numWritten + 1
          /\ rq' = rq
      BY <2>1 DEF StreamYield
    <3> QED  BY <1>0, <2>0, <3>1
  <2>2. CASE StreamBack
    <3>1. /\ stream = "back" /\ stream' # "back" /\ numWritten' = numWritten
          /\ ~Ended => rq' = rq + 1
      BY <2>2 DEF StreamBack, RrxOpen
    <3> QED  BY <1>0, <2>0, <3>1
  <2>3. CASE StreamHeader \/ StreamRecv \/ StreamBye \/ StreamClosed \/ StreamStash
    <3>1. UNCHANGED <<numWritten, rq>> /\ stream' # "back" /\ ~StreamGone
      BY <2>3 DEF StreamHeader, StreamRecv, StreamBye, StreamClosed, StreamStash
    <3>2. stream # "back"
      BY <2>3 DEF StreamHeader, StreamRecv, StreamBye, StreamClosed, StreamStash
    <3> QED  BY <1>0, <2>0, <3>1, <3>2
  <2> QED
    BY <1>2, <2>1, <2>2, <2>3 DEF Stream
<1>3. CASE Request
  <2>1. UNCHANGED <<fr, main, rq, numWritten>> /\ N' = N
        /\ (stream' = stream \/ stream' = "dropped")
    BY <1>3 DEF Request, PutEnds, StreamDropped, readVars, mainVars, streamVars, N
  <2> QED  BY <1>0, <2>1
<1>4. ASSUME UNCHANGED <<fr, main, rq, numWritten, stream, pool>> PROVE FlowInv'
  <2>1. N' = N
    BY <1>4 DEF N
  <2> QED  BY <1>4, <2>1
<1>5. ASSUME NEW w \in Workers, Worker(w) PROVE FlowInv'
  BY <1>4, <1>5 DEF Worker, WorkerRecv, WorkerClosed, WorkerProcess, WorkerSend,
       WorkerBye, readVars, mainVars, streamVars
<1>6. CASE UNCHANGED vars
  BY <1>4, <1>6 DEF vars, readVars, mainVars, streamVars
<1> QED
  BY <1>1, <1>2, <1>3, <1>5, <1>6 DEF Next

LEMMA StartStep == TypeInv /\ StartInv /\ [Next]_vars => StartInv'
<1> SUFFICES ASSUME TypeInv, StartInv, [Next]_vars PROVE StartInv'
  OBVIOUS
<1>1. CASE Open
  <2>1. /\ stream' = "recv" /\ put' = "sending" /\ main' = "buffer" /\ pool' = pool
        /\ N > 0 /\ N' = N /\ pool \subseteq Workers
    BY <1>1 DEF Open, N, TypeInv, TypeOK
  <2>2. worker' = [w \in Workers |->
                     IF w \in pool THEN [worker[w] EXCEPT !.pc = "recv"] ELSE worker[w]]
    BY <1>1 DEF Open
  <2>3. /\ \A w \in pool : worker'[w].pc = "recv"
        /\ \A w \in Workers \ pool : worker'[w] = worker[w]
    BY <2>1, <2>2 DEF TypeInv, TypeOK
  <2> QED  BY <2>1, <2>3 DEF StartInv
<1>2. CASE Caller /\ ~Open
  <2>1. UNCHANGED <<stream, put, worker, pool>> /\ N' = N
    BY <1>2 DEF Caller, OpenFails, MainFresh, MainRecycle, MainOrphaned, MainRead,
         MainReadFails, MainFilled, MainSend, MainEof, MainJoinPut, MainJoinWorkers,
         mainVars, workerVars, streamVars, putVars, N
  <2>2. \/ main' \in {"returned", "panicked"}
        \/ main # "get" /\ ~Ended /\ main' \in {"buffer", "read", "send", "await", "join"}
    BY <1>2 DEF Caller, OpenFails, MainFresh, MainRecycle, MainOrphaned, MainRead,
         MainReadFails, MainFilled, MainSend, MainEof, MainJoinPut, MainJoinWorkers,
         Return, Panic, mainVars, Ended
  <2>3. main' = "send" => FrameRead'
    <3> SUFFICES ASSUME main' = "send" PROVE FrameRead'
      OBVIOUS
    <3>1. MainFilled
      BY <1>2 DEF Caller, OpenFails, MainFresh, MainRecycle, MainOrphaned, MainRead,
         MainReadFails, MainFilled, MainSend, MainEof, MainJoinPut, MainJoinWorkers,
         Return, Panic, mainVars
    <3> QED  BY <3>1 DEF MainFilled, FrameRead, ToRead, readVars
  <2> QED  BY <2>1, <2>2, <2>3 DEF StartInv, Ended
<1>3. CASE Stream
  <2>1. /\ UNCHANGED <<put, worker, pool, main, buf>> /\ N' = N
        /\ stream \in {"recv", "place", "back"}
        /\ stream' \in {"recv", "place", "back", "ended"}
    BY <1>3 DEF Stream, StreamHeader, StreamRecv, StreamBye, StreamClosed, StreamStash,
         StreamYield, StreamBack, readVars, mainVars, workerVars, putVars, N
  <2>2. FrameRead' = FrameRead
    BY <2>1 DEF FrameRead, ToRead
  <2> QED  BY <2>1, <2>2 DEF StartInv, Ended
<1>4. CASE Request
  <2>1. /\ UNCHANGED <<worker, pool, main, buf>> /\ N' = N
        /\ \/ put = "sending" /\ put' \in {"Ok", "Err"} /\ stream' = stream
           \/ put \in {"Ok", "Err"} /\ put' = put /\ stream # "idle" /\ stream' = "dropped"
    BY <1>4 DEF Request, PutEnds, StreamDropped, readVars, mainVars, workerVars, streamVars,
                putVars, N
  <2>2. FrameRead' = FrameRead
    BY <2>1 DEF FrameRead, ToRead
  <2> QED  BY <2>1, <2>2 DEF StartInv, Ended
<1>5. ASSUME UNCHANGED <<stream, put, pool, main, buf>>,
             \A w \in Workers : worker'[w].pc = "idle" <=> worker[w].pc = "idle"
      PROVE  StartInv'
  <2>1. FrameRead' = FrameRead /\ N' = N /\ pool \subseteq Workers
    BY <1>5 DEF FrameRead, ToRead, N, TypeInv, TypeOK
  <2> QED  BY <1>5, <2>1 DEF StartInv, Ended
<1>6. ASSUME NEW w \in Workers, Worker(w) PROVE StartInv'
  <2>1. UNCHANGED <<stream, put, pool, main, buf>>
    BY <1>6 DEF Worker, WorkerRecv, WorkerClosed, WorkerProcess, WorkerSend, WorkerBye,
         readVars, mainVars, streamVars, putVars
  <2>2. /\ \A v \in Workers : v # w => worker'[v] = worker[v]
        /\ worker[w].pc # "idle" /\ worker'[w].pc # "idle"
    BY <1>6 DEF Worker, WorkerRecv, WorkerClosed, WorkerProcess, WorkerSend, WorkerBye, Go,
         TypeInv, TypeOK
  <2> QED  BY <1>5, <2>1, <2>2
<1>7. CASE UNCHANGED vars
  BY <1>5, <1>7 DEF vars, readVars, mainVars, workerVars, streamVars, putVars
<1> QED
  BY <1>1, <1>2, <1>3, <1>4, <1>6, <1>7 DEF Next

\* The frames among the messages of a queue; and that none is there twice.
Mail(q) == {f \in Frames : \E i \in 1..Len(q) : q[i] = f}
Distinct(q) == \A i, j \in 1..Len(q) : q[i] \in Frames /\ q[i] = q[j] => i = j

\* The places a frame is in once it left ctx.
Names == {"worker", "wq", "stream", "reorder", "out"}
Place(p) ==
    CASE p = "worker"  -> {worker[w].fr : w \in {v \in Workers : Holding(v)}}
      [] p = "wq"      -> Mail(wq)
      [] p = "stream"  -> IF stream = "place" THEN {cur} ELSE {}
      [] p = "reorder" -> reorder
      [] p = "out"     -> 0..(numWritten - 1)

\* From here on a frame may be missing: a worker ended with one, or there is
\* no stream any more.
Lost == StreamGone \/ \E w \in Workers : worker[w].pc \in {"failed", "panicked"}

\* No two workers hold the same frame.
Single == \A v, w \in Workers :
            Holding(v) /\ Holding(w) /\ worker[v].fr = worker[w].fr => v = w
Apart == \A p, q \in Names : p # q => Place(p) \cap Place(q) = {}
Kept  == Lost \/ \A f \in Frames : f < First => \E p \in Names : f \in Place(p)
Spread == Apart /\ Kept

PathInv == Single /\ Distinct(wq) /\ Spread

\* A stream that waits does not have the frame whose turn it is.
WaitInv == stream \in {"idle", "recv", "place"} => numWritten \notin reorder

LEMMA MailOfTail ==
    ASSUME NEW S, NEW q \in Seq(S), q # <<>>, Distinct(q)
    PROVE  /\ Distinct(Tail(q))
           /\ Head(q) \notin Frames => Mail(Tail(q)) = Mail(q)
           /\ Head(q) \in Frames => /\ Head(q) \in Mail(q)
                                    /\ Mail(Tail(q)) = Mail(q) \ {Head(q)}
<1> DEFINE t == Tail(q)
<1>1. /\ Len(q) \in Nat /\ Len(q) > 0 /\ Head(q) = q[1] /\ Len(t) = Len(q) - 1
      /\ \A i \in 1..Len(t) : t[i] = q[i + 1] /\ i + 1 \in 1..Len(q)
  OBVIOUS
<1> HIDE DEF t
<1>2. Distinct(t)
  BY <1>1 DEF Distinct
<1>3. \A i \in 1..Len(q) : i = 1 \/ (i - 1 \in 1..Len(t) /\ t[i - 1] = q[i])
  BY <1>1
<1>4. Mail(t) \subseteq Mail(q)
  BY <1>1 DEF Mail
<1>5. Mail(q) \subseteq Mail(t) \cup {Head(q)}
  BY <1>1, <1>3 DEF Mail
<1>6. 1 \in 1..Len(q)
  BY <1>1
<1>7. Head(q) \in Frames => Head(q) \in Mail(q)
  BY <1>1, <1>6 DEF Mail
<1>8. Head(q) \notin Mail(t)
  <2> SUFFICES ASSUME NEW i \in 1..Len(t), t[i] = Head(q), Head(q) \in Frames PROVE FALSE
    BY DEF Mail
  <2>1. q[i + 1] = q[1] /\ i + 1 \in 1..Len(q) /\ i + 1 # 1 /\ q[1] \in Frames
    BY <1>1
  <2> QED  BY <1>6, <2>1 DEF Distinct
<1>9. Head(q) \notin Frames => Head(q) \notin Mail(q)
  BY DEF Mail
<1> QED
  BY <1>2, <1>4, <1>5, <1>7, <1>8, <1>9 DEF t

LEMMA MailOfAppend ==
    ASSUME NEW S, NEW q \in Seq(S), NEW m \in S
    PROVE  /\ Mail(Append(q, m)) = IF m \in Frames THEN Mail(q) \cup {m} ELSE Mail(q)
           /\ Distinct(q) /\ m \notin Mail(q) => Distinct(Append(q, m))
<1> DEFINE a == Append(q, m)
<1>1. /\ Len(q) \in Nat /\ Len(a) = Len(q) + 1 /\ a[Len(q) + 1] = m
      /\ \A i \in 1..Len(q) : a[i] = q[i]
  OBVIOUS
<1> HIDE DEF a
<1>2. \A i \in 1..Len(a) : i \in 1..Len(q) \/ i = Len(q) + 1
  BY <1>1
<1>3. 1..Len(q) \subseteq 1..Len(a) /\ Len(q) + 1 \in 1..Len(a)
  BY <1>1
<1>4. Mail(a) \subseteq Mail(q) \cup {m} /\ Mail(a) \subseteq Frames
  BY <1>1, <1>2 DEF Mail
<1>5. Mail(q) \subseteq Mail(a) /\ (m \in Frames => m \in Mail(a))
  BY <1>1, <1>3 DEF Mail
<1>6. ASSUME Distinct(q), m \notin Mail(q) PROVE Distinct(a)
  <2>1. \A i \in 1..Len(q) : q[i] \in Frames => q[i] # m
    BY <1>6 DEF Mail
  <2> QED  BY <1>1, <1>2, <1>6, <2>1 DEF Distinct
<1>7. Mail(q) \subseteq Frames
  BY DEF Mail
<1> QED
  BY <1>4, <1>5, <1>6, <1>7 DEF a

LEMMA PlacesAre ==
    /\ Place("worker") = {worker[w].fr : w \in {v \in Workers : Holding(v)}}
    /\ Place("wq") = Mail(wq)
    /\ Place("stream") = IF stream = "place" THEN {cur} ELSE {}
    /\ Place("reorder") = reorder
    /\ Place("out") = 0..(numWritten - 1)
  BY DEF Place

LEMMA PlacesAreNext ==
    /\ Place("worker")' = {worker'[w].fr : w \in {v \in Workers :
                                              worker'[v].pc \in {"process", "send"}}}
    /\ Place("wq")' = Mail(wq')
    /\ Place("stream")' = IF stream' = "place" THEN {cur'} ELSE {}
    /\ Place("reorder")' = reorder'
    /\ Place("out")' = 0..(numWritten' - 1)
  BY DEF Place, Holding, Mail

\* What left ctx is older than what is on it.
LEMMA PlacesOlder ==
    ASSUME TypeInv, PlaceInv
    PROVE  /\ First \in Int
           /\ \A p \in Names : Place(p) \subseteq Frames
           /\ \A p \in Names : First \notin Place(p)
<1>1. First \in Int /\ numWritten \in 0..NumFrames /\ NumFrames \in Nat
      /\ numWritten <= First
  BY PlaceTypes, Constants DEF TypeInv, TypeOK, PlaceInv
<1>2. Place("worker") \subseteq Frames /\ First \notin Place("worker")
  BY <1>1, PlacesAre DEF TypeInv, PlaceInv
<1>3. Place("wq") \subseteq Frames /\ First \notin Place("wq")
  BY <1>1, PlacesAre DEF Mail, PlaceInv
<1>4. Place("stream") \subseteq Frames /\ First \notin Place("stream")
  BY <1>1, PlacesAre DEF TypeInv, PlaceInv
<1>5. Place("reorder") \subseteq Frames /\ First \notin Place("reorder")
  BY <1>1, PlacesAre DEF TypeInv, TypeOK, PlaceInv
<1>6. Place("out") \subseteq Frames /\ First \notin Place("out")
  BY <1>1, PlacesAre DEF Frames
<1> QED
  BY <1>1, <1>2, <1>3, <1>4, <1>5, <1>6 DEF Names

\* A step that moves no frame, or at most loses one and says so.
LEMMA Rests ==
    ASSUME Spread, Lost => Lost', First' = First,
           \A p \in Names : Place(p)' \subseteq Place(p),
           \/ Lost'
           \/ \A p \in Names : Place(p)' = Place(p)
    PROVE  Spread'
  BY DEF Spread, Apart, Kept

\* A step that takes a frame from place p to place q.
LEMMA Moves ==
    ASSUME Spread, Lost => Lost', First' = First,
           NEW p \in Names, NEW q \in Names, p # q, NEW f \in Place(p),
           Place(p)' = Place(p) \ {f}, Place(q)' = Place(q) \cup {f},
           \A r \in Names \ {p, q} : Place(r)' = Place(r)
    PROVE  Spread'
<1>1. Apart'
  BY DEF Spread, Apart
<1>2. Kept'
  <2> SUFFICES ASSUME ~Lost', NEW g \in Frames, g < First
               PROVE  \E r \in Names : g \in Place(r)'
    BY DEF Kept
  <2>1. PICK r \in Names : g \in Place(r)
    BY DEF Spread, Kept
  <2>2. CASE g = f
    BY <2>2
  <2>3. CASE g # f
    <3>1. g \in Place(r)'
      BY <2>1, <2>3
    <3> QED  BY <3>1
  <2> QED  BY <2>2, <2>3
<1> QED
  BY <1>1, <1>2 DEF Spread

\* A step that takes the oldest frame of ctx to place q.
LEMMA Enters ==
    ASSUME Spread, Lost => Lost', First \in Int, First' = First + 1,
           Frames \subseteq Int,
           \A r \in Names : First \notin Place(r),
           NEW q \in Names, Place(q)' = Place(q) \cup {First},
           \A r \in Names \ {q} : Place(r)' = Place(r)
    PROVE  Spread'
<1>1. Apart'
  BY DEF Spread, Apart
<1>2. Kept'
  <2> SUFFICES ASSUME ~Lost', NEW f \in Frames, f < First + 1
               PROVE  \E r \in Names : f \in Place(r)'
    BY DEF Kept
  <2>1. CASE f = First
    BY <2>1
  <2>2. CASE f # First
    <3>1. f < First
      BY <2>2
    <3>2. PICK r \in Names : f \in Place(r)
      BY <3>1 DEF Spread, Kept
    <3>3. f \in Place(r)'
      BY <3>2
    <3> QED  BY <3>3
  <2> QED  BY <2>1, <2>2
<1> QED
  BY <1>1, <1>2 DEF Spread

LEMMA LostStays == TypeInv /\ StartInv /\ [Next]_vars => (Lost => Lost')
<1> SUFFICES ASSUME TypeInv, StartInv, [Next]_vars, Lost PROVE Lost'
  OBVIOUS
<1>1. CASE Open
  <2>1. stream = "idle" /\ main = "get" /\ pool \subseteq Workers
    BY <1>1 DEF Open, TypeInv, TypeOK
  <2>2. \A w \in Workers : worker[w].pc = "idle"
    BY <2>1 DEF StartInv
  <2> QED  BY <2>1, <2>2 DEF Lost, StreamGone
<1>2. CASE (Caller /\ ~Open) \/ UNCHANGED vars
  <2>1. UNCHANGED <<worker, stream>>
    BY <1>2 DEF Caller, OpenFails, MainFresh, MainRecycle, MainOrphaned, MainRead,
         MainReadFails, MainFilled, MainSend, MainEof, MainJoinPut, MainJoinWorkers,
         workerVars, streamVars, vars
  <2> QED  BY <2>1 DEF Lost, StreamGone
<1>3. CASE Stream
  <2>1. worker' = worker /\ ~StreamGone
    BY <1>3 DEF Stream, StreamHeader, StreamRecv, StreamBye, StreamClosed, StreamStash,
         StreamYield, StreamBack, workerVars, StreamGone
  <2> QED  BY <2>1 DEF Lost
<1>4. CASE Request
  <2>1. worker' = worker /\ (stream' = stream \/ stream' = "dropped")
    BY <1>4 DEF Request, PutEnds, StreamDropped, workerVars, streamVars
  <2> QED  BY <2>1 DEF Lost, StreamGone
<1>5. ASSUME NEW w \in Workers, Worker(w) PROVE Lost'
  <2>1. stream' = stream
    BY <1>5 DEF Worker, WorkerRecv, WorkerClosed, WorkerProcess, WorkerSend, WorkerBye,
         streamVars
  <2>2. /\ \A v \in Workers : v # w => worker'[v] = worker[v]
        /\ worker[w].pc \notin {"failed", "panicked"}
    BY <1>5 DEF Worker, WorkerRecv, WorkerClosed, WorkerProcess, WorkerSend, WorkerBye, Go,
         TypeInv, TypeOK
  <2> QED  BY <2>1, <2>2 DEF Lost, StreamGone
<1> QED
  BY <1>1, <1>2, <1>3, <1>4, <1>5 DEF Next

\* What the workers hold, when w goes on.
LEMMA WorkerHolds ==
    ASSUME Single, NEW w \in Workers,
           \A v \in Workers : v # w => worker'[v] = worker[v]
    PROVE  /\ ~Holding(w) /\ ~Holding(w)' => Place("worker")' = Place("worker") /\ Single'
           /\ ~Holding(w) /\ Holding(w)' =>
                Place("worker")' = Place("worker") \cup {worker'[w].fr}
           /\ Holding(w) /\ Holding(w)' /\ worker'[w].fr = worker[w].fr =>
                Place("worker")' = Place("worker") /\ Single'
           /\ Holding(w) /\ ~Holding(w)' =>
                /\ Place("worker")' = Place("worker") \ {worker[w].fr}
                /\ worker[w].fr \in Place("worker")
                /\ Single'
<1>1. \A v \in Workers : v # w => (Holding(v)' <=> Holding(v)) /\ worker'[v].fr = worker[v].fr
  BY DEF Holding
<1>2. /\ Place("worker") = {worker[v].fr : v \in {u \in Workers : Holding(u)}}
      /\ Place("worker")' = {worker'[v].fr : v \in {u \in Workers : Holding(u)'}}
  BY PlacesAre, PlacesAreNext DEF Holding
<1>3. Single' <=> \A v, u \in Workers :
                    Holding(v)' /\ Holding(u)' /\ worker'[v].fr = worker'[u].fr => v = u
  BY DEF Single, Holding
<1>4. ~Holding(w)' => Single'
  BY <1>1, <1>3 DEF Single
<1>5. ~Holding(w) /\ ~Holding(w)' => Place("worker")' = Place("worker")
  BY <1>1, <1>2
<1>6. ~Holding(w) /\ Holding(w)' => Place("worker")' = Place("worker") \cup {worker'[w].fr}
  BY <1>1, <1>2
<1>7. Holding(w) /\ Holding(w)' /\ worker'[w].fr = worker[w].fr =>
        Place("worker")' = Place("worker") /\ Single'
  BY <1>1, <1>2, <1>3 DEF Single
<1>8. ASSUME Holding(w), ~Holding(w)'
      PROVE  /\ Place("worker")' = Place("worker") \ {worker[w].fr}
             /\ worker[w].fr \in Place("worker")
  <2>1. worker[w].fr \in Place("worker")
    BY <1>2, <1>8
  <2>2. Place("worker")' \subseteq Place("worker") \ {worker[w].fr}
    BY <1>1, <1>2, <1>8 DEF Single
  <2>3. Place("worker") \ {worker[w].fr} \subseteq Place("worker")'
    BY <1>1, <1>2, <1>8 DEF Single
  <2> QED  BY <2>1, <2>2, <2>3
<1> QED
  BY <1>4, <1>5, <1>6, <1>7, <1>8

LEMMA CallerPath ==
    ASSUME TypeInv, ReadInv, PlaceInv, StartInv, PathInv, Caller PROVE PathInv'
<1>0. /\ fr \in Nat /\ ctx \in Seq(Nat) /\ Len(ctx) \in Nat /\ Len(ctx) <= fr
      /\ First = fr - Len(ctx)
  <2>1. fr \in Nat /\ ctx \in Seq(Nat)
    BY PlaceTypes
  <2> QED  BY <2>1 DEF PlaceInv, First
<1>1. CASE Open
  <2>1. stream = "idle" /\ main = "get" /\ pool \subseteq Workers /\ fr = 0
    BY <1>1 DEF Open, SplitHeader, TypeInv, TypeOK, ReadInv
  <2>2. \A w \in Workers : worker[w].pc = "idle"
    BY <2>1 DEF StartInv
  <2>3. /\ worker' = [w \in Workers |->
                        IF w \in pool THEN [worker[w] EXCEPT !.pc = "recv"] ELSE worker[w]]
        /\ wq' = <<Hdr>> /\ stream' = "recv" /\ UNCHANGED <<fr, ctx, cur, reorder, numWritten>>
    BY <1>1 DEF Open, SplitHeader
  <2>4. \A w \in Workers : worker'[w].pc \notin {"process", "send"}
    BY <2>2, <2>3 DEF TypeInv, TypeOK
  <2>5. Mail(wq') = {} /\ Distinct(wq')
    <3>1. Len(wq') = 1 /\ wq'[1] = Hdr
      BY <2>3
    <3>2. \A i \in 1..Len(wq') : wq'[i] = Hdr
      BY <3>1
    <3> QED  BY <3>2, Constants DEF Mail, Distinct
  <2>6. First' = 0
    <3>1. First' = First
      BY <2>3 DEF First
    <3> QED  BY <1>0, <2>1, <3>1
  <2>7. \A p \in Names : Place(p)' \subseteq Place(p)
    BY <2>3, <2>4, <2>5, PlacesAre, PlacesAreNext DEF Names
  <2>8. Single'
    BY <2>4 DEF Single, Holding
  <2>9. Apart'
    BY <2>7 DEF PathInv, Spread, Apart
  <2>10. Kept'
    BY <2>6 DEF Kept, Frames
  <2> QED  BY <2>5, <2>8, <2>9, <2>10 DEF PathInv, Spread, Distinct
<1>2. CASE ~Open
  <2>1. UNCHANGED <<worker, wq, stream, cur, reorder, numWritten>>
    BY <1>2 DEF Caller, OpenFails, MainFresh, MainRecycle, MainOrphaned, MainRead,
         MainReadFails, MainFilled, MainSend, MainEof, MainJoinPut, MainJoinWorkers,
         workerVars, streamVars
  <2>2. \/ UNCHANGED <<fr, ctx>>
        \/ fr' = fr + 1 /\ ctx' = Append(ctx, fr)
    BY <1>2 DEF Caller, OpenFails, MainFresh, MainRecycle, MainOrphaned, MainRead,
         MainReadFails, MainFilled, MainSend, MainEof, MainJoinPut, MainJoinWorkers,
         NextChunk, TakeAll, TakePart, NextFrame, readVars
  <2>3. First' = First
    <3>1. ctx' = Append(ctx, fr) => Len(ctx') = Len(ctx) + 1
      BY <1>0
    <3> QED  BY <1>0, <2>2, <3>1 DEF First
  <2>4. Lost => Lost'
    BY <2>1 DEF Lost, StreamGone
  <2>5. \A p \in Names : Place(p)' = Place(p)
    BY <2>1 DEF Place, Holding, Mail
  <2>6. Spread'
    BY <2>3, <2>4, <2>5, Rests DEF PathInv
  <2> QED  BY <2>1, <2>6 DEF PathInv, Single, Distinct, Holding
<1> QED
  BY <1>1, <1>2

LEMMA WorkerPath ==
    ASSUME TypeInv, PlaceInv, StartInv, PathInv, NEW w \in Workers, Worker(w) PROVE PathInv'
<1>1. UNCHANGED <<fr, stream, cur, reorder, numWritten>>
  BY DEF Worker, WorkerRecv, WorkerClosed, WorkerProcess, WorkerSend, WorkerBye, readVars,
         streamVars
<1>2. \A v \in Workers : v # w => worker'[v] = worker[v]
  BY DEF TypeInv, TypeOK, Worker, WorkerRecv, WorkerClosed, WorkerProcess, WorkerSend,
         WorkerBye, Go
<1>3. Lost => Lost'
  BY LostStays DEF Next
<1>4. /\ Place("stream")' = Place("stream") /\ Place("reorder")' = Place("reorder")
      /\ Place("out")' = Place("out")
      /\ wq' = wq => Place("wq")' = Place("wq")
  BY <1>1, PlacesAre, PlacesAreNext
<1>5. Single /\ Spread /\ Distinct(wq) /\ TypeOK
  BY DEF PathInv, TypeInv
<1>6. ctx' = ctx => First' = First
  BY <1>1 DEF First
<1>7. ASSUME ctx' = ctx, Place("wq")' = Place("wq"), Distinct(wq'),
             Place("worker")' \subseteq Place("worker"), Single',
             Lost' \/ Place("worker")' = Place("worker")
      PROVE  PathInv'
  <2>1. /\ \A p \in Names : Place(p)' \subseteq Place(p)
        /\ Lost' \/ \A p \in Names : Place(p)' = Place(p)
    BY <1>4, <1>7 DEF Names
  <2>2. Spread'
    BY <1>3, <1>5, <1>6, <1>7, <2>1, Rests
  <2> QED  BY <1>7, <2>2 DEF PathInv, Distinct
<1>8. CASE WorkerRecv(w)
  <2>1. /\ ~Holding(w) /\ worker'[w] = [pc |-> "process", fr |-> Head(ctx)]
        /\ ctx # <<>> /\ ctx' = Tail(ctx) /\ wq' = wq
    BY <1>5, <1>8 DEF WorkerRecv, TypeOK, Holding
  <2>2. Head(ctx) = First /\ First' = First + 1
    <3>1. fr \in Nat /\ ctx \in Seq(Nat) /\ First \in Int
      BY PlaceTypes
    <3>2. /\ Len(ctx) \in Nat /\ Len(ctx) > 0 /\ Head(ctx) = ctx[1]
          /\ Len(ctx') = Len(ctx) - 1
      BY <2>1, <3>1
    <3>3. ctx[1] = First + 1 - 1
      BY <3>2 DEF PlaceInv
    <3>4. First' = fr - (Len(ctx) - 1)
      BY <1>1, <3>2 DEF First
    <3> QED  BY <3>1, <3>2, <3>3, <3>4 DEF First
  <2>3. Place("worker")' = Place("worker") \cup {First}
    <3>1. Holding(w)' /\ worker'[w].fr = First
      BY <2>1, <2>2 DEF Holding
    <3> QED  BY <1>2, <1>5, <2>1, <3>1, WorkerHolds
  <2>4. \A r \in Names \ {"worker"} : Place(r)' = Place(r)
    BY <1>4, <2>1 DEF Names
  <2>5. Spread'
    <3>1. /\ Frames \subseteq Int /\ First \in Int
          /\ \A r \in Names : First \notin Place(r)
      BY Constants, PlacesOlder
    <3>2. "worker" \in Names
      BY DEF Names
    <3> QED  BY <1>3, <1>5, <2>2, <2>3, <2>4, <3>1, <3>2, Enters
  <2>6. Single'
    <3>1. First \notin Place("worker")
      BY PlacesOlder DEF Names
    <3>2. \A v \in Workers : Holding(v) => worker[v].fr # First
      BY <3>1, PlacesAre
    <3>3. worker'[w].fr = First
      BY <2>1, <2>2
    <3> QED  BY <1>2, <1>5, <3>2, <3>3 DEF Single, Holding
  <2> QED  BY <1>5, <2>1, <2>5, <2>6 DEF PathInv, Distinct
<1>9. CASE WorkerClosed(w)
  <2>1. ~Holding(w) /\ ~Holding(w)' /\ ctx' = ctx /\ wq' = wq
    BY <1>5, <1>9 DEF WorkerClosed, Go, Holding, TypeOK
  <2>2. Place("worker")' = Place("worker") /\ Single'
    BY <1>2, <1>5, <2>1, WorkerHolds
  <2> QED  BY <1>4, <1>5, <1>7, <2>1, <2>2
<1>10. CASE WorkerProcess(w)
  <2>1. /\ Holding(w) /\ worker'[w].fr = worker[w].fr /\ ctx' = ctx /\ wq' = wq
        /\ worker'[w].pc \in {"send", "panicked"}
    BY <1>5, <1>10 DEF WorkerProcess, Go, Holding, TypeOK
  <2>2. Holding(w)' \/ (~Holding(w)' /\ Lost')
    BY <2>1 DEF Holding, Lost
  <2>3. /\ Place("worker")' \subseteq Place("worker") /\ Single'
        /\ Lost' \/ Place("worker")' = Place("worker")
    BY <1>2, <1>5, <2>1, <2>2, WorkerHolds
  <2> QED  BY <1>4, <1>5, <1>7, <2>1, <2>3
<1>11. CASE WorkerSend(w) /\ StreamGone
  <2>1. /\ Holding(w) /\ worker'[w].pc = "failed" /\ ctx' = ctx /\ wq' = wq
    BY <1>5, <1>11 DEF WorkerSend, Go, Holding, TypeOK
  <2>2. ~Holding(w)' /\ Lost'
    BY <2>1 DEF Holding, Lost
  <2>3. Place("worker")' \subseteq Place("worker") /\ Single'
    BY <1>2, <1>5, <2>1, <2>2, WorkerHolds
  <2> QED  BY <1>4, <1>5, <1>7, <2>1, <2>2, <2>3
<1>12. CASE WorkerSend(w) /\ ~StreamGone
  <2> DEFINE f == worker[w].fr
  <2>1. /\ Holding(w) /\ worker'[w].pc = "recv" /\ f \in Frames
        /\ ctx' = ctx /\ wq' = Append(wq, f)
    BY <1>5, <1>12 DEF WorkerSend, Go, Holding, TypeOK, TypeInv
  <2>2. /\ Place("worker")' = Place("worker") \ {f} /\ f \in Place("worker") /\ Single'
    <3>1. ~Holding(w)'
      BY <2>1 DEF Holding
    <3> QED  BY <1>2, <1>5, <2>1, <3>1, WorkerHolds
  <2> HIDE DEF f
  <2>3. wq \in Seq(Frames \cup {Bye, Hdr}) /\ f \in Frames \cup {Bye, Hdr}
    BY <2>1, PlaceTypes
  <2>4. Place("wq")' = Place("wq") \cup {f}
    BY <2>1, <2>3, MailOfAppend, PlacesAre, PlacesAreNext
  <2>5. \A r \in Names \ {"worker", "wq"} : Place(r)' = Place(r)
    BY <1>4 DEF Names
  <2>6. "worker" \in Names /\ "wq" \in Names /\ "worker" # "wq"
    BY DEF Names
  <2>7. Spread'
    BY <1>3, <1>5, <1>6, <2>1, <2>2, <2>4, <2>5, <2>6, Moves
  <2>8. f \notin Mail(wq)
    BY <1>5, <2>2, <2>6, PlacesAre DEF Spread, Apart
  <2>9. Distinct(wq')
    BY <1>5, <2>1, <2>3, <2>8, MailOfAppend
  <2> QED  BY <2>2, <2>7, <2>9 DEF PathInv, Distinct
<1>13. CASE WorkerBye(w)
  <2>1. /\ ~Holding(w) /\ ctx' = ctx /\ wq' \in {wq, Append(wq, Bye)}
        /\ worker'[w].pc \in {"panicked", "exited"}
    BY <1>5, <1>13 DEF WorkerBye, Go, Holding, TypeOK
  <2>2. ~Holding(w)'
    BY <2>1 DEF Holding
  <2>3. Place("worker")' = Place("worker") /\ Single'
    BY <1>2, <1>5, <2>1, <2>2, WorkerHolds
  <2>4. Mail(wq') = Mail(wq) /\ Distinct(wq')
    <3>1. wq \in Seq(Frames \cup {Bye, Hdr}) /\ Bye \in Frames \cup {Bye, Hdr}
      BY PlaceTypes
    <3>2. Bye \notin Frames /\ Bye \notin Mail(wq)
      BY Constants DEF Mail
    <3> QED  BY <1>5, <2>1, <3>1, <3>2, MailOfAppend
  <2>5. Place("wq")' = Place("wq")
    BY <2>4, PlacesAre, PlacesAreNext
  <2> QED  BY <1>7, <2>1, <2>3, <2>4, <2>5
<1> QED
  BY <1>8, <1>9, <1>10, <1>11, <1>12, <1>13 DEF Worker

LEMMA StreamPath ==
    ASSUME TypeInv, PlaceInv, StartInv, PathInv, Stream PROVE PathInv'
<1>1. UNCHANGED <<fr, ctx, worker>>
  BY DEF Stream, StreamHeader, StreamRecv, StreamBye, StreamClosed, StreamStash,
         StreamYield, StreamBack, readVars, workerVars
<1>2. Lost => Lost'
  BY LostStays DEF Next
<1>3. First' = First /\ Single'
  BY <1>1 DEF PathInv, Single, Holding, First
<1>4. Place("worker")' = Place("worker")
  BY <1>1 DEF Place, Holding
<1>5. /\ Single /\ Spread /\ Distinct(wq) /\ wq \in Seq(Frames \cup {Bye, Hdr})
      /\ numWritten \in Nat
  BY PlaceTypes DEF PathInv
<1>6. /\ wq' = wq => Place("wq")' = Place("wq") /\ Distinct(wq')
      /\ reorder' = reorder => Place("reorder")' = Place("reorder")
      /\ numWritten' = numWritten => Place("out")' = Place("out")
      /\ stream = "place" => cur \in Place("stream") /\ Place("stream") = {cur}
      /\ stream # "place" => Place("stream") = {}
      /\ stream' = "place" => Place("stream")' = {cur'}
      /\ stream' # "place" => Place("stream")' = {}
  BY <1>5, PlacesAre, PlacesAreNext
<1>7. Names = {"worker", "wq", "stream", "reorder", "out"}
  BY DEF Names
<1>8. ASSUME Distinct(wq'), \A p \in Names : Place(p)' = Place(p) PROVE PathInv'
  <2>1. Spread'
    BY <1>2, <1>3, <1>5, <1>8, Rests
  <2> QED  BY <1>3, <1>8, <2>1 DEF PathInv, Distinct
<1>9. ASSUME Distinct(wq'), NEW p \in Names, NEW q \in Names, p # q, NEW f \in Place(p),
             Place(p)' = Place(p) \ {f}, Place(q)' = Place(q) \cup {f},
             \A r \in Names \ {p, q} : Place(r)' = Place(r)
      PROVE  PathInv'
  <2>1. Spread'
    BY <1>2, <1>3, <1>5, <1>9, Moves
  <2> QED  BY <1>3, <1>9, <2>1 DEF PathInv, Distinct
<1>10. CASE StreamHeader \/ StreamBye
  <2>1. /\ stream = "recv" /\ stream' # "place" /\ wq # <<>> /\ wq' = Tail(wq)
        /\ Head(wq) \notin Frames /\ UNCHANGED <<reorder, numWritten>>
    BY <1>10, Constants DEF StreamHeader, StreamBye
  <2>2. Distinct(wq') /\ Place("wq")' = Place("wq")
    BY <1>5, <2>1, MailOfTail, PlacesAre, PlacesAreNext
  <2>3. \A p \in Names : Place(p)' = Place(p)
    BY <1>4, <1>6, <1>7, <2>1, <2>2
  <2> QED  BY <1>8, <2>2, <2>3
<1>11. CASE StreamRecv
  <2>1. /\ stream = "recv" /\ stream' = "place" /\ wq # <<>> /\ wq' = Tail(wq)
        /\ Head(wq) \in Frames /\ cur' = Head(wq) /\ UNCHANGED <<reorder, numWritten>>
    BY <1>11 DEF StreamRecv
  <2>2. /\ Distinct(wq') /\ cur' \in Place("wq")
        /\ Place("wq")' = Place("wq") \ {cur'}
    BY <1>5, <2>1, MailOfTail, PlacesAre, PlacesAreNext
  <2>3. Place("stream")' = Place("stream") \cup {cur'}
    BY <1>6, <2>1
  <2>4. \A r \in Names \ {"wq", "stream"} : Place(r)' = Place(r)
    BY <1>4, <1>6, <1>7, <2>1
  <2> QED  BY <1>7, <1>9, <2>2, <2>3, <2>4
<1>12. CASE StreamClosed
  <2>1. /\ stream = "recv" /\ stream' # "place" /\ UNCHANGED <<wq, reorder, numWritten>>
    BY <1>12 DEF StreamClosed
  <2>2. \A p \in Names : Place(p)' = Place(p)
    BY <1>4, <1>6, <1>7, <2>1
  <2> QED  BY <1>6, <1>8, <2>1, <2>2
<1>13. CASE StreamStash
  <2>1. /\ stream = "place" /\ stream' # "place" /\ reorder' = reorder \cup {cur}
        /\ UNCHANGED <<wq, numWritten>>
    BY <1>13 DEF StreamStash
  <2>2. /\ cur \in Place("stream") /\ Place("stream")' = Place("stream") \ {cur}
        /\ Place("reorder")' = Place("reorder") \cup {cur}
    BY <1>6, <2>1, PlacesAre, PlacesAreNext
  <2>3. \A r \in Names \ {"stream", "reorder"} : Place(r)' = Place(r)
    BY <1>4, <1>6, <1>7, <2>1
  <2> QED  BY <1>6, <1>7, <1>9, <2>1, <2>2, <2>3
<1>14. CASE StreamYield
  <2>1. /\ stream = "place" /\ stream' # "place" /\ cur = numWritten
        /\ numWritten' = numWritten + 1 /\ UNCHANGED <<wq, reorder>>
    BY <1>14 DEF StreamYield
  <2>2. /\ cur \in Place("stream") /\ Place("stream")' = Place("stream") \ {cur}
    BY <1>6, <2>1
  <2>3. Place("out")' = Place("out") \cup {cur}
    <3>1. 0..(numWritten + 1 - 1) = 0..(numWritten - 1) \cup {numWritten}
      BY <1>5
    <3> QED  BY <2>1, <3>1, PlacesAre, PlacesAreNext
  <2>4. \A r \in Names \ {"stream", "out"} : Place(r)' = Place(r)
    BY <1>4, <1>6, <1>7, <2>1
  <2> QED  BY <1>6, <1>7, <1>9, <2>1, <2>2, <2>3, <2>4
<1>15. CASE StreamBack
  <2>1. stream = "back" /\ UNCHANGED <<wq, numWritten>>
    BY <1>15 DEF StreamBack
  <2>2. CASE numWritten \in reorder /\ \A k \in reorder : numWritten <= k
    <3>1. /\ cur' = numWritten /\ reorder' = reorder \ {numWritten}
          /\ stream' = IF numWritten = NumFrames THEN "ended" ELSE "place"
      BY <1>15, <2>2 DEF StreamBack
    <3>2. numWritten \in Frames /\ numWritten # NumFrames
      BY <2>2, Constants DEF TypeInv, TypeOK, Frames
    <3>3. /\ cur' \in Place("reorder") /\ Place("reorder")' = Place("reorder") \ {cur'}
          /\ Place("stream")' = Place("stream") \cup {cur'}
      BY <1>6, <2>1, <2>2, <3>1, <3>2, PlacesAre, PlacesAreNext
    <3>4. \A r \in Names \ {"stream", "reorder"} : Place(r)' = Place(r)
      BY <1>4, <1>6, <1>7, <2>1
    <3> QED  BY <1>6, <1>7, <1>9, <2>1, <3>3, <3>4
  <2>3. CASE ~(numWritten \in reorder /\ \A k \in reorder : numWritten <= k)
    <3>1. reorder' = reorder /\ stream' = "recv"
      BY <1>15, <2>3 DEF StreamBack
    <3>2. \A p \in Names : Place(p)' = Place(p)
      BY <1>4, <1>6, <1>7, <2>1, <3>1
    <3> QED  BY <1>6, <1>8, <2>1, <3>2
  <2> QED  BY <2>2, <2>3
<1> QED
  BY <1>10, <1>11, <1>12, <1>13, <1>14, <1>15 DEF Stream

LEMMA PathStep ==
    ASSUME TypeInv, ReadInv, PlaceInv, StartInv, PathInv, [Next]_vars PROVE PathInv'
<1>1. CASE Request \/ UNCHANGED vars
  <2>1. /\ UNCHANGED <<fr, ctx, worker, wq, cur, reorder, numWritten>>
        /\ stream' = stream \/ stream' = "dropped"
    BY <1>1 DEF Request, PutEnds, StreamDropped, readVars, workerVars, streamVars, vars
  <2>2. First' = First /\ (Lost => Lost')
    BY <2>1 DEF First, Lost, StreamGone
  <2>3. \A p \in Names : Place(p)' \subseteq Place(p)
    BY <2>1, PlacesAre, PlacesAreNext DEF Names, Holding
  <2>4. Lost' \/ \A p \in Names : Place(p)' = Place(p)
    <3>1. CASE stream' = stream
      BY <2>1, <3>1 DEF Place, Holding, Mail
    <3>2. CASE stream' = "dropped"
      BY <3>2 DEF Lost, StreamGone
    <3> QED  BY <2>1, <3>1, <3>2
  <2>5. Spread'
    BY <2>2, <2>3, <2>4, Rests DEF PathInv
  <2> QED
    BY <2>1, <2>5 DEF PathInv, Single, Distinct, Holding
<1> QED
  BY <1>1, CallerPath, WorkerPath, StreamPath DEF Next

LEMMA WaitStep ==
    ASSUME TypeInv, PathInv, WaitInv, [Next]_vars PROVE WaitInv'
<1>1. CASE Stream
  <2>1. numWritten \in Nat /\ \A k \in reorder : k \in Nat
    BY PlaceTypes
  <2>2. CASE StreamHeader \/ StreamRecv \/ StreamBye \/ StreamClosed
    BY <2>2 DEF StreamHeader, StreamRecv, StreamBye, StreamClosed, WaitInv
  <2>3. CASE StreamStash
    BY <2>3 DEF StreamStash, WaitInv
  <2>4. CASE StreamYield
    BY <2>4 DEF StreamYield, WaitInv
  <2>5. CASE StreamBack
    <3>1. \A k \in reorder : numWritten <= k
      <4>1. Place("reorder") \cap Place("out") = {}
        BY DEF PathInv, Spread, Apart, Names
      <4>2. \A k \in reorder : k \notin 0..(numWritten - 1)
        BY <4>1, PlacesAre
      <4> QED  BY <2>1, <4>2
    <3>2. numWritten' = numWritten /\ numWritten \notin reorder'
      BY <2>5, <3>1 DEF StreamBack
    <3> QED  BY <3>2 DEF WaitInv
  <2> QED  BY <1>1, <2>2, <2>3, <2>4, <2>5 DEF Stream
<1>2. ASSUME UNCHANGED <<numWritten, reorder>>,
             stream' \in {"idle", "recv", "place"} => stream \in {"idle", "recv", "place"}
      PROVE  WaitInv'
  BY <1>2 DEF WaitInv
<1>3. CASE Caller
  <2>1. /\ UNCHANGED <<numWritten, reorder>>
        /\ stream' = stream \/ stream = "idle"
    BY <1>3 DEF Caller, Open, OpenFails, MainFresh, MainRecycle, MainOrphaned, MainRead,
         MainReadFails, MainFilled, MainSend, MainEof, MainJoinPut, MainJoinWorkers,
         streamVars, TypeInv
  <2> QED  BY <1>2, <2>1
<1>4. CASE Request
  BY <1>2, <1>4 DEF Request, PutEnds, StreamDropped, streamVars
<1>5. ASSUME NEW w \in Workers, Worker(w) PROVE WaitInv'
  BY <1>2, <1>5 DEF Worker, WorkerRecv, WorkerClosed, WorkerProcess, WorkerSend, WorkerBye,
       streamVars
<1>6. CASE UNCHANGED vars
  BY <1>2, <1>6 DEF vars, streamVars
<1> QED
  BY <1>1, <1>3, <1>4, <1>5, <1>6 DEF Next

\* The end marks on wq, and the workers that have sent theirs.
Byes == {i \in 1..Len(wq) : wq[i] = Bye}
Done == {w \in pool : worker[w].pc = "exited" /\ sent[w]}

\* A worker that sent a frame sends one end mark, after the caller's last frame.
ByeInv ==
    /\ ~StreamGone => Cardinality(Byes) + numExited = Cardinality(Done)
    /\ \A w \in Workers : worker[w].pc \in {"bye", "exited"} => ctx = <<>> /\ ~CtxOpen
    /\ \A w \in Workers : worker[w].pc = "bye" => sent[w]

LEMMA CountTypes ==
    ASSUME TypeInv
    PROVE  /\ IsFiniteSet(Byes) /\ Cardinality(Byes) \in Nat
           /\ IsFiniteSet(Done) /\ Cardinality(Done) \in Nat
           /\ numExited \in Nat
<1>1. Len(wq) \in Nat
  BY PlaceTypes
<1>2. IsFiniteSet(1..Len(wq))
  <2>1. 1 \in Int /\ Len(wq) \in Int
    BY <1>1
  <2> QED  BY ONLY <2>1, FS_Interval
<1>3. IsFiniteSet(Byes)
  <2>1. Byes \subseteq 1..Len(wq)
    BY DEF Byes
  <2> QED  BY <1>2, <2>1, FS_Subset
<1>4. IsFiniteSet(Done)
  <2>1. Done \subseteq Workers
    BY DEF Done, TypeInv, TypeOK
  <2> QED  BY <2>1, FramesAssumption, FS_Subset
<1>5. numExited \in Nat
  BY PoolSize DEF TypeInv, TypeOK
<1> QED
  BY <1>3, <1>4, <1>5, FS_CardinalityType

\* The end marks of wq without its first message.
LEMMA ByesOfTail ==
    ASSUME TypeInv, wq # <<>>, wq' = Tail(wq)
    PROVE  /\ Cardinality(Byes') \in Nat
           /\ Cardinality(Byes') = IF Head(wq) = Bye THEN Cardinality(Byes) - 1
                                                    ELSE Cardinality(Byes)
<1>1. /\ Len(wq) \in Nat /\ Len(wq') = Len(wq) - 1 /\ Len(wq) >= 1 /\ Head(wq) = wq[1]
      /\ \A i \in 1..Len(wq') : wq'[i] = wq[i + 1] /\ i + 1 \in 1..Len(wq)
  BY PlaceTypes
<1> DEFINE rest  == Byes \ {1}
           shift == [i \in rest |-> i - 1]
<1>2. IsFiniteSet(Byes) /\ Cardinality(Byes) \in Nat
  BY CountTypes
<1>3. /\ IsFiniteSet(rest)
      /\ Cardinality(rest) = IF 1 \in Byes THEN Cardinality(Byes) - 1 ELSE Cardinality(Byes)
  BY <1>2, FS_RemoveElement
<1>4. shift \in Bijection(rest, Byes')
  <2>1. \A i \in rest : i \in Nat /\ i - 1 \in Byes'
    <3>1. ASSUME NEW i \in rest PROVE i \in Nat /\ i - 1 \in 1..Len(wq') /\ wq[i] = Bye
      BY <1>1 DEF Byes
    <3>2. ASSUME NEW i \in rest PROVE wq'[i - 1] = wq[(i - 1) + 1] /\ (i - 1) + 1 = i
      BY <1>1, <3>1
    <3> QED  BY <3>1, <3>2 DEF Byes
  <2>2. \A i \in Byes' : i \in Nat /\ i + 1 \in rest /\ (i + 1) - 1 = i
    BY <1>1 DEF Byes
  <2> HIDE DEF rest
  <2>3. shift \in [rest -> Byes']
    BY <2>1
  <2>4. \A i, j \in rest : shift[i] = shift[j] => i = j
    BY <2>1
  <2>5. \A i \in Byes' : \E k \in rest : shift[k] = i
    BY <2>2
  <2>6. shift \in Injection(rest, Byes')
    BY <2>3, <2>4 DEF Injection, IsInjective
  <2>7. shift \in Surjection(rest, Byes')
    BY <2>3, <2>5 DEF Surjection
  <2> QED  BY <2>6, <2>7 DEF Bijection
<1>5. IsFiniteSet(Byes') /\ Cardinality(Byes') = Cardinality(rest)
  <2>1. ExistsBijection(rest, Byes')
    BY <1>4 DEF ExistsBijection
  <2> HIDE DEF shift, rest
  <2> QED  BY <1>3, <2>1, FS_Bijection
<1>6. Cardinality(Byes') \in Nat
  BY <1>5, FS_CardinalityType
<1>7. Head(wq) = Bye <=> 1 \in Byes
  BY <1>1 DEF Byes
<1> HIDE DEF rest
<1> QED
  BY <1>3, <1>5, <1>6, <1>7

\* The end marks when a message is added.
LEMMA ByesOfAppend ==
    ASSUME TypeInv, NEW m \in Frames \cup {Bye, Hdr}, wq' = Append(wq, m)
    PROVE  Byes' = IF m = Bye THEN Byes \cup {Len(wq) + 1} ELSE Byes
<1>1. /\ Len(wq) \in Nat /\ Len(wq') = Len(wq) + 1 /\ wq'[Len(wq) + 1] = m
      /\ \A i \in 1..Len(wq) : wq'[i] = wq[i]
  BY PlaceTypes
<1>2. 1..Len(wq') = 1..Len(wq) \cup {Len(wq) + 1}
  BY <1>1
<1> QED
  BY <1>1, <1>2 DEF Byes

\* A step of worker w that sends nothing.
LEMMA QuietWorkerByes ==
    ASSUME TypeInv, ByeInv, NEW w \in Workers,
           UNCHANGED <<pool, wq, stream, numExited, main>>,
           \A v \in Workers \ {w} : worker'[v] = worker[v],
           sent' = sent, worker[w].pc # "exited",
           worker'[w].pc \in {"bye", "exited"} => ctx' = <<>> /\ ~CtxOpen,
           worker'[w].pc = "bye" => sent[w],
           worker'[w].pc = "exited" => ~sent[w],
           ctx' = ctx \/ (ctx # <<>> /\ worker'[w].pc = "process")
    PROVE  ByeInv'
<1>1. Done' = Done
  BY DEF Done, TypeInv, TypeOK
<1>2. Byes' = Byes /\ StreamGone' = StreamGone /\ CtxOpen' = CtxOpen
  BY DEF Byes, StreamGone, CtxOpen
<1>3. \A v \in Workers : worker'[v].pc \in {"bye", "exited"} => ctx' = <<>> /\ ~CtxOpen'
  BY <1>2 DEF ByeInv
<1>4. \A v \in Workers : worker'[v].pc = "bye" => sent'[v]
  BY DEF ByeInv
<1> QED
  BY <1>1, <1>2, <1>3, <1>4 DEF ByeInv

LEMMA WorkerByes ==
    ASSUME TypeInv, StartInv, ByeInv, NEW w \in Workers, Worker(w) PROVE ByeInv'
<1>1. /\ UNCHANGED <<pool, stream, numExited, main>>
      /\ \A v \in Workers \ {w} : worker'[v] = worker[v]
  BY DEF TypeInv, TypeOK, Worker, WorkerRecv, WorkerClosed, WorkerProcess,
     WorkerSend, WorkerBye, Go, mainVars, streamVars
<1>2. w \in pool
  <2>1. worker[w].pc # "idle"
    BY DEF Worker, WorkerRecv, WorkerClosed, WorkerProcess, WorkerSend, WorkerBye
  <2> QED  BY <2>1 DEF StartInv
<1>3. CASE WorkerRecv(w)
  <2>1. worker'[w].pc = "process" /\ ctx # <<>> /\ sent' = sent /\ wq' = wq
        /\ worker[w].pc = "recv"
    BY <1>3 DEF WorkerRecv, TypeInv, TypeOK
  <2> QED  BY <1>1, <2>1, QuietWorkerByes
<1>4. CASE WorkerClosed(w)
  <2>1. /\ worker'[w].pc = (IF sent[w] THEN "bye" ELSE "exited")
        /\ ctx = <<>> /\ ~CtxOpen /\ sent' = sent /\ wq' = wq /\ ctx' = ctx
        /\ worker[w].pc = "recv" /\ sent[w] \in BOOLEAN
    BY <1>4 DEF WorkerClosed, Go, TypeInv, TypeOK
  <2> QED  BY <1>1, <2>1, QuietWorkerByes
<1>5. CASE WorkerProcess(w)
  <2>1. worker'[w].pc \in {"send", "panicked"} /\ sent' = sent /\ wq' = wq /\ ctx' = ctx
        /\ worker[w].pc = "process"
    BY <1>5 DEF WorkerProcess, Go, TypeInv, TypeOK
  <2> QED  BY <1>1, <2>1, QuietWorkerByes
<1>6. CASE (WorkerSend(w) \/ WorkerBye(w)) /\ StreamGone
  <2>1. worker'[w].pc \in {"failed", "panicked"} /\ sent' = sent /\ wq' = wq /\ ctx' = ctx
        /\ worker[w].pc \in {"send", "bye"}
    BY <1>6 DEF WorkerSend, WorkerBye, Go, TypeInv, TypeOK
  <2> QED  BY <1>1, <2>1, QuietWorkerByes
<1>7. CASE WorkerSend(w) /\ ~StreamGone
  <2>1. /\ worker'[w].pc = "recv" /\ sent' = [sent EXCEPT ![w] = TRUE]
        /\ wq' = Append(wq, worker[w].fr) /\ ctx' = ctx /\ worker[w].pc = "send"
    BY <1>7 DEF WorkerSend, Go, TypeInv, TypeOK
  <2>2. sent'[w] /\ \A v \in Workers \ {w} : sent'[v] = sent[v]
    BY <2>1 DEF TypeInv, TypeOK
  <2>3. worker[w].fr \in Frames /\ worker[w].fr # Bye
    BY <2>1, Constants DEF TypeInv, Holding
  <2>4. Byes' = Byes
    BY <2>1, <2>3, ByesOfAppend
  <2>5. Done' = Done
    BY <1>1, <2>1, <2>2 DEF Done, TypeInv, TypeOK
  <2>6. StreamGone' = StreamGone /\ CtxOpen' = CtxOpen
    BY <1>1 DEF StreamGone, CtxOpen
  <2>7. \A v \in Workers : worker'[v].pc \in {"bye", "exited"} => ctx' = <<>> /\ ~CtxOpen'
    BY <1>1, <2>1, <2>6 DEF ByeInv
  <2>8. \A v \in Workers : worker'[v].pc = "bye" => sent'[v]
    BY <1>1, <2>1, <2>2 DEF ByeInv
  <2> QED
    BY <1>1, <2>4, <2>5, <2>6, <2>7, <2>8 DEF ByeInv
<1>8. CASE WorkerBye(w) /\ ~StreamGone
  <2>1. /\ worker'[w].pc = "exited" /\ sent' = sent /\ ctx' = ctx /\ worker[w].pc = "bye"
        /\ wq' = Append(wq, Bye)
    BY <1>8 DEF WorkerBye, Go, TypeInv, TypeOK
  <2>2. sent[w] /\ ctx = <<>> /\ ~CtxOpen
    BY <2>1 DEF ByeInv
  <2>3. StreamGone' = StreamGone /\ CtxOpen' = CtxOpen
    BY <1>1 DEF StreamGone, CtxOpen
  <2>4. Cardinality(Byes') + numExited' = Cardinality(Done')
    <3>1. Done' = Done \cup {w} /\ w \notin Done
      BY <1>1, <1>2, <2>1, <2>2 DEF Done, TypeInv, TypeOK
    <3>2. Byes' = Byes \cup {Len(wq) + 1}
      BY <2>1, ByesOfAppend
    <3>3. Len(wq) + 1 \notin Byes
      BY PlaceTypes DEF Byes
    <3>4. Cardinality(Done') = Cardinality(Done) + 1
      BY <3>1, CountTypes, FS_AddElement
    <3>5. Cardinality(Byes') = Cardinality(Byes) + 1
      BY <3>2, <3>3, CountTypes, FS_AddElement
    <3>6. Cardinality(Byes) + numExited = Cardinality(Done)
      BY <1>8 DEF ByeInv
    <3> QED  BY <1>1, <3>4, <3>5, <3>6, CountTypes
  <2>5. \A v \in Workers : worker'[v].pc \in {"bye", "exited"} => ctx' = <<>> /\ ~CtxOpen'
    BY <1>1, <2>1, <2>2, <2>3
  <2>6. \A v \in Workers : worker'[v].pc = "bye" => sent'[v]
    BY <1>1, <2>1, <2>2 DEF ByeInv
  <2> QED
    BY <2>4, <2>5, <2>6 DEF ByeInv
<1> QED
  BY <1>3, <1>4, <1>5, <1>6, <1>7, <1>8 DEF Worker

LEMMA CallerByes == ASSUME TypeInv, StartInv, ByeInv, Caller PROVE ByeInv'
<1>1. CASE Open
  <2>1. stream = "idle" /\ main = "get" /\ numExited' = 0 /\ pool' = pool /\ pool \subseteq Workers
        /\ stream' = "recv"
    BY <1>1 DEF Open, TypeInv, TypeOK
  <2>2. \A w \in Workers : worker[w].pc = "idle"
    BY <2>1 DEF StartInv
  <2>3. /\ worker' = [w \in Workers |->
                        IF w \in pool THEN [worker[w] EXCEPT !.pc = "recv"] ELSE worker[w]]
        /\ wq' = <<Hdr>>
    BY <1>1 DEF Open
  <2>4. \A w \in Workers : worker'[w].pc \in {"idle", "recv"}
    BY <2>2, <2>3 DEF TypeInv, TypeOK
  <2>5. Done' = {} /\ Byes' = {}
    <3>1. Len(wq') = 1 /\ wq'[1] = Hdr
      BY <2>3
    <3>2. \A i \in 1..Len(wq') : wq'[i] = Hdr
      BY <3>1
    <3> QED  BY <2>1, <2>4, <3>2, Constants DEF Done, Byes
  <2> QED  BY <2>1, <2>4, <2>5, FS_EmptySet DEF ByeInv
<1>2. CASE ~Open
  <2>1. UNCHANGED <<pool, worker, sent, wq, stream, numExited>>
    BY <1>2 DEF Caller, OpenFails, MainFresh, MainRecycle, MainOrphaned, MainRead,
         MainReadFails, MainFilled, MainSend, MainEof, MainJoinPut, MainJoinWorkers,
         mainVars, workerVars, streamVars
  <2>2. Done' = Done /\ Byes' = Byes /\ StreamGone' = StreamGone
    BY <2>1 DEF Done, Byes, StreamGone
  <2>3. ctx = <<>> /\ ~CtxOpen => ctx' = <<>> /\ ~CtxOpen'
    BY <1>2 DEF Caller, OpenFails, MainFresh, MainRecycle, MainOrphaned, MainRead,
         MainReadFails, MainFilled, MainSend, MainEof, MainJoinPut, MainJoinWorkers,
         mainVars, Return, Panic, CtxOpen
  <2> QED  BY <2>1, <2>2, <2>3 DEF ByeInv
<1> QED
  BY <1>1, <1>2

LEMMA StreamByes == ASSUME TypeInv, ByeInv, Stream PROVE ByeInv'
<1>1. UNCHANGED <<pool, worker, sent, ctx, main>>
  BY DEF Stream, StreamHeader, StreamRecv, StreamBye, StreamClosed, StreamStash,
       StreamYield, StreamBack, mainVars, workerVars
<1>2. Done' = Done /\ CtxOpen' = CtxOpen
  BY <1>1 DEF Done, CtxOpen
<1>3. Cardinality(Byes) + numExited = Cardinality(Done)
  BY DEF ByeInv, Stream, StreamHeader, StreamRecv, StreamBye, StreamClosed, StreamStash,
       StreamYield, StreamBack, StreamGone
<1>4. CASE StreamHeader \/ StreamRecv \/ StreamBye
  <2>1. wq # <<>> /\ wq' = Tail(wq)
    BY <1>4 DEF StreamHeader, StreamRecv, StreamBye
  <2>2. numExited' = IF Head(wq) = Bye THEN numExited + 1 ELSE numExited
    BY <1>4, Constants DEF StreamHeader, StreamRecv, StreamBye
  <2>3. Cardinality(Byes') + numExited' = Cardinality(Done)
    BY <1>3, <2>1, <2>2, ByesOfTail, CountTypes
  <2> QED
    BY <1>1, <1>2, <2>3 DEF ByeInv
<1>5. CASE StreamClosed \/ StreamStash \/ StreamYield \/ StreamBack
  <2>1. UNCHANGED <<wq, numExited>>
    BY <1>5 DEF StreamClosed, StreamStash, StreamYield, StreamBack
  <2>2. Byes' = Byes
    BY <2>1 DEF Byes
  <2> QED
    BY <1>1, <1>2, <1>3, <2>1, <2>2 DEF ByeInv
<1> QED
  BY <1>4, <1>5 DEF Stream

LEMMA ByeStep == ASSUME TypeInv, StartInv, ByeInv, [Next]_vars PROVE ByeInv'
<1>1. CASE Request \/ UNCHANGED vars
  <2>1. /\ UNCHANGED <<pool, main, ctx, worker, sent, wq, numExited>>
        /\ stream' = stream \/ stream' = "dropped"
    BY <1>1 DEF Request, PutEnds, StreamDropped, mainVars, workerVars, streamVars, vars
  <2> QED  BY <2>1 DEF ByeInv, Byes, Done, StreamGone, CtxOpen
<1> QED
  BY <1>1, CallerByes, WorkerByes, StreamByes DEF Next

\* All that the call keeps.
CallInv ==
    /\ TypeInv /\ ReadInv /\ BufferInv /\ PlaceInv /\ FlowInv
    /\ StartInv /\ PathInv /\ WaitInv /\ ByeInv

LEMMA CallInit == Init /\ TypeInv => FlowInv /\ StartInv /\ PathInv /\ WaitInv /\ ByeInv
<1> SUFFICES ASSUME Init, TypeInv
             PROVE  FlowInv /\ StartInv /\ PathInv /\ WaitInv /\ ByeInv
  OBVIOUS
<1>1. /\ fr = 0 /\ rq = 0 /\ numWritten = 0 /\ numExited = 0 /\ ctx = <<>> /\ wq = <<>>
      /\ stream = "idle" /\ put = "idle" /\ main = "get" /\ reorder = {}
      /\ \A w \in Workers : worker[w].pc = "idle"
      /\ pool \subseteq Workers
  BY DEF Init, ReadInit
<1>2. N \in Nat
  BY <1>1, PoolSize
<1>3. FlowInv
  BY <1>1, <1>2 DEF FlowInv, Taken, Least
<1>4. StartInv
  BY <1>1 DEF StartInv
<1>5. WaitInv
  BY <1>1 DEF WaitInv
<1>6. ByeInv
  <2>1. Byes = {} /\ Done = {}
    BY <1>1 DEF Byes, Done
  <2> QED  BY <1>1, <2>1, FS_EmptySet DEF ByeInv
<1>7. PathInv
  <2>1. Single /\ Distinct(wq)
    BY <1>1 DEF Single, Holding, Distinct
  <2>2. Place("worker") = {} /\ Place("wq") = {} /\ Place("stream") = {}
        /\ Place("reorder") = {} /\ Place("out") = {}
    BY <1>1, PlacesAre DEF Holding, Mail
  <2>3. Apart
    BY <2>2 DEF Apart, Names
  <2>4. First = 0
    <3>1. Len(ctx) = 0 /\ fr - 0 = 0
      BY <1>1
    <3> QED  BY <3>1 DEF First
  <2>5. Kept
    BY <2>4 DEF Kept, Frames
  <2> QED  BY <2>1, <2>3, <2>5 DEF PathInv, Spread
<1> QED
  BY <1>3, <1>4, <1>5, <1>6, <1>7

LEMMA CallHolds == Spec => []CallInv
<1>1. /\ TypeInv /\ ReadInv /\ PlaceInv /\ FlowInv /\ StartInv /\ PathInv /\ WaitInv /\ ByeInv
      /\ [Next]_vars
      => FlowInv' /\ StartInv' /\ PathInv' /\ WaitInv' /\ ByeInv'
  BY FlowStep, StartStep, PathStep, WaitStep, ByeStep
<1>2. TypeInv /\ ReadInv /\ BufferInv /\ PlaceInv /\ FlowInv /\ StartInv /\ PathInv /\ WaitInv
      /\ ByeInv => CallInv
  BY DEF CallInv
<1> QED
  BY <1>1, <1>2, CallInit, BoundsHold, PTL DEF Spec

\* With all end marks taken, the stream has ended.
LEMMA StreamLeaves ==
    ASSUME TypeInv, ByeInv, stream = "recv", wq = <<>>, Done = pool
    PROVE  FALSE
<1>1. Byes = {}
  BY DEF Byes
<1>2. Cardinality(Byes) = 0 /\ numExited \in Nat
  BY <1>1, FS_EmptySet, CountTypes
<1>3. numExited = Cardinality(Done)
  BY <1>2 DEF ByeInv, StreamGone
<1>4. numExited < N /\ N \in Nat
  BY PoolSize DEF TypeInv, TypeOK
<1> QED
  BY <1>3, <1>4 DEF N

\* With nothing on its way, the buffers are back.
LEMMA BufferComes ==
    ASSUME CallInv, main = "buffer", fr < NumFrames, fr >= N, ctx = <<>>, wq = <<>>,
           stream = "recv", N > 0, rq = 0,
           \A w \in Workers : worker[w].pc \in {"idle", "recv"}
    PROVE  FALSE
<1>1. /\ fr \in Nat /\ numWritten \in Nat /\ N \in Nat /\ NumFrames \in Nat /\ Len(ctx) = 0
  BY PlaceTypes, PoolSize, Constants DEF CallInv, TypeInv, TypeOK
<1>2. First = fr
  BY <1>1 DEF First
<1>3. numWritten = fr - N
  <2>1. Taken = fr /\ Least(fr, N) = N
    BY <1>1 DEF Taken, Least
  <2>2. Taken + rq + 0 = numWritten + Least(Taken, N)
    BY DEF CallInv, FlowInv, StreamGone, Ended
  <2> QED  BY <1>1, <2>1, <2>2
<1>4. numWritten \in Frames /\ numWritten < First
  BY <1>1, <1>2, <1>3 DEF Frames
<1>5. ~Lost
  BY DEF Lost, StreamGone
<1>6. PICK p \in Names : numWritten \in Place(p)
  BY <1>4, <1>5 DEF CallInv, PathInv, Spread, Kept
<1>7. /\ Place("worker") = {} /\ Place("wq") = {} /\ Place("stream") = {}
      /\ numWritten \notin Place("out")
  BY <1>1, PlacesAre DEF Holding, Mail
<1>8. numWritten \notin Place("reorder")
  BY PlacesAre DEF CallInv, WaitInv
<1> QED
  BY <1>6, <1>7, <1>8 DEF Names

LEMMA NeverStuckFromInv == CallInv => NeverStuck
<1> SUFFICES ASSUME CallInv, ~AtRest, Ended \/ ~Starved, ~CallerReady, ~StreamReady,
                    ~RequestReady, \A w \in pool : ~WorkerReady(w)
             PROVE  FALSE
  BY DEF NeverStuck
<1>1. TypeInv /\ StartInv /\ ByeInv /\ SendsHaveRoom
  BY RoomFromInv DEF CallInv
<1>2. /\ stream \in {"idle", "recv", "place", "back", "ended", "dropped"}
      /\ put \in {"idle", "sending", "Ok", "Err"}
      /\ main \in {"get", "buffer", "read", "send", "await", "join", "returned", "panicked"}
      /\ pool \subseteq Workers /\ N \in Nat /\ fr \in 0..NumFrames /\ NumFrames \in Nat
      /\ rq \in 0..N
      /\ \A w \in Workers : worker[w].pc \in {"idle", "recv", "process", "send", "bye",
                                             "exited", "failed", "panicked"}
  BY <1>1, PoolSize, Constants DEF TypeInv, TypeOK
<1>3. main \notin {"get", "read"}
  BY DEF CallerReady
<1>4. stream # "idle"
  <2> SUFFICES ASSUME stream = "idle" PROVE FALSE
    OBVIOUS
  <2>1. Ended /\ put = "idle" /\ \A w \in pool : worker[w].pc = "idle"
    BY <1>1, <1>3 DEF StartInv
  <2> QED  BY <2>1 DEF AtRest
<1>5. N > 0 /\ put # "idle" /\ \A w \in pool : worker[w].pc # "idle"
  BY <1>1, <1>4 DEF StartInv
<1>6. stream # "place" /\ stream # "back"
  BY <1>1 DEF StreamReady, SendsHaveRoom
<1>7. pool # {}
  BY <1>5, FS_EmptySet DEF N
<1>8. Ended => ~CtxOpen
  BY DEF Ended, CtxOpen
<1>9. CASE StreamGone
  <2>1. put \in {"Ok", "Err"}
    BY <1>1, <1>2, <1>5, <1>9 DEF RequestReady, StreamGone, StartInv
  <2>2. \A w \in pool : \/ worker[w].pc \in WorkerEnds
                        \/ worker[w].pc = "recv" /\ ctx = <<>> /\ CtxOpen
    BY <1>2, <1>5, <1>9 DEF WorkerReady, WorkerEnds
  <2>3. CASE Ended
    BY <1>8, <1>9, <2>1, <2>2, <2>3 DEF AtRest, StreamGone
  <2>4. CASE main = "join"
    <3>1. ~CtxOpen
      BY <2>4 DEF CtxOpen
    <3> QED  BY <2>2, <2>4, <3>1 DEF CallerReady
  <2>5. main # "buffer" /\ main # "await"
    BY <1>2, <1>9, <2>1 DEF CallerReady
  <2>6. CASE main = "send"
    <3>1. Len(ctx) >= N /\ ctx \in Seq(Nat)
      <4>1. FrameRead
        BY <1>1, <2>6 DEF StartInv
      <4>2. ctx \in Seq(Nat) /\ Len(ctx) \in Nat
        BY <1>1, PlaceTypes
      <4> QED  BY <1>2, <2>6, <4>1, <4>2 DEF CallerReady
    <3>2. ctx # <<>>
      BY <1>2, <1>5, <3>1
    <3>3. \A w \in pool : worker[w].pc \in {"failed", "panicked"}
      BY <1>1, <1>2, <2>2, <3>2 DEF ByeInv, WorkerEnds
    <3> QED  BY <1>7, <2>6, <3>3 DEF Starved, Ended
  <2> QED  BY <1>2, <1>3, <2>3, <2>4, <2>5, <2>6 DEF Ended
<1>10. CASE stream = "recv"
  <2>1. wq = <<>> /\ ~WqClosed /\ Len(wq) = 0 /\ ~StreamGone
    BY <1>10 DEF StreamReady, StreamGone
  <2>2. \A w \in pool : \/ worker[w].pc \in WorkerEnds
                        \/ worker[w].pc = "recv" /\ ctx = <<>> /\ CtxOpen
    BY <1>2, <1>5, <2>1 DEF WorkerReady, WorkerEnds
  <2>3. CASE Ended
    <3>1. \A w \in pool : worker[w].pc \in WorkerEnds
      BY <1>8, <2>2, <2>3
    <3> QED  BY <2>1, <2>3, <3>1 DEF WqClosed, HoldsWtx, WorkerEnds
  <2>4. CASE ~Ended
    <3>1. \A w \in pool : \/ worker[w].pc = "exited" /\ sent[w]
                          \/ worker[w].pc = "recv" /\ ctx = <<>> /\ CtxOpen
      BY <2>2, <2>4 DEF Starved, WorkerEnds
    <3>2. main # "send"
      BY <1>1, <2>1 DEF SendsHaveRoom, CallerReady, StartInv
    <3>3. CASE main \in {"await", "join"}
      <4>1. ~CtxOpen
        BY <3>3 DEF CtxOpen
      <4>2. Done = pool
        BY <3>1, <4>1 DEF Done
      <4> QED  BY <1>1, <1>10, <2>1, <4>2, StreamLeaves
    <3>4. CASE main = "buffer"
      <4>1. CtxOpen
        BY <3>4 DEF CtxOpen
      <4>2. \A w \in pool : worker[w].pc = "recv" /\ ctx = <<>>
        BY <1>1, <1>2, <3>1, <4>1 DEF ByeInv
      <4>3. \A w \in Workers : worker[w].pc \in {"idle", "recv"}
        BY <1>1, <4>2 DEF StartInv
      <4>4. fr < NumFrames /\ fr >= N /\ rq = 0
        BY <1>2, <3>4 DEF CallerReady
      <4>5. ctx = <<>>
        BY <1>7, <4>2
      <4> QED  BY <1>5, <1>10, <2>1, <3>4, <4>3, <4>4, <4>5, BufferComes
    <3> QED  BY <1>2, <1>3, <2>4, <3>2, <3>3, <3>4 DEF Ended
  <2> QED  BY <2>3, <2>4
<1> QED
  BY <1>2, <1>4, <1>6, <1>9, <1>10 DEF StreamGone

\* The caller, the workers, the stream and the request never all wait for each
\* other, and the tasks a call leaves behind that returned early come to an end;
\* only a worker that ended without an end mark can leave the caller waiting
\* (transcode_http and mk_stream, tokioworker.rs).
THEOREM NeverStuckHolds == Spec => []NeverStuck
  BY CallHolds, NeverStuckFromInv, PTL
=============================================================================
