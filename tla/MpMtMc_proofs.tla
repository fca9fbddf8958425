---------------------------- MODULE MpMtMc_proofs ----------------------------
(***************************************************************************)
(* Proofs about MpMtMc, for any number of threads and frames and any set   *)
(* of faults.  The safety properties rest on one inductive invariant:      *)
(* every frame below the counter is written, or held, or lost with the     *)
(* thread that held it, and the counter does not reach Wrap because a      *)
(* thread that reads a number past the last frame never claims again.      *)
(* No thread waits for another, so that the call returns is a matter of    *)
(* how many steps are left: StepsBounded counts them.                      *)
(***************************************************************************)
EXTENDS MpMtMc, FiniteSetTheorems, Integers, TLAPS

Holds(w, fr) == worker[w].pc \in Holding /\ worker[w].fr = fr
Done == {w \in Workers : worker[w].pc = "ok"}

\* A held frame was claimed and is not yet written.
HeldInv == \A w \in Workers : worker[w].pc \in Holding =>
               worker[w].fr < NumFrames /\ worker[w].fr < outFrame /\ worker[w].fr \notin out

\* Two threads hold different frames.
DistinctInv == \A v, w \in Workers :
    v # w /\ worker[v].pc \in Holding /\ worker[w].pc \in Holding
        => worker[v].fr # worker[w].fr

\* A written frame was claimed.
WrittenInv == \A fr \in out : fr < outFrame

\* A claimed frame is written, held, or lost.
AccountedInv == \A fr \in Frames : fr < outFrame =>
    fr \in out \/ \E w \in Workers : worker[w].fr = fr
                                  /\ worker[w].pc \in Holding \cup {"err"}

\* A thread that is done has seen the end of the frames, and each adds at
\* most one to the counter after it.
CountInv ==
    /\ outFrame <= NumFrames + Cardinality(Done)
    /\ Done # {} => outFrame >= NumFrames

IInv == HeldInv /\ DistinctInv /\ WrittenInv /\ AccountedInv /\ CountInv

-----------------------------------------------------------------------------
\* Doneness of a thread: how Done and its size change.
LEMMA DoneFinite == IsFiniteSet(Done) /\ Cardinality(Done) \in Nat
<1>1. Done \in SUBSET Workers  BY DEF Done
<1> QED  BY <1>1, FS_Subset, FS_CardinalityType, SizeAssumption

LEMMA DoneNotAll ==
    ASSUME NEW w \in Workers, w \notin Done
    PROVE  Cardinality(Done) < N
<1>1. Done \in SUBSET Workers /\ Done # Workers  BY DEF Done
<1> QED  BY <1>1, FS_Subset, SizeAssumption, FS_CardinalityType, DoneFinite DEF N

\* A claim stays below Wrap: fetch_add does not wrap around.
LEMMA NoWrap ==
    ASSUME TypeOK, CountInv, NEW w \in Workers, worker[w].pc = "claim"
    PROVE  (outFrame + 1) % Wrap = outFrame + 1
<1>1. w \notin Done  BY DEF Done
<1>2. Cardinality(Done) < N  BY <1>1, DoneNotAll
<1>3. N \in Nat  BY FS_CardinalityType, SizeAssumption DEF N
<1>4. outFrame \in Nat /\ NumFrames \in Nat /\ Wrap \in Nat /\ Cardinality(Done) \in Nat
  BY DoneFinite, SizeAssumption, WrapAssumption DEF TypeOK
<1>5. outFrame + 1 < Wrap
  BY <1>2, <1>3, <1>4, WrapAssumption DEF CountInv
<1> QED  BY <1>4, <1>5

\* What Go leaves of a thread's record.
LEMMA GoIs ==
    ASSUME TypeOK, NEW w \in Workers, NEW pc, Go(w, pc)
    PROVE  worker' = [worker EXCEPT ![w] = [pc |-> pc, fr |-> worker[w].fr]]
<1>1. worker[w] = [pc |-> worker[w].pc, fr |-> worker[w].fr]  BY DEF TypeOK
<1>2. [worker[w] EXCEPT !.pc = pc] = [pc |-> pc, fr |-> worker[w].fr]  BY <1>1
<1> QED  BY <1>2 DEF Go

-----------------------------------------------------------------------------
LEMMA InitInv == Init => TypeOK /\ IInv
<1> SUFFICES ASSUME Init PROVE TypeOK /\ IInv  OBVIOUS
<1>1. TypeOK  BY WrapAssumption, SizeAssumption, FS_CardinalityType DEF Init, TypeOK, N
<1>2. Done = {}  BY DEF Init, Done
<1>3. CountInv  BY <1>2, FS_EmptySet, SizeAssumption DEF Init, CountInv
<1>4. HeldInv /\ DistinctInv /\ WrittenInv  BY DEF Init, HeldInv, DistinctInv, WrittenInv, Holding
<1>5. AccountedInv  BY SizeAssumption DEF Init, AccountedInv, Frames
<1> QED  BY <1>1, <1>3, <1>4, <1>5 DEF IInv

\* A step of thread w that is not a claim and does not write keeps the frame
\* it holds, if any.
LEMMA GoPreserves ==
    ASSUME TypeOK, IInv, NEW w \in Workers,
           NEW pc \in {"claim", "process", "write", "err"}, Go(w, pc),
           worker[w].pc \in {"open", "claim", "read", "process", "write"},
           pc \in Holding => worker[w].pc \in Holding,
           pc = "claim" => worker[w].pc = "open",
           UNCHANGED <<outFrame, out, result>>
    PROVE  TypeOK' /\ IInv'
<1>1. worker' = [worker EXCEPT ![w] = [pc |-> pc, fr |-> worker[w].fr]]
  BY GoIs
<1>2. \A v \in Workers : worker'[v].fr = worker[v].fr
  BY <1>1 DEF TypeOK
<1>3. worker'[w].pc = pc /\ \A v \in Workers \ {w} : worker'[v] = worker[v]
  BY <1>1 DEF TypeOK
<1>4. TypeOK'  BY <1>1 DEF TypeOK
<1>5. \A v \in Workers : worker'[v].pc \in Holding => worker[v].pc \in Holding
  BY <1>3
<1>6. HeldInv' /\ DistinctInv' /\ WrittenInv'
  BY <1>2, <1>5 DEF IInv, HeldInv, DistinctInv, WrittenInv
<1>7. \A v \in Workers : worker[v].pc \in Holding \cup {"err"}
                            => worker'[v].pc \in Holding \cup {"err"}
  BY <1>3 DEF Holding
<1>8. AccountedInv'  BY <1>2, <1>7 DEF IInv, AccountedInv
<1>9. Done' = Done  BY <1>3 DEF Done
<1>10. CountInv'  BY <1>9 DEF IInv, CountInv
<1> QED  BY <1>4, <1>6, <1>8, <1>10 DEF IInv

LEMMA ClaimPreserves ==
    ASSUME TypeOK, IInv, NEW w \in Workers, Claim(w)
    PROVE  TypeOK' /\ IInv'
<1> DEFINE np == IF outFrame >= NumFrames THEN "ok" ELSE "read"
<1>1. outFrame' = outFrame + 1  BY NoWrap DEF Claim, IInv
<1>2. outFrame \in Nat /\ NumFrames \in Nat /\ outFrame < Wrap /\ Wrap \in Nat
  BY SizeAssumption, WrapAssumption DEF TypeOK
<1>3. worker' = [worker EXCEPT ![w] = [pc |-> np, fr |-> outFrame]]  BY DEF Claim
<1>4. worker'[w].pc = np /\ worker'[w].fr = outFrame
      /\ \A v \in Workers \ {w} : worker'[v] = worker[v]
  BY <1>3 DEF TypeOK
<1>5. worker[w].pc = "claim" /\ out' = out /\ result' = result  BY DEF Claim
<1>6. TypeOK'
  <2>1. outFrame' \in 0..(Wrap - 1)
    BY <1>2, WrapAssumption DEF Claim
  <2>2. [pc |-> np, fr |-> outFrame] \in
           [pc : {"open", "claim", "read", "process", "write", "ok", "err"}, fr : Nat]
    BY <1>2
  <2> QED  BY <1>3, <1>5, <2>1, <2>2 DEF TypeOK
<1>7. HeldInv'
  <2> SUFFICES ASSUME NEW v \in Workers, worker'[v].pc \in Holding
               PROVE  worker'[v].fr < NumFrames /\ worker'[v].fr < outFrame'
                      /\ worker'[v].fr \notin out'
    BY DEF HeldInv
  <2>1. CASE v = w
    <3>1. outFrame < NumFrames  BY <1>2, <1>4, <2>1 DEF Holding
    <3>2. outFrame \notin out  BY <1>2 DEF IInv, WrittenInv
    <3> QED  BY <1>1, <1>2, <1>4, <1>5, <2>1, <3>1, <3>2
  <2>2. CASE v # w
    <3>1. worker[v].fr \in Nat  BY DEF TypeOK
    <3> QED  BY <1>1, <1>2, <1>4, <1>5, <2>2, <3>1 DEF IInv, HeldInv
  <2> QED  BY <2>1, <2>2
<1>8. DistinctInv'
  <2>1. \A v \in Workers \ {w} : worker'[v].pc \in Holding => worker'[v].fr # outFrame
    <3>1. \A v \in Workers : worker[v].fr \in Nat  BY DEF TypeOK
    <3> QED  BY <1>2, <1>4, <3>1 DEF IInv, HeldInv
  <2> SUFFICES ASSUME NEW v \in Workers, NEW u \in Workers, v # u,
                      worker'[v].pc \in Holding, worker'[u].pc \in Holding
               PROVE  worker'[v].fr # worker'[u].fr
    BY DEF DistinctInv
  <2>2. CASE v = w  BY <1>4, <2>1, <2>2
  <2>3. CASE u = w  BY <1>4, <2>1, <2>3
  <2>4. CASE v # w /\ u # w  BY <1>4, <2>4 DEF IInv, DistinctInv
  <2> QED  BY <2>2, <2>3, <2>4
<1>9. WrittenInv'
  <2> SUFFICES ASSUME NEW fr \in out PROVE fr < outFrame'
    BY <1>5 DEF WrittenInv
  <2>1. fr \in Nat  BY SizeAssumption DEF TypeOK, Frames
  <2>2. fr < outFrame  BY DEF IInv, WrittenInv
  <2> QED  BY <1>1, <1>2, <2>1, <2>2
<1>10. AccountedInv'
  <2> SUFFICES ASSUME NEW fr \in Frames, fr < outFrame'
               PROVE  fr \in out' \/ \E v \in Workers : worker'[v].fr = fr
                                       /\ worker'[v].pc \in Holding \cup {"err"}
    BY DEF AccountedInv
  <2>0. fr \in Nat /\ fr < NumFrames  BY SizeAssumption DEF Frames
  <2>1. CASE fr = outFrame
    <3>1. np = "read"  BY <1>2, <2>0, <2>1
    <3> QED  BY <1>4, <2>1, <3>1 DEF Holding
  <2>2. CASE fr # outFrame
    <3>1. fr < outFrame  BY <1>1, <1>2, <2>0, <2>2
    <3>2. CASE fr \in out  BY <1>5, <3>2
    <3>3. CASE \E v \in Workers : worker[v].fr = fr /\ worker[v].pc \in Holding \cup {"err"}
      <4>1. PICK v \in Workers : worker[v].fr = fr /\ worker[v].pc \in Holding \cup {"err"}
        BY <3>3
      <4>2. v # w  BY <1>5, <4>1 DEF Holding
      <4> QED  BY <1>4, <4>1, <4>2
    <3> QED  BY <3>1, <3>2, <3>3 DEF IInv, AccountedInv
  <2> QED  BY <2>1, <2>2
<1>11. CountInv'
  <2>1. Cardinality(Done) \in Nat /\ IsFiniteSet(Done) /\ w \notin Done
    BY <1>5, DoneFinite DEF Done
  <2>2. CASE outFrame < NumFrames
    <3>1. Done' = Done  BY <1>2, <1>4, <1>5, <2>2 DEF Done
    <3> QED  BY <1>1, <1>2, <2>1, <2>2, <3>1 DEF IInv, CountInv
  <2>3. CASE outFrame >= NumFrames
    <3>1. Done' = Done \cup {w}  BY <1>4, <2>3 DEF Done
    <3>2. Cardinality(Done') = Cardinality(Done) + 1
      BY <2>1, <3>1, FS_AddElement
    <3> QED  BY <1>1, <1>2, <2>1, <2>3, <3>2 DEF IInv, CountInv
  <2> QED  BY <1>2, <2>2, <2>3
<1> QED  BY <1>6, <1>7, <1>8, <1>9, <1>10, <1>11 DEF IInv

LEMMA WritePreserves ==
    ASSUME TypeOK, IInv, NEW w \in Workers, Write(w)
    PROVE  TypeOK' /\ IInv'
<1> DEFINE f == worker[w].fr
<1>1. worker[w].pc = "write" /\ outFrame' = outFrame /\ result' = result
      /\ out' = out \cup {f}
  BY DEF Write
<1>2. worker' = [worker EXCEPT ![w] = [pc |-> "claim", fr |-> f]]
  BY GoIs DEF Write
<1>3. worker'[w].pc = "claim" /\ \A v \in Workers \ {w} : worker'[v] = worker[v]
  BY <1>2 DEF TypeOK
<1>4. f \in Nat /\ f < NumFrames /\ f < outFrame
  BY <1>1 DEF TypeOK, IInv, HeldInv, Holding
<1>5. TypeOK'
  <2>1. f \in Frames  BY <1>4, SizeAssumption DEF Frames
  <2> QED  BY <1>1, <1>2, <2>1 DEF TypeOK
<1>6. \A v \in Workers : worker'[v].pc \in Holding => v # w /\ worker[v].pc \in Holding
  BY <1>3 DEF Holding
<1>7. HeldInv'
  <2>1. \A v \in Workers \ {w} : worker[v].pc \in Holding => worker[v].fr # f
    BY <1>1 DEF IInv, DistinctInv, Holding
  <2> QED  BY <1>1, <1>3, <1>6, <2>1 DEF IInv, HeldInv
<1>8. DistinctInv'  BY <1>3, <1>6 DEF IInv, DistinctInv
<1>9. WrittenInv'  BY <1>1, <1>4 DEF IInv, WrittenInv
<1>10. AccountedInv'
  <2> SUFFICES ASSUME NEW fr \in Frames, fr < outFrame, fr # f, fr \notin out
               PROVE  \E v \in Workers : worker'[v].fr = fr
                                       /\ worker'[v].pc \in Holding \cup {"err"}
    BY <1>1 DEF AccountedInv
  <2>1. PICK v \in Workers : worker[v].fr = fr /\ worker[v].pc \in Holding \cup {"err"}
    BY DEF IInv, AccountedInv
  <2> QED  BY <1>3, <2>1
<1>11. CountInv'
  <2>1. Done' = Done  BY <1>1, <1>3 DEF Done
  <2> QED  BY <1>1, <2>1 DEF IInv, CountInv
<1> QED  BY <1>5, <1>7, <1>8, <1>9, <1>10, <1>11 DEF IInv

LEMMA JoinPreserves ==
    ASSUME TypeOK, IInv, Join
    PROVE  TypeOK' /\ IInv'
<1>1. TypeOK'  BY DEF TypeOK, Join
<1>2. Done' = Done  BY DEF Done, Join
<1>3. CountInv'  BY <1>2 DEF IInv, CountInv, Join
<1>4. HeldInv' /\ DistinctInv' /\ WrittenInv' /\ AccountedInv'
  BY DEF IInv, HeldInv, DistinctInv, WrittenInv, AccountedInv, Join
<1> QED  BY <1>1, <1>3, <1>4 DEF IInv

LEMMA StepInv == TypeOK /\ IInv /\ [Next]_vars => TypeOK' /\ IInv'
<1> SUFFICES ASSUME TypeOK, IInv, [Next]_vars PROVE TypeOK' /\ IInv'  OBVIOUS
<1>1. CASE Join  BY <1>1, JoinPreserves
<1>2. ASSUME NEW w \in Workers, Open(w) PROVE TypeOK' /\ IInv'
  BY <1>2, GoPreserves DEF Open, Holding
<1>3. ASSUME NEW w \in Workers, Claim(w) PROVE TypeOK' /\ IInv'
  BY <1>3, ClaimPreserves
<1>4. ASSUME NEW w \in Workers, Read(w) PROVE TypeOK' /\ IInv'
  BY <1>4, GoPreserves DEF Read, Holding
<1>5. ASSUME NEW w \in Workers, Process(w) PROVE TypeOK' /\ IInv'
  BY <1>5, GoPreserves DEF Process, Holding
<1>6. ASSUME NEW w \in Workers, Write(w) PROVE TypeOK' /\ IInv'
  BY <1>6, WritePreserves
<1>7. ASSUME NEW w \in Workers, Fail(w) PROVE TypeOK' /\ IInv'
  BY <1>7, GoPreserves, FaultAssumption DEF Fail, Holding
<1>8. CASE UNCHANGED vars
  <2>1. Done' = Done  BY <1>8 DEF Done, vars
  <2>2. TypeOK' /\ HeldInv' /\ DistinctInv' /\ WrittenInv' /\ AccountedInv'
    BY <1>8 DEF TypeOK, IInv, HeldInv, DistinctInv, WrittenInv, AccountedInv, vars
  <2>3. CountInv'  BY <1>8, <2>1 DEF IInv, CountInv, vars
  <2> QED  BY <2>2, <2>3 DEF IInv
<1> QED  BY <1>1, <1>2, <1>3, <1>4, <1>5, <1>6, <1>7, <1>8 DEF Next, Worker

\* Type correctness and the inductive invariant: the counter, the threads
\* and the output stay accounted for in every reachable state.
THEOREM Invariant == Spec => [](TypeOK /\ IInv)
BY InitInv, StepInv, PTL DEF Spec

\* The counter never wraps and every frame written is a frame of the file.
THEOREM TypeCorrect == Spec => []TypeOK
BY Invariant, PTL

\* The counter hands every frame to one thread only: no two threads ever
\* read, process or write the same frame, and no written frame again.
THEOREM ClaimedOnceHolds == Spec => []ClaimedOnce
<1>1. TypeOK /\ IInv => ClaimedOnce
  <2> SUFFICES ASSUME TypeOK, IInv, NEW w \in Workers, worker[w].pc \in Holding
               PROVE  /\ worker[w].fr \in Frames \ out
                      /\ \A v \in Workers \ {w} :
                            worker[v].pc \in Holding => worker[v].fr # worker[w].fr
    BY DEF ClaimedOnce
  <2>1. worker[w].fr \in Nat /\ worker[w].fr < NumFrames /\ worker[w].fr \notin out
    BY DEF TypeOK, IInv, HeldInv
  <2>2. worker[w].fr \in Frames  BY <2>1, SizeAssumption DEF Frames
  <2> QED  BY <2>1, <2>2 DEF IInv, DistinctInv
<1> QED  BY <1>1, Invariant, PTL

-----------------------------------------------------------------------------
\* When every thread ended well, every frame is written.
LEMMA AllOkComplete ==
    ASSUME TypeOK, IInv, \A w \in Workers : worker[w].pc = "ok"
    PROVE  out = Frames
<1>1. Done # {}  BY SizeAssumption DEF Done
<1>2. outFrame >= NumFrames /\ outFrame \in Nat  BY <1>1 DEF IInv, CountInv, TypeOK
<1>3. \A fr \in Frames : fr < outFrame  BY <1>2, SizeAssumption DEF Frames
<1>4. Frames \subseteq out  BY <1>3 DEF IInv, AccountedInv, Holding
<1> QED  BY <1>4 DEF TypeOK

LEMMA JoinRefines ==
    ASSUME TypeOK, IInv, Join
    PROVE  Engine!Next
<1>1. CASE \E w \in Workers : worker[w].pc = "err"
  BY <1>1 DEF Join, Engine!Next, Engine!EndErr
<1>2. CASE ~ \E w \in Workers : worker[w].pc = "err"
  <2>1. out = Frames  BY <1>2, AllOkComplete DEF Join
  <2>2. Engine!EndOk  BY <1>2, <2>1 DEF Join, Engine!EndOk, Engine!Frames, Frames
  <2> QED  BY <2>2 DEF Engine!Next
<1> QED  BY <1>1, <1>2

\* A thread still writing means the caller has not returned.
ReturnInv == result # "none" => \A w \in Workers : worker[w].pc \in {"ok", "err"}

LEMMA ReturnInvHolds == Spec => []ReturnInv
<1>1. Init => ReturnInv  BY DEF Init, ReturnInv
<1>2. TypeOK /\ ReturnInv /\ [Next]_vars => ReturnInv'
  <2> SUFFICES ASSUME TypeOK, ReturnInv, [Next]_vars PROVE ReturnInv'  OBVIOUS
  <2>1. CASE Join  BY <2>1 DEF Join, ReturnInv
  <2>2. CASE \E w \in Workers : Worker(w)
    <3>1. PICK w \in Workers : Worker(w)  BY <2>2
    <3>2. worker[w].pc \notin {"ok", "err"} /\ result' = result
      BY <3>1, FaultAssumption DEF Worker, Open, Claim, Read, Process, Write, Fail
    <3> QED  BY <3>2 DEF ReturnInv
  <2>3. CASE UNCHANGED vars  BY <2>3 DEF vars, ReturnInv
  <2> QED  BY <2>1, <2>2, <2>3 DEF Next
<1> QED  BY <1>1, <1>2, TypeCorrect, PTL DEF Spec

\* A failing thread loses at most the frame it held: with another thread
\* that reached the end, no more frames are missing than threads failed.
THEOREM LossBoundedHolds == Spec => []LossBounded
<1> DEFINE Errs == {w \in Workers : worker[w].pc = "err"}
           Lost == Frames \ out
           Hit  == {w \in Errs : worker[w].fr \in Lost}
           f    == [w \in Hit |-> worker[w].fr]
<1>1. TypeOK /\ IInv /\ ReturnInv => LossBounded
  <2> SUFFICES ASSUME TypeOK, IInv, ReturnInv, result = "err",
                      \E w \in Workers : worker[w].pc = "ok"
               PROVE  Cardinality(Lost) <= Cardinality(Errs)
    BY DEF LossBounded
  <2>1. outFrame >= NumFrames /\ outFrame \in Nat
    BY DEF IInv, CountInv, Done, TypeOK
  <2>2. \A w \in Workers : worker[w].pc \notin Holding
    BY DEF ReturnInv, Holding
  <2>3. \A fr \in Lost : \E w \in Hit : worker[w].fr = fr
    <3> SUFFICES ASSUME NEW fr \in Lost PROVE \E w \in Hit : worker[w].fr = fr
      OBVIOUS
    <3>1. fr < outFrame  BY <2>1, SizeAssumption DEF Frames
    <3>2. PICK w \in Workers : worker[w].fr = fr /\ worker[w].pc \in Holding \cup {"err"}
      BY <3>1 DEF IInv, AccountedInv
    <3>3. w \in Hit  BY <2>2, <3>2
    <3> QED  BY <3>2, <3>3
  <2>4. f \in Surjection(Hit, Lost)  BY <2>3 DEF Surjection
  <2>5. IsFiniteSet(Errs)  BY FS_Subset, SizeAssumption
  <2>6. IsFiniteSet(Hit) /\ Cardinality(Hit) <= Cardinality(Errs)
    BY <2>5, FS_Subset
  <2>7. IsFiniteSet(Lost) /\ Cardinality(Lost) <= Cardinality(Hit)
    <3> HIDE DEF Lost, Hit, f
    <3> QED  BY <2>4, <2>6, FS_Surjection
  <2>8. Cardinality(Lost) \in Nat /\ Cardinality(Hit) \in Nat /\ Cardinality(Errs) \in Nat
    BY <2>5, <2>6, <2>7, FS_CardinalityType
  <2> HIDE DEF Lost, Hit, Errs, f
  <2> QED  BY <2>6, <2>7, <2>8
<1> QED  BY <1>1, Invariant, ReturnInvHolds, PTL

\* The engine implements the common promise of the engines: a frame is put
\* in the output once, and Ok means that none is missing.
THEOREM ImplementsTranscodeHolds == Spec => ImplementsTranscode
<1>1. Init => Engine!Init  BY SizeAssumption DEF Init, Engine!Init
<1>2. TypeOK /\ IInv /\ ReturnInv /\ [Next]_vars => [Engine!Next]_(Engine!vars)
  <2> SUFFICES ASSUME TypeOK, IInv, ReturnInv, [Next]_vars
               PROVE  [Engine!Next]_(Engine!vars)
    OBVIOUS
  <2>1. CASE Join  BY <2>1, JoinRefines
  <2>2. ASSUME NEW w \in Workers, Write(w) PROVE Engine!Next
    <3>1. worker[w].fr \in Frames \ out
      BY <2>2, SizeAssumption DEF Write, IInv, HeldInv, Holding, Frames, TypeOK
    <3>2. result = "none"  BY <2>2 DEF Write, ReturnInv
    <3>3. Engine!Emit(worker[w].fr)  BY <2>2, <3>1, <3>2 DEF Write, Engine!Emit
    <3> QED  BY <3>1, <3>3 DEF Engine!Next, Engine!Frames, Frames
  <2>3. ASSUME NEW w \in Workers, Open(w) \/ Claim(w) \/ Read(w) \/ Process(w) \/ Fail(w)
        PROVE  UNCHANGED (Engine!vars)
    BY <2>3 DEF Open, Claim, Read, Process, Fail, Engine!vars
  <2>4. CASE UNCHANGED vars  BY <2>4 DEF vars, Engine!vars
  <2> QED  BY <2>1, <2>2, <2>3, <2>4 DEF Next, Worker
<1> QED  BY <1>1, <1>2, Invariant, ReturnInvHolds, PTL DEF Spec, ImplementsTranscode, Engine!Spec

-----------------------------------------------------------------------------
(* How many steps are left at most: four for a frame that is not claimed,  *)
(* one for each thread to open its files and one to see the end, and the   *)
(* join.                                                                   *)

At(pc) == Cardinality({w \in Workers : worker[w].pc = pc})
WorkerAt(pc) == CASE pc = "open"    -> 2
                  [] pc = "claim"   -> 1
                  [] pc = "read"    -> 4
                  [] pc = "process" -> 3
                  [] pc = "write"   -> 2
                  [] OTHER          -> 0

WorkersLeft == 2 * At("open") + At("claim") + 4 * At("read") + 3 * At("process")
               + 2 * At("write")
FramesLeft  == IF outFrame < NumFrames THEN NumFrames - outFrame ELSE 0
JoinLeft    == IF result = "none" THEN 1 ELSE 0

Left == WorkersLeft + 4 * FramesLeft + JoinLeft

LEMMA AtsAre ==
    /\ \A pc : At(pc) \in Nat /\ WorkerAt(pc) \in Nat
    /\ WorkerAt("open") = 2 /\ WorkerAt("claim") = 1 /\ WorkerAt("read") = 4
    /\ WorkerAt("process") = 3 /\ WorkerAt("write") = 2
    /\ WorkerAt("ok") = 0 /\ WorkerAt("err") = 0
<1>1. \A pc : At(pc) \in Nat
  <2> TAKE pc
  <2>1. {w \in Workers : worker[w].pc = pc} \subseteq Workers
    OBVIOUS
  <2> QED  BY <2>1, FS_Subset, FS_CardinalityType, SizeAssumption DEF At
<1> QED
  BY <1>1 DEF WorkerAt

\* One thread goes from a place in the code to another.
LEMMA AtMoves ==
    ASSUME NEW w \in Workers, NEW pc, \A v \in Workers \ {w} : worker'[v] = worker[v]
    PROVE  At(pc)' = At(pc) + (IF worker'[w].pc = pc THEN 1 ELSE 0)
                            - (IF worker[w].pc = pc THEN 1 ELSE 0)
<1> DEFINE A == {v \in Workers : worker[v].pc = pc}
           B == {v \in Workers : worker'[v].pc = pc}
<1>1. IsFiniteSet(A) /\ IsFiniteSet(B)
  <2>1. A \subseteq Workers /\ B \subseteq Workers
    OBVIOUS
  <2> QED  BY <2>1, FS_Subset, SizeAssumption
<1>2. (w \in A <=> worker[w].pc = pc) /\ (w \in B <=> worker'[w].pc = pc)
  OBVIOUS
<1>3. At(pc) = Cardinality(A) /\ At(pc)' = Cardinality(B)
  BY DEF At
<1>4. A \cup {w} = B \cup {w}
  OBVIOUS
<1> HIDE DEF A, B
<1>5. Cardinality(A) \in Nat /\ Cardinality(B) \in Nat
  BY <1>1, FS_CardinalityType
<1>6. Cardinality(A \cup {w}) = IF w \in A THEN Cardinality(A) ELSE Cardinality(A) + 1
  BY <1>1, FS_AddElement
<1>7. Cardinality(B \cup {w}) = IF w \in B THEN Cardinality(B) ELSE Cardinality(B) + 1
  BY <1>1, FS_AddElement
<1> DEFINE a == Cardinality(A)  b == Cardinality(B)
<1>8. a \in Nat /\ b \in Nat /\ At(pc) = a /\ At(pc)' = b
  BY <1>3, <1>5
<1>9. (IF w \in A THEN a ELSE a + 1) = (IF w \in B THEN b ELSE b + 1)
  BY <1>4, <1>6, <1>7
<1> HIDE DEF a, b
<1> QED
  BY <1>2, <1>8, <1>9

LEMMA WorkersLeftMoves ==
    ASSUME NEW w \in Workers, \A v \in Workers \ {w} : worker'[v] = worker[v]
    PROVE  WorkersLeft' = WorkersLeft + WorkerAt(worker'[w].pc) - WorkerAt(worker[w].pc)
<1> DEFINE was == worker[w].pc  is == worker'[w].pc
           In(x, pc) == IF x = pc THEN 1 ELSE 0
<1>1. \A pc : At(pc) \in Nat /\ At(pc)' = At(pc) + In(is, pc) - In(was, pc)
  BY AtsAre, AtMoves
<1>2. /\ At("open") \in Nat /\ At("open")' = At("open") + In(is, "open") - In(was, "open")
      /\ At("claim") \in Nat
      /\ At("claim")' = At("claim") + In(is, "claim") - In(was, "claim")
      /\ At("read") \in Nat /\ At("read")' = At("read") + In(is, "read") - In(was, "read")
      /\ At("process") \in Nat
      /\ At("process")' = At("process") + In(is, "process") - In(was, "process")
      /\ At("write") \in Nat
      /\ At("write")' = At("write") + In(is, "write") - In(was, "write")
  BY <1>1
<1> HIDE DEF was, is
<1>3. \A x : /\ In(x, "open") \in Nat /\ In(x, "claim") \in Nat /\ In(x, "read") \in Nat
             /\ In(x, "process") \in Nat /\ In(x, "write") \in Nat
             /\ WorkerAt(x) = 2 * In(x, "open") + In(x, "claim") + 4 * In(x, "read")
                              + 3 * In(x, "process") + 2 * In(x, "write")
  BY DEF WorkerAt
<1> HIDE DEF In
<1>4. WorkersLeft' = WorkersLeft + WorkerAt(is) - WorkerAt(was)
  BY <1>2, <1>3 DEF WorkersLeft
<1> QED
  BY <1>4 DEF was, is

LEMMA LeftIs ==
    ASSUME TypeOK
    PROVE  /\ WorkersLeft \in Nat /\ FramesLeft \in Nat /\ JoinLeft \in Nat /\ Left \in Nat
<1>1. WorkersLeft \in Nat
  <2>1. /\ At("open") \in Nat /\ At("claim") \in Nat /\ At("read") \in Nat
        /\ At("process") \in Nat /\ At("write") \in Nat
    BY AtsAre
  <2> QED  BY <2>1 DEF WorkersLeft
<1>2. FramesLeft \in Nat
  BY SizeAssumption, WrapAssumption DEF TypeOK, FramesLeft
<1> QED
  BY <1>1, <1>2 DEF JoinLeft, Left

LEMMA WorkerSpends == ASSUME TypeOK, IInv, NEW w \in Workers, Worker(w) PROVE Left' < Left
<1> DEFINE was == worker[w].pc  is == worker'[w].pc
<1>1. result' = result /\ \A v \in Workers \ {w} : worker'[v] = worker[v]
  BY DEF TypeOK, Worker, Open, Claim, Read, Process, Write, Fail, Go
<1>2. JoinLeft' = JoinLeft /\ WorkersLeft' = WorkersLeft + WorkerAt(is) - WorkerAt(was)
  BY <1>1, WorkersLeftMoves DEF JoinLeft
<1>3. WorkerAt(is) \in Nat /\ WorkerAt(was) \in Nat
  BY AtsAre
<1> SUFFICES /\ FramesLeft' \in Int
             /\ 4 * FramesLeft' + WorkerAt(is) < 4 * FramesLeft + WorkerAt(was)
  BY <1>2, <1>3, LeftIs DEF Left
<1>4. CASE Claim(w)
  <2>1. outFrame' = outFrame + 1
    BY <1>4, NoWrap DEF Claim, IInv
  <2>2. was = "claim" /\ is = IF outFrame >= NumFrames THEN "ok" ELSE "read"
    BY <1>4 DEF Claim, TypeOK
  <2>3. outFrame \in Nat /\ NumFrames \in Nat
    BY SizeAssumption, WrapAssumption DEF TypeOK
  <2>4. CASE outFrame < NumFrames
    <3>1. is = "read" /\ FramesLeft' = FramesLeft - 1
      BY <2>1, <2>2, <2>3, <2>4 DEF FramesLeft
    <3> QED  BY <2>2, <3>1, LeftIs, AtsAre
  <2>5. CASE ~(outFrame < NumFrames)
    <3>1. is = "ok" /\ FramesLeft' = FramesLeft
      BY <2>1, <2>2, <2>3, <2>5 DEF FramesLeft
    <3> QED  BY <2>2, <3>1, LeftIs, AtsAre
  <2> QED  BY <2>4, <2>5
<1>5. CASE ~Claim(w)
  <2>1. /\ outFrame' = outFrame
        /\ \/ was = "open" /\ is = "claim"
           \/ was = "read" /\ is = "process"
           \/ was = "process" /\ is = "write"
           \/ was = "write" /\ is = "claim"
           \/ was \in {"open", "read", "process", "write"} /\ is = "err"
    BY <1>5, FaultAssumption DEF TypeOK, Worker, Open, Read, Process, Write, Fail, Go
  <2>2. FramesLeft' = FramesLeft
    BY <2>1 DEF FramesLeft
  <2> HIDE DEF was, is
  <2> QED  BY <2>1, <2>2, LeftIs, AtsAre
<1> QED
  BY <1>4, <1>5

LEMMA JoinSpends == ASSUME TypeOK, Join PROVE Left' < Left
<1>1. WorkersLeft' = WorkersLeft /\ FramesLeft' = FramesLeft
  BY DEF Join, WorkersLeft, At, FramesLeft
<1>2. JoinLeft = 1 /\ JoinLeft' = 0
  BY DEF Join, JoinLeft
<1> QED
  BY <1>1, <1>2, LeftIs DEF Left

\* Every step of mpmtmc uses one up, whatever fails and in whatever order the
\* threads claim their frames: no frame is tried twice and no thread comes back
\* to the counter once it has seen the end.
THEOREM StepsBounded ==
    Spec => /\ Left = 4 * NumFrames + 2 * N + 1
            /\ [](Left \in Nat)
            /\ [][Left' < Left]_vars
<1>1. ASSUME Init PROVE Left = 4 * NumFrames + 2 * N + 1
  <2>1. NumFrames \in Nat /\ N \in Nat
    BY SizeAssumption, FS_CardinalityType DEF N
  <2>2. {w \in Workers : worker[w].pc = "open"} = Workers
    BY <1>1 DEF Init
  <2>3. At("open") = N
    BY <2>2 DEF At, N
  <2>4. ASSUME NEW pc, pc # "open" PROVE At(pc) = 0
    <3>1. {w \in Workers : worker[w].pc = pc} = {}
      BY <1>1, <2>4 DEF Init
    <3> QED  BY <3>1, FS_EmptySet DEF At
  <2>5. WorkersLeft = 2 * N
    BY <2>1, <2>3, <2>4 DEF WorkersLeft
  <2>6. FramesLeft = NumFrames /\ JoinLeft = 1
    BY <1>1, <2>1 DEF Init, FramesLeft, JoinLeft
  <2> QED
    BY <2>1, <2>5, <2>6 DEF Left
<1>2. TypeOK /\ IInv /\ [Next]_vars => [Left' < Left]_vars
  BY WorkerSpends, JoinSpends DEF Next
<1>3. TypeOK => Left \in Nat
  BY LeftIs
<1> QED
  BY <1>1, <1>2, <1>3, Invariant, PTL DEF Spec
=============================================================================
