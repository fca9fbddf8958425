---------------------------- MODULE Launch_proofs ----------------------------
(***************************************************************************)
(* What the way from the options to the engine keeps, for every number of  *)
(* CPUs, limit and thread count.  OptInv says how far reset_parallelism    *)
(* may move the options from what was given, and Chosen which engine goes  *)
(* with them; the rest follows from the pairs of ends each engine takes    *)
(* and from the order of the limit check and the cast.                     *)
(***************************************************************************)
EXTENDS Launch, Integers, TLAPS

OptInv ==
    /\ opt.src = req.src \/ (req.entry = "cli" /\ req.src = "none" /\ opt.src = "-")
    /\ opt.tgt = req.tgt \/ (req.entry = "cli" /\ req.tgt = "none" /\ opt.tgt = "-")
    /\ opt.disable =>
         \/ req.flags.disable
         \/ req.entry = "cli" /\ "none" \in {opt.src, opt.tgt}
    /\ req.flags.disable => opt.disable

\* The engine get_transcoder_strategy takes, by disable_parallel as main left it.
Chosen(name) ==
    IF req.entry = "web" THEN name = "Tokio"
    ELSE /\ name = "SpStSc"  <=> opt.disable
         /\ name = "Glommio" <=> ~opt.disable /\ req.flags.glommio
         /\ name = "Tokio"   <=> ~opt.disable /\ ~req.flags.glommio /\ req.flags.tokio
         /\ name = "MpMtMc"  <=> /\ ~opt.disable /\ ~req.flags.glommio
                                /\ ~req.flags.tokio /\ req.flags.mpMc

EngineInv ==
    /\ pc \in {"reset", "validate", "rules", "strategy"} => engine = NoEngine
    /\ pc = "run" => engine.name \in Engines /\ Chosen(engine.name)
    /\ pc # "end" => outcome = "none"
    /\ pc \in {"reset", "strategy"} => req.entry = "cli"
    /\ req.entry = "web" => ~req.flags.disable

LaunchInv == TypeOK /\ OptInv /\ EngineInv /\ StartsAsAsked /\ WorkersInRange

-----------------------------------------------------------------------------
LEMMA RequestTypes ==
    ASSUME req \in Requests
    PROVE  /\ req.entry \in {"cli", "web"} /\ req.src \in Names /\ req.tgt \in Names
           /\ req.flags \in Flags /\ req.flags.disable \in BOOLEAN
           /\ req.threads \in Nat
           /\ req.entry = "web" => req.src # "-" /\ req.tgt # "-" /\ ~req.flags.disable
<1>1. Plain \in Flags
  BY DEF Plain, Flags
<1>2. req.flags \in Flags /\ req.threads \in Nat
  BY <1>1, LimitAssumption DEF Requests
<1>3. req.flags.disable \in BOOLEAN
  BY <1>2 DEF Flags
<1>4. /\ req.entry \in {"cli", "web"} /\ req.src \in Names /\ req.tgt \in Names
      /\ req.entry = "web" => req.src # "-" /\ req.tgt # "-"
  BY DEF Requests, Names
<1>5. req.entry = "web" => ~req.flags.disable
  BY DEF Requests, Plain
<1> QED
  BY <1>2, <1>3, <1>4, <1>5

LEMMA Modulo == ASSUME NEW n \in Nat PROVE n % Word \in Nat /\ n % Word < Word
  BY LimitAssumption

LEMMA ModuloSmall == ASSUME NEW n \in Nat, n < Word PROVE n % Word = n
  BY LimitAssumption

LEMMA LaunchInit == Init => LaunchInv
<1> SUFFICES ASSUME Init PROVE LaunchInv
  OBVIOUS
<1>1. opt \in [src : Names, tgt : Names, disable : BOOLEAN]
  BY RequestTypes DEF Init
<1>2. TypeOK
  BY <1>1, LimitAssumption DEF Init, TypeOK, NoEngine, NoEnds, Ends
<1>3. OptInv /\ EngineInv /\ StartsAsAsked /\ WorkersInRange
  BY RequestTypes DEF Init, OptInv, EngineInv, NoEngine, StartsAsAsked, EndsAsAsked,
         EngineAsAsked, Started, WorkersInRange
<1> QED
  BY <1>2, <1>3 DEF LaunchInv

\* The invariant but for the options, when only the program counter, the
\* outcome and perhaps the options change before an engine is chosen.
LEMMA NoEngineYet ==
    ASSUME engine = NoEngine, outcome # "started"
    PROVE  StartsAsAsked /\ WorkersInRange
  BY DEF NoEngine, StartsAsAsked, EndsAsAsked, EngineAsAsked, Started, WorkersInRange

LEMMA ResetKeeps == ASSUME LaunchInv, ResetParallelism PROVE LaunchInv'
<1>1. /\ pc = "reset" /\ pc' = "rules" /\ engine = NoEngine /\ req.entry = "cli"
      /\ UNCHANGED <<req, engine, ends, outcome>> /\ outcome = "none"
  BY DEF ResetParallelism, LaunchInv, EngineInv
<1> DEFINE noEnd   == opt.src = "none" \/ opt.tgt = "none"
           disable == opt.disable \/ (req.flags.mpMc /\ noEnd)
           dash    == ~disable /\ ~req.flags.mpMc
<1>2. /\ opt'.src = IF dash /\ opt.src = "none" THEN "-" ELSE opt.src
      /\ opt'.tgt = IF dash /\ opt.tgt = "none" THEN "-" ELSE opt.tgt
      /\ opt'.disable = disable
  BY DEF ResetParallelism
<1>3. opt' \in [src : Names, tgt : Names, disable : BOOLEAN]
  <2>1. opt'.src \in Names /\ opt'.tgt \in Names /\ opt'.disable \in BOOLEAN
    <3>1. opt.src \in Names /\ opt.tgt \in Names /\ opt.disable \in BOOLEAN
      BY DEF LaunchInv, TypeOK
    <3> QED  BY <1>2, <3>1 DEF Names
  <2> QED  BY <2>1 DEF ResetParallelism
<1>4. OptInv'
  BY <1>1, <1>2 DEF LaunchInv, OptInv
<1>5. TypeOK'
  BY <1>1, <1>3 DEF LaunchInv, TypeOK
<1>6. EngineInv'
  BY <1>1 DEF LaunchInv, EngineInv, NoEngine
<1> QED
  BY <1>1, <1>4, <1>5, <1>6, NoEngineYet DEF LaunchInv, NoEngine, StartsAsAsked,
     EndsAsAsked, EngineAsAsked, Started, WorkersInRange

\* A step that only moves on, or stops with an error.
LEMMA MovesOn ==
    ASSUME LaunchInv, UNCHANGED <<req, opt, engine, ends>>, engine = NoEngine,
           pc' \in {"rules", "strategy", "end"},
           outcome' \in {"none", "Validation", "MissingRules", "RulesErr"},
           pc' # "end" => outcome' = "none",
           pc' = "strategy" => req.entry = "cli"
    PROVE  LaunchInv'
  BY DEF LaunchInv, TypeOK, OptInv, EngineInv, NoEngine, StartsAsAsked, EndsAsAsked,
     EngineAsAsked, Started, WorkersInRange

LEMMA StrategyKeeps == ASSUME LaunchInv, ChooseStrategy PROVE LaunchInv'
<1> DEFINE n == IF req.threads = 0 THEN NumCpus ELSE req.threads
<1>1. /\ pc = "strategy" /\ outcome = "none" /\ engine = NoEngine
      /\ UNCHANGED <<req, opt, ends>> /\ n \in Nat /\ n >= 1
  BY RequestTypes, LimitAssumption DEF ChooseStrategy, LaunchInv, EngineInv, TypeOK
<1>2. CASE Stop("TooManyThreads") /\ UNCHANGED engine
  BY <1>1, <1>2 DEF Stop, LaunchInv, TypeOK, OptInv, EngineInv, NoEngine, StartsAsAsked,
     EndsAsAsked, EngineAsAsked, Started, WorkersInRange
<1>3. ASSUME NEW name \in Engines,
             Chosen(name),
             name \in {"MpMtMc", "SpMtSc"} => n <= MaxCpuWorkers,
             engine' = [name |-> name, workers |-> IF name = "SpStSc" THEN 1 ELSE n % Word],
             pc' = "run" /\ UNCHANGED outcome
      PROVE  LaunchInv'
  <2>1. n % Word \in Nat /\ n % Word < Word /\ 1 \in Nat /\ 1 < Word
    BY <1>1, Modulo, LimitAssumption
  <2>2. WorkersInRange'
    <3>1. CASE name \in {"MpMtMc", "SpMtSc"}
      <4>1. n < Word /\ n \in 1..MaxCpuWorkers
        BY <1>1, <1>3, <3>1, LimitAssumption
      <4>2. n % Word = n
        BY <1>1, <4>1, ModuloSmall
      <4> QED  BY <1>3, <3>1, <4>1, <4>2 DEF WorkersInRange
    <3>2. CASE name \notin {"MpMtMc", "SpMtSc"}
      BY <1>3, <3>2 DEF WorkersInRange
    <3> QED  BY <3>1, <3>2
  <2>3. engine' \in [name : Engines, workers : Nat] /\ engine'.workers < Word
    BY <1>3, <2>1
  <2>4. TypeOK'
    BY <1>1, <1>3, <2>3 DEF LaunchInv, TypeOK
  <2>5. OptInv'
    BY <1>1 DEF LaunchInv, OptInv
  <2>6. EngineInv' /\ StartsAsAsked'
    BY <1>1, <1>3 DEF LaunchInv, EngineInv, Chosen, StartsAsAsked, EndsAsAsked,
       EngineAsAsked, Started
  <2> QED  BY <2>2, <2>4, <2>5, <2>6 DEF LaunchInv
<1> QED
  <2> DEFINE name == CASE opt.disable -> "SpStSc"
                     [] ~opt.disable /\ req.flags.glommio -> "Glommio"
                     [] ~opt.disable /\ ~req.flags.glommio /\ req.flags.tokio -> "Tokio"
                     [] ~opt.disable /\ ~req.flags.glommio /\ ~req.flags.tokio ->
                            IF req.flags.mpMc THEN "MpMtMc" ELSE "SpMtSc"
  <2>1. /\ req.flags.glommio \in BOOLEAN /\ req.flags.tokio \in BOOLEAN
        /\ req.flags.mpMc \in BOOLEAN /\ opt.disable \in BOOLEAN /\ req.entry = "cli"
    BY <1>1, RequestTypes DEF LaunchInv, EngineInv, TypeOK, Flags
  <2>2. name \in Engines /\ Chosen(name)
    BY <2>1 DEF Engines, Chosen
  <2>3. \/ Stop("TooManyThreads") /\ UNCHANGED engine
        \/ /\ name \in {"MpMtMc", "SpMtSc"} => ~(n > MaxCpuWorkers)
           /\ engine' = [name |-> name, workers |-> IF name = "SpStSc" THEN 1 ELSE n % Word]
           /\ pc' = "run" /\ UNCHANGED outcome
    BY DEF ChooseStrategy
  <2>4. ~(n > MaxCpuWorkers) => n <= MaxCpuWorkers
    BY <1>1, LimitAssumption
  <2> HIDE DEF name, n
  <2> QED  BY <1>2, <1>3, <2>2, <2>3, <2>4

\* A run: the engine was chosen, the ends are what it was given.
LEMMA RunKeeps ==
    ASSUME LaunchInv, pc = "run", NEW in \in Ends, NEW to \in Ends, Run(in, to),
           UNCHANGED <<req, opt, engine>>,
           \/ in = Asked(opt.src) /\ to = Asked(opt.tgt)
           \/ "Null" \in {in, to},
           req.entry = "cli" /\ "none" \in {opt.src, opt.tgt} => "Null" \in {in, to}
    PROVE  LaunchInv'
<1>1. OptInv' /\ EngineInv' /\ WorkersInRange'
  BY DEF Run, Stop, LaunchInv, OptInv, EngineInv, Chosen, WorkersInRange
<1>2. TypeOK'
  BY DEF Run, Stop, LaunchInv, TypeOK
<1>3. StartsAsAsked'
  <2>1. CASE outcome' # "started"
    BY <2>1 DEF StartsAsAsked, EndsAsAsked, EngineAsAsked, Started
  <2>2. CASE outcome' = "started"
    <3>1. /\ Supports(engine.name, in, to) /\ engine.name \in Engines
          /\ ends' = IF engine.name = "Glommio" /\ engine.workers > 1
                     THEN [src |-> "fixed", tgt |-> "fixed"]
                     ELSE [src |-> in, tgt |-> to]
      BY <2>2 DEF Run, Stop, LaunchInv, EngineInv
    <3>2. "Null" \notin {in, to}
      BY <3>1 DEF Supports, Engines
    <3>3. /\ in = Asked(opt.src) /\ to = Asked(opt.tgt)
          /\ req.entry = "cli" => "none" \notin {opt.src, opt.tgt}
      BY <3>2
    <3>4. Asked(opt.src) = Asked(req.src) /\ Asked(opt.tgt) = Asked(req.tgt)
      BY <3>3 DEF LaunchInv, OptInv, Asked
    <3>5. Asked(req.src)' = Asked(req.src) /\ Asked(req.tgt)' = Asked(req.tgt)
      BY DEF Asked
    <3>6. EndsAsAsked'
      BY <3>1, <3>3, <3>4, <3>5 DEF EndsAsAsked
    <3>7. EngineAsAsked'
      <4>1. Chosen(engine.name)
        BY DEF LaunchInv, EngineInv
      <4>2. opt.disable <=> req.flags.disable
        BY <3>3 DEF LaunchInv, EngineInv, OptInv
      <4> QED  BY <4>1, <4>2 DEF Chosen, EngineAsAsked
    <3> QED  BY <3>6, <3>7 DEF StartsAsAsked
  <2> QED  BY <2>1, <2>2
<1> QED
  BY <1>1, <1>2, <1>3 DEF LaunchInv

LEMMA LaunchStep == LaunchInv /\ [Next]_vars => LaunchInv'
<1> SUFFICES ASSUME LaunchInv, [Next]_vars PROVE LaunchInv'
  OBVIOUS
<1>1. CASE LoadRules
  BY <1>1, MovesOn DEF LoadRules, Stop, LaunchInv, EngineInv
<1>2. CASE WebValidate
  BY <1>2, MovesOn DEF WebValidate, Stop, LaunchInv, EngineInv
<1>3. CASE WebLoadRules
  <2>1. pc = "rules" /\ req.entry = "web" /\ outcome = "none" /\ engine = NoEngine
        /\ UNCHANGED <<req, opt, ends>>
    BY <1>3 DEF WebLoadRules, LaunchInv, EngineInv
  <2>2. CASE Stop("RulesErr") /\ UNCHANGED engine
    BY <2>1, <2>2, MovesOn DEF Stop
  <2>3. CASE /\ engine' = [name |-> "Tokio", workers |-> req.threads % Word]
             /\ pc' = "run" /\ UNCHANGED outcome
    <3>1. req.threads % Word \in Nat /\ req.threads % Word < Word
      BY RequestTypes, Modulo DEF LaunchInv, TypeOK
    <3>2. engine' \in [name : Engines, workers : Nat] /\ engine'.workers < Word
      BY <2>3, <3>1 DEF Engines
    <3>3. TypeOK'
      BY <2>1, <2>3, <3>2 DEF LaunchInv, TypeOK
    <3> QED
      BY <2>1, <2>3, <3>2, <3>3 DEF LaunchInv, OptInv, EngineInv, Chosen, StartsAsAsked, EndsAsAsked,
         EngineAsAsked, Started, WorkersInRange
  <2> QED  BY <1>3, <2>2, <2>3 DEF WebLoadRules
<1>4. CASE TranscodeHandles
  <2>1. /\ pc = "run" /\ req.entry = "cli" /\ UNCHANGED <<req, opt, engine>>
        /\ Run(Handle(opt.src), Handle(opt.tgt))
    BY <1>4 DEF TranscodeHandles
  <2>2. opt.src \in Names /\ opt.tgt \in Names
    BY DEF LaunchInv, TypeOK
  <2>3. /\ Handle(opt.src) \in Ends /\ Handle(opt.tgt) \in Ends
        /\ opt.src = "none" => Handle(opt.src) = "Null"
        /\ opt.tgt = "none" => Handle(opt.tgt) = "Null"
    BY <2>2 DEF Names, Ends, Handle
  <2>4. /\ opt.src # "none" => Asked(opt.src) = Handle(opt.src)
        /\ opt.tgt # "none" => Asked(opt.tgt) = Handle(opt.tgt)
    BY <2>1 DEF Asked
  <2> QED  BY <2>1, <2>3, <2>4, RunKeeps
<1>5. CASE WebTranscode
  <2>1. /\ pc = "run" /\ req.entry = "web" /\ UNCHANGED <<req, opt, engine>>
        /\ Run(WebHandle(opt.src), WebHandle(opt.tgt))
    BY <1>5 DEF WebTranscode
  <2>2. WebHandle(opt.src) \in Ends /\ WebHandle(opt.tgt) \in Ends
    BY DEF WebHandle, Ends
  <2>3. WebHandle(opt.src) = Asked(opt.src) /\ WebHandle(opt.tgt) = Asked(opt.tgt)
    BY <2>1 DEF Asked
  <2> QED  BY <2>1, <2>2, <2>3, RunKeeps
<1>6. CASE UNCHANGED vars
  BY <1>6 DEF vars, LaunchInv, TypeOK, OptInv, EngineInv, Chosen, StartsAsAsked, EndsAsAsked,
     EngineAsAsked, Started, WorkersInRange, Asked
<1> QED
  BY <1>1, <1>2, <1>3, <1>4, <1>5, <1>6, ResetKeeps, StrategyKeeps DEF Next

LEMMA LaunchInvHolds == Spec => []LaunchInv
  BY LaunchInit, LaunchStep, PTL DEF Spec

\* The options, the engine and the ends keep their types; in particular the
\* number of workers fits the u16 it is cast to.
THEOREM TypeCorrect == Spec => []TypeOK
<1>1. LaunchInv => TypeOK
  BY DEF LaunchInv
<1> QED
  BY <1>1, LaunchInvHolds, PTL

\* An engine that runs is the one the flags ask for, and reads and writes what
\* was asked for (reset_parallelism, get_transcoder_strategy,
\* transcode_handles, and the web path).
THEOREM StartsAsAskedHolds == Spec => []StartsAsAsked
<1>1. LaunchInv => StartsAsAsked
  BY DEF LaunchInv
<1> QED
  BY <1>1, LaunchInvHolds, PTL

\* SpMtSc and MpMtMc get between one and MAX_CPU_WORKERS workers, whatever
\* the number asked for (IoStrategy::seq_mt, IoStrategy::mp_mc).
THEOREM WorkersInRangeHolds == Spec => []WorkersInRange
<1>1. LaunchInv => WorkersInRange
  BY DEF LaunchInv
<1> QED
  BY <1>1, LaunchInvHolds, PTL
=============================================================================
