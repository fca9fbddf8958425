------------------------------- MODULE Launch -------------------------------
(***************************************************************************)
(* From what the user asks to the engine that runs: the command line       *)
(* (recallai/src/main.rs, strategy/mod.rs, transcoder/mod.rs), and the web *)
(* server's path to TokioDispatcher::process_job.  One behaviour is one    *)
(* command or one accepted request; the options are chosen in Init.  A     *)
(* file that is named is there and can be opened.                          *)
(***************************************************************************)
EXTENDS Naturals

CONSTANTS
    NumCpus,          \* num_cpus::get()
    MaxCpuWorkers,    \* MAX_CPU_WORKERS (512)
    Word,             \* what `as u16' keeps: 2^16
    Threads           \* the --num-threads values tried, a u32

ASSUME LimitAssumption ==
    /\ NumCpus \in 1..MaxCpuWorkers
    /\ MaxCpuWorkers \in Nat /\ Word \in Nat /\ MaxCpuWorkers < Word
    /\ Threads \subseteq Nat

\* What an end is given as: nothing, "-", a http(s) URL, anything else.
Names == {"none", "-", "http", "path"}
Ends  == {"Null", "Std", "Http", "File"}

Flags == [disable : BOOLEAN, mpMc : BOOLEAN, glommio : BOOLEAN, tokio : BOOLEAN]
Plain == [disable |-> FALSE, mpMc |-> FALSE, glommio |-> FALSE, tokio |-> FALSE]

Requests ==
    [entry : {"cli"}, src : Names, tgt : Names, rules : Names \ {"none"},
     flags : Flags, threads : Threads]
    \cup
    [entry : {"web"}, src : Names \ {"-"}, tgt : Names \ {"-"},
     rules : Names \ {"-"}, flags : {Plain}, threads : Threads]

Engines == {"SpStSc", "SpMtSc", "MpMtMc", "Glommio", "Tokio"}
NoEngine == [name |-> "none", workers |-> 0]
NoEnds   == [src |-> "Null", tgt |-> "Null"]

VARIABLES
    req,          \* the options as given
    pc,           \* the next step of main, or of the web path
    opt,          \* src, tgt and disable_parallel, which main changes
    engine,       \* the engine and its number of workers
    ends,         \* the ends the engine reads and writes
    outcome       \* "started" once an engine runs, or the error

vars == <<req, pc, opt, engine, ends, outcome>>

TypeOK ==
    /\ req \in Requests
    /\ pc \in {"reset", "validate", "rules", "strategy", "run", "end"}
    /\ opt \in [src : Names, tgt : Names, disable : BOOLEAN]
    /\ engine \in [name : Engines, workers : Nat] \cup {NoEngine}
    /\ engine.workers < Word
    /\ ends \in [src : Ends \cup {"fixed"}, tgt : Ends \cup {"fixed"}]
    /\ outcome \in {"none", "started", "Validation", "MissingRules", "RulesErr",
                    "TooManyThreads", "Unsupported", "IoErr", "Panic"}

Init ==
    /\ req \in Requests
    /\ pc = IF req.entry = "cli" THEN "reset" ELSE "validate"
    /\ opt = [src |-> req.src, tgt |-> req.tgt, disable |-> req.flags.disable]
    /\ engine = NoEngine
    /\ ends = NoEnds
    /\ outcome = "none"

Stop(why) == pc' = "end" /\ outcome' = why

-----------------------------------------------------------------------------
(* The command line.                                                       *)

\* Mutant: a missing end gets its default although mp-mc has fallen back.
ResetAlways ==
    /\ pc = "reset"
    /\ pc' = "rules"
    /\ LET noEnd   == opt.src = "none" \/ opt.tgt = "none"
           disable == opt.disable \/ (req.flags.mpMc /\ noEnd)
       IN  opt' = [src |-> IF opt.src = "none" THEN "-" ELSE opt.src,
                   tgt |-> IF opt.tgt = "none" THEN "-" ELSE opt.tgt,
                   disable |-> disable]
    /\ UNCHANGED <<req, engine, ends, outcome>>

\* reset_parallelism: mp-mc without both ends falls back to one thread, and
\* only what stays parallel and is not mp-mc defaults to stdin and stdout.
ResetParallelism ==
    /\ pc = "reset"
    /\ pc' = "rules"
    /\ LET noEnd   == opt.src = "none" \/ opt.tgt = "none"
           disable == opt.disable \/ (req.flags.mpMc /\ noEnd)
           dash    == ~disable /\ ~req.flags.mpMc
       IN  opt' = [src |-> IF dash /\ opt.src = "none" THEN "-" ELSE opt.src,
                   tgt |-> IF dash /\ opt.tgt = "none" THEN "-" ELSE opt.tgt,
                   disable |-> disable]
    /\ UNCHANGED <<req, engine, ends, outcome>>

\* with_json_in_handle: a file, and a readable one.
LoadRules ==
    /\ pc = "rules" /\ req.entry = "cli"
    /\ \/ req.rules = "path" /\ pc' = "strategy" /\ UNCHANGED outcome
       \/ req.rules = "path" /\ Stop("RulesErr")
       \/ req.rules # "path" /\ Stop("MissingRules")
    /\ UNCHANGED <<req, opt, engine, ends>>

\* Mutant: --num-threads 0 is not replaced.
StrategyZero ==
    /\ pc = "strategy"
    /\ LET f == req.flags
           n == req.threads
           name == CASE opt.disable -> "SpStSc"
                     [] ~opt.disable /\ f.glommio -> "Glommio"
                     [] ~opt.disable /\ ~f.glommio /\ f.tokio -> "Tokio"
                     [] ~opt.disable /\ ~f.glommio /\ ~f.tokio ->
                            IF f.mpMc THEN "MpMtMc" ELSE "SpMtSc"
       IN  IF name \in {"MpMtMc", "SpMtSc"} /\ n > MaxCpuWorkers
           THEN Stop("TooManyThreads") /\ UNCHANGED engine
           ELSE /\ engine' = [name |-> name,
                              workers |-> IF name = "SpStSc" THEN 1 ELSE n % Word]
                /\ pc' = "run"
                /\ UNCHANGED outcome
    /\ UNCHANGED <<req, opt, ends>>

\* get_transcoder_strategy and the IoStrategy constructors: only mp_mc and
\* seq_mt check the number of workers, and all of them cast it `as u16'.
ChooseStrategy ==
    /\ pc = "strategy"
    /\ LET f == req.flags
           n == IF req.threads = 0 THEN NumCpus ELSE req.threads
           name == CASE opt.disable -> "SpStSc"
                     [] ~opt.disable /\ f.glommio -> "Glommio"
                     [] ~opt.disable /\ ~f.glommio /\ f.tokio -> "Tokio"
                     [] ~opt.disable /\ ~f.glommio /\ ~f.tokio ->
                            IF f.mpMc THEN "MpMtMc" ELSE "SpMtSc"
       IN  IF name \in {"MpMtMc", "SpMtSc"} /\ n > MaxCpuWorkers
           THEN Stop("TooManyThreads") /\ UNCHANGED engine
           ELSE /\ engine' = [name |-> name,
                              workers |-> IF name = "SpStSc" THEN 1 ELSE n % Word]
                /\ pc' = "run"
                /\ UNCHANGED outcome
    /\ UNCHANGED <<req, opt, ends>>

\* get_video_in_handle, get_video_out_handle.
Handle(name) ==
    CASE name = "none" -> "Null"
      [] name = "-"    -> "Std"
      [] name = "http" -> "Http"
      [] name = "path" -> "File"

\* Which pairs of ends each engine's transcode_handles takes.
Supports(e, in, out) ==
    CASE e \in {"SpStSc", "SpMtSc"}  -> in \in {"File", "Std"} /\ out \in {"File", "Std"}
      [] e \in {"MpMtMc", "Glommio"} -> in = "File" /\ out = "File"
      [] e = "Tokio" -> \/ in \in {"File", "Std"} /\ out \in {"File", "Std"}
                        \/ in = "Http" /\ out = "Http"

\* The engine runs.  SpMtSc reads the header from a file of the name it was
\* given, "-" included; the runtime the command line makes for Tokio has no
\* I/O driver, so its HTTP client panics; and Glommio with several workers
\* does not use the names at all.
Run(in, out) ==
    IF ~Supports(engine.name, in, out)
    THEN Stop("Unsupported") /\ UNCHANGED ends
    ELSE IF engine.name = "SpMtSc" /\ in = "Std"
    THEN Stop("IoErr") /\ UNCHANGED ends
    ELSE IF req.entry = "cli" /\ in = "Http"
    THEN Stop("Panic") /\ UNCHANGED ends
    ELSE /\ Stop("started")
         /\ ends' = IF engine.name = "Glommio" /\ engine.workers > 1
                    THEN [src |-> "fixed", tgt |-> "fixed"]
                    ELSE [src |-> in, tgt |-> out]

TranscodeHandles ==
    /\ pc = "run" /\ req.entry = "cli"
    /\ Run(Handle(opt.src), Handle(opt.tgt))
    /\ UNCHANGED <<req, opt, engine>>

-----------------------------------------------------------------------------
(* The web server.  The queue between the two is JobController's.          *)

\* recompose: all three must be there.
WebValidate ==
    /\ pc = "validate"
    /\ IF "none" \in {req.src, req.tgt, req.rules}
       THEN Stop("Validation")
       ELSE pc' = "rules" /\ UNCHANGED outcome
    /\ UNCHANGED <<req, opt, engine, ends>>

\* get_rules_from_job: a file or a GET, then the transcoder is made with the
\* server's --num-threads, cast `as u16'.
WebLoadRules ==
    /\ pc = "rules" /\ req.entry = "web"
    /\ \/ Stop("RulesErr") /\ UNCHANGED engine
       \/ /\ engine' = [name |-> "Tokio", workers |-> req.threads % Word]
          /\ pc' = "run"
          /\ UNCHANGED outcome
    /\ UNCHANGED <<req, opt, ends>>

\* recompose takes anything that is not a URL for a file name, "-" too.
WebHandle(name) == IF name = "http" THEN "Http" ELSE "File"

\* convert_in_handle, convert_out_handle, transcode_handles.
WebTranscode ==
    /\ pc = "run" /\ req.entry = "web"
    /\ Run(WebHandle(opt.src), WebHandle(opt.tgt))
    /\ UNCHANGED <<req, opt, engine>>

Next ==
    \/ ResetParallelism \/ LoadRules \/ ChooseStrategy \/ TranscodeHandles
    \/ WebValidate \/ WebLoadRules \/ WebTranscode

Spec == Init /\ [][Next]_vars

-----------------------------------------------------------------------------
(* Properties.                                                             *)

Started == outcome = "started"

\* What an end should be: as named, and stdin or stdout when it is missing.
Asked(name) ==
    IF req.entry = "web" THEN WebHandle(name)
                         ELSE Handle(IF name = "none" THEN "-" ELSE name)

\* An engine that runs reads and writes what was asked for: the defaults set
\* by reset_parallelism, the strategy it goes with and the pairs each engine
\* takes never combine into other ends.  Glommio's several-worker path,
\* which ignores its file names, is left out.
EndsAsAsked ==
    Started /\ ~(engine.name = "Glommio" /\ engine.workers > 1)
        => ends = [src |-> Asked(req.src), tgt |-> Asked(req.tgt)]

\* The two engines that hang or do nothing without a worker are never
\* started without one, nor with more than MAX_CPU_WORKERS: the cast to u16
\* cannot cut a number the limit let through.
WorkersInRange ==
    engine.name \in {"SpMtSc", "MpMtMc"} => engine.workers \in 1..MaxCpuWorkers

\* The engine that runs is the one the flags ask for: -d before --glommio
\* before --tokio before --mp-mc; the web server always uses Tokio.  The one
\* thread that mp-mc without an end falls back to never runs, because it gets
\* no default end either.
EngineAsAsked ==
    LET f == req.flags IN
    Started =>
        IF req.entry = "web" THEN engine.name = "Tokio"
        ELSE /\ engine.name = "SpStSc"  <=> f.disable
             /\ engine.name = "Glommio" <=> ~f.disable /\ f.glommio
             /\ engine.name = "Tokio"   <=> ~f.disable /\ ~f.glommio /\ f.tokio
             /\ engine.name = "MpMtMc"  <=> ~f.disable /\ ~f.glommio /\ ~f.tokio /\ f.mpMc

\* What runs is what was asked for, and where.
StartsAsAsked == EndsAsAsked /\ EngineAsAsked
=============================================================================
