# TLA+ models of the video transcoder and its job server

The program (a Rust workspace) applies a rule file to a raw video, frame by
frame.  `recallai` is the library and the command line, with five transcoding
engines; `web-server` puts a job queue and an HTTP API in front of one of them.
These modules model the parts where several threads or tasks meet, the way from
an option or a request to an engine, and what the rules do to a frame.  Line numbers below are of the files
under `src/`.

## 1. The system

| Component | State it keeps | Operations | Talks to |
|---|---|---|---|
| Job controller (`recallai/src/controller/mod.rs`) | `queued_jobs`, `running_job`, `completed_jobs` behind one `tokio::sync::Mutex` | create, complete, status, list, cancel; `try_dispatch` | web handlers call it under the mutex; it sends jobs on a bounded channel (24) |
| Dispatcher (`controller/dispatcher/tokio.rs`) | the job in hand | receive, skip if cancelled, `process_job`, report | its two channels; runs the Tokio engine |
| Completion listener (`ControllerStatus::new`) | the completion in hand | receive, lock, `complete_job_async` | channel (32) from the dispatcher |
| Web handlers (`web-server/src/handlers/recompose.rs`) | none | POST /recompose, GET /job/:id, GET /job/list[/all], cancel | the controller |
| Tokio engine, on handles (`transcoder/tokioworker.rs`) | per call: a ring of three bounded channels, `num_outstanding`, the writer's list of early frames | caller reads and sends; threads process; task writes in order; with one worker a plain loop | files, stdin, stdout; called by the dispatcher |
| Tokio engine, over HTTP (same file) | the same ring, the piece of the GET not yet used, the request that pulls the output | cut the body into frames; `mk_stream`; join the request | an HTTP server for the source and one for the target |
| SpMtSc (`transcoder/spmtsc.rs`) | per call: four unbounded channels, circulating buffers, the writer's stash | reader, worker and writer threads; joins | files, stdout |
| MpMtMc (`transcoder/mpmtmc.rs`) | per call: an atomic frame counter, one output file | each thread claims, reads, processes, writes | files |
| SpStSc (`transcoder/spstsc.rs`) | per call: one source and one target buffer | read, process, write, frame by frame | files, stdin, stdout |
| Glommio (`transcoder/glommio.rs`, `bufstack.rs`; a feature off by default) | per call: stacks of free buffers, of blocks read, processed and to be written | one executor, or two with a pair of channels, that overlap reading, processing and writing | files |
| Command line, strategy, dispatch (`main.rs`, `strategy/mod.rs`, `transcoder/mod.rs`) | the options | defaults, fallbacks, limits, engine choice | every engine |
| Rules (`rules/mod.rs`), headers (`meta`, `spec`, `data`) | none | load, sort, occlusion, blit; parse and bound the header | every engine |
| Extra reader, image extraction, utilities (`extra`, `inspect`, `util`, `bin`) | none kept | look at a frame of a video, write it as an image | files; no path of the program |
| Other web handlers (static, help, CRC), messages | none | answer a fixed page, format JSON | clients |

What is hard in it: the order in which clients, the dispatcher and the listener
take the mutex; a cancel that meets a dispatch; a job that fails, panics or
never returns; frames that come back out of order; who closes which channel,
and when; a thread that ends early and takes a frame, buffers or an end mark
with it; a request that ends before the stream it pulls does, or the other way
round; pieces of a body that are not frames; who is told of an error.
`PROJECT.json` lists these hazards with their lines.

## 2. The modules

```
 JobQueue      <--implements--  JobController   (MCJobController)
                                    ^
                                    | extends
                                 Service        (MCService, Service_proofs)
                                    | the ring of the call in progress
                                    v
 Transcode     <--implements--  TokioParallel   (MCTokioParallel, TokioParallel_proofs)
               <--implements--  TokioHttp       (MCTokioHttp, TokioHttp_proofs)
                                  extends HttpRead
               <--implements--  SpMtSc          (MCSpMtSc, SpMtSc_proofs)
               <--implements--  MpMtMc          (MCMpMtMc, MpMtMc_proofs)
               <--implements--  SpStSc          (MCSpStSc, SpStSc_proofs)
                                  extends Rules
 Glommio                                        (MCGlommio, Glommio_proofs)
 Launch                                         (MCLaunch, Launch_proofs)
```

Mapped definitions name their lines in `PROJECT.json`.  A definition whose
comment starts with "Mutant" is a broken variant of the one after it; no
specification uses it, and the mutants section of `PROJECT.json` says which
property notices it.  Service_proofs holds the proofs about JobController as
well, since those about Service go on from them.

**JobController** models the controller, the dispatcher task, the listener and
the routes that call them.  A critical section is one step, except that the
lock is held across the send of a dispatched job: `sending` holds that job and
the lock is free exactly when it is empty.  `toService` and `finished` are the
two channels, `disp` and `listener` the two tasks.  `Ulid`s are model values,
fresh for each create.  `process_job` is one action with four outcomes: it
returns frame counts, returns an error (reported as zero frames), panics (the
task unwinds and drops its channel ends), or never returns.  `polled` and
`cancelReply` are what clients were told.  `TokioDispatcher::shutdown` has no
caller and is left out, as is the `SystemTime` in the ids.

**JobQueue** is what the API promises: jobs start in the order of acceptance,
one at a time, within the bound, and none is lost or run twice.

**Service** puts the ring of TokioParallel in the place of that one action.
The dispatcher task is the caller of the ring, so that, once there is a ring,
the outcomes are no longer assumed: a call that returns is reported, a panic of
the caller ends the dispatcher, and a ring that stops moving holds it.  Before
that `process_job` fetches and builds the rules and reads the header, and may
end in any of four ways: it goes on to the ring (`CallStart`), is refused with
an error (`CallRefused`), panics on a size that leaves 32 bits
(`CallPanicsEarly`), or waits for ever for a GET without a timeout
(`CallHangs`).  There is one ring, that of the last call; its length is
`Size[call]` (`Announced`), and `CallStart` makes it anew for the next job.
What is left of the old one by then is not assumed but shown (`RingAtRest`):
at most the write of its last frame, which `unflushed` keeps by its job while
it goes on (`LateWrite`).  The threads and the writer of a call that panicked go
on.  Both locations are files.

**TokioParallel** models `TokioTranscoder::parallel`: the caller (`main`), the
worker threads, the writer task, the channels `ctx`, `wq`, `rq`, and which
channel ends are still held, on which every `recv` that ends depends.  A frame
is its number, and `numFrames`, what the header announces, is one of `Lengths`
chosen in `Init`.  The last worker message, `None`, is `Bye`.  Headers are read
and handed over before `parallel` is called.  `write_all` on a
`tokio::fs::File` hands its bytes to a thread of the blocking pool and returns;
the next one waits for that thread and answers for its error, and nothing
flushes the last (`tokioworker.rs:326`, `409-426`).  So `disk` holds one write
in flight, with a step of its own (`Disk`) that may come, or fail, after
`parallel` has returned.

**HttpRead** is the part of `transcode_http` that cuts the pieces of a GET's
body into frames; a byte is its position in the body.  **TokioHttp** extends
it with the ring of `transcode_http`, whose writer is the stream `mk_stream`
makes and the body of a PUT or POST pulls (`stream`, `put`).  The request may
end before the stream and drops it; the caller may return before the workers
do, and holds its channel ends until then.  `pool` may be empty: the web path
does not replace 0 workers, and a channel of capacity 0 panics.  `reqwest` and
the two servers are external: a GET delivers pieces of any size or ends, a PUT
answers when it has the whole body, or at any time, or fails.

**SpMtSc** models the reader, worker and writer threads and their four
channels, for output to stdout (stash) and to a file (seek), chosen in `Init`.
A free buffer is a token.  With "-" as the input the call fails before any
thread starts, since the header is read by opening a file of that name
(`meta/mod.rs:83`); so the reader's stdin branch (`spmtsc.rs:210-223`) is not
reached.

**MpMtMc** models the threads around the shared counter.  The counter is an
`AtomicU32`: it is taken modulo `Wrap`, and `WrapAssumption` says what the code
relies on without checking it.

**Glommio** models `do_glommio_st` and `do_glommio_mt` with the buffer stacks
of `bufstack.rs`.  One frame, or pair of frames, is being read while the one
before is processed and the one before that written; the first and the last
ones are special cases, and those are what the module is about.  A block is
the index of what the reader delivered: the loops start at byte 0 of the file,
so a block is 12 bytes before the frame of that number.  An `unwrap` ends the
executor's thread (`panicked`); the joins look at nothing, and the answer is
`Ok`.  The glommio library is external.

**Rules** holds what `rules/mod.rs` computes: the sort, the occlusion pass, the
offsets of a blit.  A u32 expression is written with its exact value, from which
the module derives both what a wrapping build gets (`U32`) and where a checking
build panics; `usize` does not wrap.  Since every expression of the code is a
sum of products, wrapping at the end is the same as wrapping at every step.  A
byte of a frame is the sequence of source bytes mixed into it since the last
opaque one, so two frames are equal exactly when the same bytes were blended in
the same order; the arithmetic on floats is left out.  `zbuf` has a capacity
and no elements, so the scan of an opaque rectangle with an area panics at once.

**SpStSc** is one call of the sequential engine, from the source's header to
`Ok`, with everything it calls.  The header is cut short or refused by its
bounds; the rules are built; then each frame is read, processed and written.
`write` may take part of a frame and answer `Ok`.  With one worker the Tokio
engine makes the same steps (`tokioworker.rs`, `transcode_channels`), with
other errors and a `write_all` whose error comes late; `input.tokio` says which
of the two a call is.  Whether the build checks overflow is part of the input
(`checks`): debug builds do, release builds wrap.  The other engines use the
same header and rule code.

**Transcode** is what the engines but Glommio promise: every frame is put in
the output at most once, and `Ok` is answered only with all of them there (the
last may land in the step of the `Ok`, which in TokioParallel is the end of the
write in flight).

`process_frame` always answers `Ok`; what can fail is the slice of a rectangle
that leaves a frame, which panics (`rules/mod.rs:397`).  The `"process"` fault
is that panic.  The `panic="abort"` profiles are in the member manifests, which
cargo ignores in a workspace, so a panic unwinds the thread or task it is in.

**Launch** follows one command or one request from its options to the engine
that runs, with the defaults, the fallback, the limits, the cast to `u16` and
the pairs of ends each engine takes.  Files that are named exist.  The
`--glommio` flag exists in builds with that feature.

## 3. What is checked

Bounds are small because the interesting cases are: a second job while one
runs, a third while the queue (of one) is full; more frames than workers, so
that every buffer is reused and a frame can overtake another; enough workers
that one may get no frame.  The capacities of the job channels (24 and 32) are
1 in the runs, the smallest capacity at which the code still works and the one
that fills first; the proofs hold for all.  The engines' channels have the
capacity of the code, the number of workers.

| Run | Instance | Shows |
|---|---|---|
| jobs | 3 jobs, queue of 1, capacities 1, cancels of one job and of an unknown id, all outcomes | one job in flight (`SingleFlight`); an empty slot means an empty queue (`WorkConserving`); nothing lost or overtaken (`ImplementsQueue`); only a cancel strands the slot; polls never go backwards; every accepted job, also one an idle server runs at once, is completed, unless stranded or the dispatcher is lost (`AcceptedServed`) |
| service | 2 jobs, of 3 frames and of 1, rings of 2 workers, all faults of the ring, every end of a call before its ring, cancels of one job | outside a call nothing of the last ring is left but the write of its last frame (`RingAtRest`); a write that is in flight while a later ring runs is of a job reported complete, never of a failed one (`LeftBehind`); a job reported with its frames has them in its output, the last perhaps not yet (`ReportedWritten`); every accepted job is completed but for the three named ways of losing it (`JobsServed`) |
| tokio | 3 workers, 2 and 5 frames, all faults, the write in flight | order, conservation, channels with room, bounded list, no false `Ok`; the threads never all wait for each other (`NeverStuck`) and the call ends, unless a worker ended without an end mark |
| http | up to 2 workers, 3 frames of 2 bytes after a header of 2, pieces of 1, 2 and 5 bytes, all faults | each frame is filled with its own bytes (`BytesInPlace`); order, bounds; the full count is reported only for a full body; caller, workers, stream and request never all wait for each other, nor do the tasks an early return leaves behind (`NeverStuck`); the call ends, unless a worker ended without an end mark |
| mpmtmc | 3 workers, 4 frames, all faults | claims are exclusive, losses are bounded, no false `Ok`; the call returns |
| spmtsc | 2 workers, 6 frames (more than the 2K buffers), stdout and file, all faults | order on stdout, frames and 2K buffers conserved, no false `Ok` but that of a failed reader; the threads never all wait for each other (`NeverStuck`); the call answers `Ok` unless a worker or the writer failed |
| glommio | headers and files of up to 8 frames, one executor and two, all faults | no block is lost or held twice, one group at most waits and buffers are reused (`Recycled`); blocks come out one place (one executor) or four (two) from their own at most, and all of them (`NearlyInOrder`); no send waits for room and the executors never wait for each other (`NeverStuck`); the call comes back |
| launch_options | every option, 7 values of `--num-threads` around 0, 512 and 2^16 | the engine that runs is the one the options ask for, in the order in which `main` looks at them, or Tokio for a request, with the ends asked for (`StartsAsAsked`); the worker count is in range |
| spstsc | both sequential engines, up to 2 rules of 9 on 5 target sizes and up to 3 rules on one, 2 frames, every header size from 0 to 3, `Word` 16, a threshold of 4 | each frame is the one the rules describe, pixel by pixel; rectangles inside the frames never panic; no false `Ok` but that of a short or late write |

In http, a piece of 1 byte is less than the header, one of 2 is a frame or the
header alone, one of 5 is more than two frames: every way a piece can meet the
ends of a frame.  In glommio, 8 frames are four pairs, so that the loop, its
first two passes and what is done after it all happen, with an odd and an even
number of frames.

In spstsc the frames are 2 by 2 pixels of three bytes, the smallest in which
rows and columns differ and rectangles can overlap in part; the nine rules are
the whole frame (opaque and not), a column, a row, a pixel, one without
columns, one without rows, and two that leave the frame to the right, or so far
below that the offset passes `Word`.  A target of 3 by 2 is just too large for
`Word`, and one of 16 by 1 has a stride of 0.  `FrameIsComposite` compares the
buffer with a definition that knows nothing of offsets: for each pixel, the
rules that cover it, from the topmost opaque one up.

A cancel of a job other than j1 takes the same branches, since the code
compares the id only when nothing runs, and then the queue is empty
(`WorkConserving`); the run of jobs_deleted has cancels of every id.

Three more runs are expected to be violated; each checks one sentence of the
repository against the code:

| Run | Says | The code |
|---|---|---|
| jobs_deleted | `mod.rs:193`, `recompose.rs:210` the id asked for is cancelled | the running job is flagged; the one asked for is started later |
| http_header | `tokioworker.rs:517,709` the header is the first payload | the message with the header yields its other, empty buffer: the body starts with frame 0 |
| spstsc_occlude | `main.rs:57` "delete any fully occluded lower Z-index layers" | any opaque rectangle with an area makes the build panic |

More disagreements are visible in the models and have no run of their own:

- `controller/mod.rs:54` says the flag "can be used to shut off a running task
  gracefully"; a job cancelled between dispatch and pickup is dropped without a
  completion and its slot stays taken (JobController, `Stranded`).
- `static/index.html:354` tells a job that could not be processed from a
  completed one; a failed job is COMPLETED, with 0 frames (JobController).
- `tokioworker.rs:360` "all workers done; exiting": a worker that never had a
  frame sends no end mark (`:296`), and the writer waits for it (TokioParallel
  and TokioHttp, `Starved`).
- `tokioworker.rs:326`: the last `write_all` is not followed by a flush, so the
  call answers `Ok` with the write in flight, its error is lost, and it may
  hold the file while the next job runs (TokioParallel, `disk`; Service,
  `unflushed`).
- `spmtsc.rs:243,261` "reader thread has error", "report errors": a short input
  answers `Ok` (SpMtSc).
- `main.rs:15,23` "default to stdin", "default to stdout": only a parallel
  command that is not mp-mc gets the defaults, and SpMtSc then opens a file
  named "-" for the header (`meta/mod.rs:83`), so a missing source never means
  stdin there, nor with `-d` or `--mp-mc` (Launch).
- `main.rs:35` says Glommio runs "with a single thread"; it gets
  `--num-threads`, four by default, and with more than one it ignores the file
  names it is given (Launch, Glommio).
- `glommio.rs:576`: the answer is `Ok` after a panic of the executor too, and
  the loops read the header's bytes as part of the first frame (Glommio).
- `main.rs:52` says "specify number of transcoder workers"; Tokio and Glommio
  keep it modulo 2^16 (`strategy/mod.rs:41,47`).
- `web-server/src/main.rs:10` says "if 0, use num-cpu threads"; 0 reaches the
  engine, which runs its one-worker loop for files and panics over HTTP.
- `spstsc.rs:88` uses `write`: a pipe that takes part of a frame leaves the
  output short and the call answers `Ok` (SpStSc, `short`).
- `rules/mod.rs:274`: an opaque rule without columns is put in `to_del` once
  per row and removed as often, so the rules after it go too, or the removal
  panics (SpStSc, `HasEmptyOpaque`).
- The target size comes from the rules and has no bound: where it needs more
  than 32 bits a release build allocates a smaller buffer than the header
  announces (Rules, `GoodRules`).

Where a property leaves one of these cases out it says so: `AcceptedServed`
names `Stranded` and `DispatcherLost`, `JobsServed` those and `RingStarved`,
`CompletesUnlessStarved` names `Starved`, and `CompletesUnlessFailed` and
`NeverStuck` of SpMtSc a failed worker or writer, after which that engine may
hang (`spmtsc.rs:226`).  The refinements of Transcode take an `Ok` for the error
it is where the reader failed (SpMtSc), a write was short or late (SpStSc), or
the count answered is not that of the header (TokioHttp); in TokioParallel the
`Ok` of a call with its last write in flight counts once that write is over,
and as an error if it fails.  `FrameIsComposite` and `GoodRulesNeverPanic` speak of
`GoodRules`, since the code does not check a rectangle against either frame,
and the former leaves out `HasEmptyOpaque`.

**Fairness.**  Threads and spawned tasks run when they can, so each has weak
fairness on its steps.  One exception: `CompleteJob` needs the mutex, which
clients can take again and again; tokio's mutex serves its waiters first come
first served, so it has strong fairness.  Nothing is assumed of clients.  In
JobController nothing is assumed of whether `process_job` returns, panics or
hangs, except that one that can return and does neither of the others returns;
in Service not even that: a call that has no ring yet makes one or ends in one
of the other three ways, for ever waiting included, and then the ring's own
steps decide.  A write in flight ends, well or not, since it has a thread; one
of an earlier call need not.  In TokioHttp the
GET delivers a piece or ends, a server answers once it has the whole body, and
a request that is over is dropped; that a server answers early, or not at all
before that, is not ruled out.

**One pool.**  Tokio's workers are `spawn_blocking` threads
(`tokioworker.rs:253,536`) of a pool that has 512 by default, and on which
`tokio::fs` reads and writes and `reqwest` resolves names.  Their number is a
`u16` that neither `strategy/mod.rs:47` nor the web server's `--num-threads`
limits.  With 512 or more, all of them waiting for a frame, a read of the input
or a write of the output gets no thread and the call does not move.  The pool is
not modelled, so the Tokio modules assume fewer workers (`PoolAssumption` of
TokioParallel and of TokioHttp, `RingAssumption` of Service), and what they show
and prove of waiting holds for those.

No run uses symmetry.  **Deadlock** is checked for JobController and Glommio;
the other engines and Launch model one call, which ends (or, as the runs above
show, hangs), and Service has calls that hang.

## 4. What is proved

TLAPS checks these for every value of the constants allowed by the named
assumptions (any number of jobs, threads and frames, any capacities; for Tokio
fewer than 512 threads). Every safety property of the passing runs is a theorem. So is type correctness
(`TypeCorrect`), which every inductive invariant starts from; no run lists it
by itself.

Liveness is out of the prover's reach, but its safety half is not, and each
engine with threads has it in two parts. `NeverStuck` says which thread waits
for what and that somebody can always go on, as a disjunction of guards instead
of ENABLED. `StepsBounded` (not for TokioHttp, where a GET may deliver any
number of empty pieces) counts the steps that are left, as a number that every
step makes smaller, whatever fails. Together they say that, if somebody who can
move does, a call comes to its end or to a wait that the property names (of a
call that is `Starved`, or in SpMtSc one in which a worker or the writer
failed); that somebody moves is fairness, and only TLC checks that. MpMtMc has
no waits but the join, so nothing there is named `NeverStuck`.

*Service_proofs, the controller.*  Type correctness, then an inductive
invariant `IInv`.  It is needed because `SingleFlight` alone does not survive a
step: a job can be in one of five places between its dispatch and its booking,
and moving it on keeps the others empty only if we know which place holds it.
`IInv` therefore counts and orders what is in flight, ties each place to
`running`, and ties each job's `status` to where it is and what clients were
told.  From it follow `SingleFlight`, `WorkConserving`, `SendNeverWaits` (the
mutex is never held across a send that has to wait), `StrandedOnlyByCancel`, the
action property `PolledForward`, and the refinement `ImplementsQueue`, in which
`CreateJob` is `SubmitIdle` or `SubmitBusy`, `CompleteJob` is `Finish`, and every
other action is a stutter.

*Service_proofs, the service.*  A step of the service is written as a step of
the controller, or one of the ring, or it makes a new ring (`ControllerSteps`,
`RingSteps`: no result, but what the rest goes through).  So `IInv` and, of
TokioParallel_proofs, `CallInv` hold of the service without being proved again.
What joins them: outside a call the last ring has returned (`BetweenInv`) and,
since a ring that returns answers `Ok`, its count is on its way to the client or
booked (`DoneInv`); a count of all frames on its way to the client belongs to a
ring that has returned (`ClaimInv`); `CountsInv`, that counts are kept for booked
jobs only, makes a new call start without such a claim.  `RingAtRest` and
`ReportedWritten` follow, and `ControllerSafe` and `ServesInOrder` (the jobs are
still a first-in first-out queue).  `LeftBehind` needs the two sides together:
when a ring is made nothing but the new job is in flight in the controller
(`FlightInv`), so the claim of the call before, which is somewhere (`DoneInv`),
can only be in the books (`BeforeCall`).

*TokioParallel_proofs.* Types, `InOrder`, `RingBounded`, `Conserved`,
`ImplementsTranscode` and `ReturnsAtRest`, for 2 to 511 workers and any faults.
`RingInv` has four parts. `OutInv`: the output is the frames below `numWritten`,
but for the last of them while `disk` has it. `DiskAlone` says that the write in
flight changes nothing else. `BufferInv`: what the caller holds or has sent, with the
pairs on their way back, is at most what was written plus the pairs ever made;
that bounds `ctx` and `rq`. `PlaceInv`: a frame taken from `ctx` and not
written lies in `numWritten..First-1`, wherever it is. `UniqueInv`: no two
places between `ctx` and the output hold the same frame, without which a frame
could be stashed that is written already. The writer's next frame is never in
the list when it looks at a new one, so the list lies in an interval shorter
than `N` (`SmallSet`) and is smaller than `N`. `KeptInv` adds that a frame sent
and not written is somewhere in the ring unless a thread or the writer failed
(`Lost`), which with `UniqueInv` is `Conserved`. `EndInv` ties the answer to
the writer's end, and `WholeOutput` turns `numWritten` into the set of frames.
`ByeInv` counts end marks, those on `wq` and those taken, against the workers
that sent one; so a writer that leaves after the last mark has seen every
worker out (`RestInv`), and a call that returns holds no frame but in its
output, save the last on `disk`, and answers `Ok` (`ReturnsAtRest`). Run service
checks that of its rings, as the second half of `RingAtRest`. `NeverStuck` needs more than
bounds, since a bound allows that a pair is nowhere. `FlowInv` has the exact
count while the caller reads: every pair made is with a frame sent and not
written, on its way back, or in the caller's hand, so a caller that waits for
one has one in the ring. The frame the writer waits for is then in the ring as
well (`KeptInv`), in a channel or with a worker that can move; and after the
last frame, the end marks missing are those of workers still to send one.
`StepsBounded`: at most 11 x frames + 7 x workers + 4 steps.

*TokioHttp_proofs.* `BytesInPlace`, for pieces, frames and headers of any size.
`ReadInv` says where the next byte of the frame, of the piece and of the body
is, each relative to the start of the frame. `ReadsTheBody` shows that a
behaviour of TokioHttp, seen through the reader's four variables, is one of
HttpRead: workers, stream and request do not touch them, and each step of the
caller is one reader step or none. Then types, `InOrder`, `RingBounded` and
`ImplementsTranscode` of the ring. The argument is that of TokioParallel with
the stream as the writer, but the request may drop the stream, after which the
caller makes new buffers: `BufferInv` speaks of the time until then. `EndInv`
ties the count the caller reports to the end of the stream. `NeverStuck` has to
hold in a ring whose parts end in any order. `FlowInv` counts the pairs while
there is a caller to take them back. `PathInv`: a frame that left `ctx` is in
exactly one of five places until a worker or the stream ends with it, so
(`WaitInv`) a stream that waits lacks the frame whose turn it is and that frame
is with somebody who can move. `ByeInv` counts the end marks. `StartInv`:
workers, stream and request start together, and those of a call that returned
early see its ends dropped.

*SpMtSc_proofs.* Types, `InOrder` on stdout, `Conserved` and
`ImplementsTranscode`, for any number of workers, frames and faults. The
buffers are counted: a worker holds one or none of each kind, so a step changes
the number of workers that hold one by the one it takes or gives (`AtMoves`).
The frames are followed: `Place` names the five places a frame passes after
`fullSrc`, every step moves at most one frame from one to another (`Moves`), so
they stay disjoint and none is missing without a failed thread (`PathInv`).
`OutInv` is the order on stdout and `EndInv` what the joins know. For
`NeverStuck`, `TightInv` turns the bound of `Conserved` into an equation: until
a thread fails, all K buffers of a kind are on the free list, in the channel,
in the stash or in a hand (those of the reader until it ends). They cannot all
be stuck in the stash, since while a frame is stashed the one whose turn it is
is still on its way (`StashWaits`). `StepsBounded`: at most 10 x frames + 2 x
workers + 7 steps.

*MpMtMc_proofs.* `IInv` says that every frame below the counter is written, in
the hands of a live thread, or was lost by a failed one, that no two threads
hold one frame, and that a thread which ended well saw the counter past the
end. `ClaimedOnce`, `LossBounded` and `ImplementsTranscode` follow;
`WrapAssumption` is used where the counter is advanced: it grows at most once
past the end per thread, so it does not wrap. `StepsBounded`: at most 4 x
frames + 2 x workers + 1 steps, since no frame is tried twice.

*SpStSc_proofs.*  `GoodRulesNeverPanic`, for frames of every size.  It rests on
`RowInside` and `WithinFits`: the last byte of a row of a rectangle inside a
frame is at most the size of the frame, so a frame that 32 bits address has no
offset that wraps, and `WidthAssumption` (16384 x 16384 x 3 < 2^32) says that
every source frame in bounds is one.  `IInv` adds that the rules applied are
those given and that no frame is read before the header is found in bounds.  It
says nothing of calls with the occlusion pass, which do panic.
`ImplementsTranscode` rests on `WrittenInv`: the frames written are those below
the loop's counter, whatever the rules do to them.

`FrameIsComposite` is about data: a fold of a recursive copy over a sorted
list. The induction theorems of the library take an operator, which the prover
cannot instantiate, so they are said again of a set of numbers (`UpTo`, from
its least element), and what the recursion computes is shown by exhibiting the
closed form: it satisfies the recursion, so the recursion has a solution, and
any solution agrees with it row by row (`BlitDraws`). So a blit writes the
bytes of its rectangle and no others, each with the byte of the image that
belongs there; rows do not overlap. The sort gives one order and sorting twice
changes nothing; an occlusion pass that returns has deleted nothing, since no
opaque rule has a pixel and those without columns are excluded. `PictureInv`
then follows the main loop: the rules drawn so far (`Drawing`) are, at each
pixel, what is seen from the topmost opaque one up (`Seen`), and when the last
one is drawn that is the composite (`CompositeIsDrawing`).
`OcclusionDrawsNothing` is the general form of the finding of spstsc_occlude:
under the pass, a call with a rule that covers a pixel and has an opaque image
writes no frame at all.

*Glommio_proofs.* Types, `Recycled` and `NearlyInOrder`, for files of any
length. Neither property is close to inductive: which block is written next
depends on all of the stacks. `TableInv` gives the contents of every stack as a
function of the place in the code and of the frame the loop is at, with the
first two passes, which differ, as cases of their own (`OutAt`, `ProcAt`,
`PipeAt`). The two channels and the block the other executor works on are one
sequence, `Pipe`, which that executor's steps do not change and of which the
loop takes the head; so no case is needed for how far it has come. `BlocksInv`:
blocks written, lost and waiting are those read, each counted once. `ReachInv`
is the distance between a block and its place, to which the table adds one
group at a time (`GroupNear`); the last writes, in an order of their own, are
the ones that can move a block four places. `BuffersInv` gives the number of
free buffers in each pass, from which follows that no pop allocates after the
second. `Recycled` says nothing once an executor panicked, and the table then
ends as well. The table also gives `NeverStuck`: two blocks at most are in the
pipe when the loop sends, and three ever, so that channels of four have room,
and an executor that waits has a block in it. `StepsBounded`: at most 10 x
frames + 14 steps.

*Launch_proofs.*  Types, `StartsAsAsked` and `WorkersInRange`, for any number of
CPUs below the limit and any width of the cast above it.  `LaunchInv` adds what
`reset_parallelism` can have done to the two names (`OptInv`) and what is known
of the engine at each step (`EngineInv`).

Only model-checked: the liveness properties (`AcceptedServed`, `JobsServed`,
`CompletesUnlessStarved`, `CompletesUnlessFailed`, `Returns`), which the prover
does not reach, nor does it reach ENABLED: that each disjunct of a `NeverStuck`
is the guard of a step is by reading, and by the deadlock check of the runs that
have one.  No module here has a RECURSIVE operator.

## 5. Plan

MpMtMc without `WrapAssumption`: what a header of nearly 2^32 frames does.

## 6. Not modelled

- The arithmetic on the bytes of a pixel; the byte order of header fields.
- Image extraction (`inspect`), the reader and experiments in `extra`, `util`
  and the binaries under `bin`: file I/O without state, used by no path of the
  program.
- `run_glommio` and its helpers (`glommio.rs:53-414`), an experiment whose one
  call, in `bin/run_glommio.rs`, is commented out; what reaches the disk of the stream writer's last buffer, which
  is never closed, is the library's.
- The static, help and CRC handlers; JSON and HTTP formats; timing, logging.
- `TokioDispatcher::shutdown`, which has no caller.
- Tokio's blocking pool and the thread pool of its runtime (see One pool above).
- Service with HTTP locations or with one worker: the ring and the plain loop
  are checked alone, and the calls they make of the controller are the same.
- `completed_jobs` is never pruned (`mod.rs:66`): no property says so, since
  the code states no bound it keeps.
