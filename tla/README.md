# A formal model of x265-compress-skill

The repository encodes one video file as many chunks, several ffmpeg processes
at a time, and runs a queue of such jobs.  It has to survive kills, user stops,
aborts by its own guards, and encoders that hang, without ever losing encoded
video and without merging a file that is incomplete or of mixed quality.  These
modules model that control logic in TLA+; TLC checks them on small instances
and TLAPS proves the safety properties those instances satisfy for any size: of
the parallel encoder, the pipeline over kills and re-runs, the pause controls,
the CRF escalation, the queue runner, the metrics log and the lifetime group.

Tools: `tlc -config X.cfg M` for each run of `PROJECT.json`, `tlapm M.tla` for
each of the eight modules that end in `Proofs`.  `PROJECT.json` lists the runs,
the source lines every definition stands for, the hazards, and for each property
a faulty variant of the code that violates it.

## 1. The system

| part | state | operations | talks to |
|---|---|---|---|
| parallel encoder (`encode_parallel`, `chunk_worker`, `display`) | work queue, results, `active_procs`, `slots`, `abort_event`; enc and .part files | worker loop, spawn/register/wait/promote, render tick, join, exit decision | all of the next five, through `display` |
| auto-fix and skips (`chunk_recovery`, `skipped_collector`) | quarantined files, `choked_chunks`, needs_fix sidecars | quarantine, relaxed retry, decode walk, collection | called by workers and by the orchestrator |
| size guard, choke killer (`size_projection`, `choke_detection`) | `abort_reason`, `choked_chunks` | check and terminate, once per render tick | reads `display`, signals processes |
| VMAF guard (`quality_guard`) | its queue, `_aborted`, failure counter | submit, measure, abort, stop with timeout | a thread of its own; `on_abort` sets `abort_event` and terminates encoders |
| pause and keys (`pause_control`, `keyboard_input`) | `paused_slots`, `_file_paused`, SIGSTOPped processes | toggle, pause_all, resume_all, PAUSE file | keyboard thread, render thread, orchestrator |
| finish request (`finish_signal`) | an event and the FINISH file | request, withdraw, consume | read by workers and by the exit decision |
| pipeline (`encode_resumable`, `verify_loop`, `encoder`, `dts_recovery`, `done_dir`) | workdir, output, damaged and quarantined files | split, encode, concat, verify, retry, clean up, move | runs the encoder; killed and re-run at any point |
| history and hooks (`history_state`, `*_hook`) | one in-progress record, JSONL log | mark status, flush at exit, fire hooks | pipeline, atexit |
| CRF escalation (`crf_retry`, `crf_jump`, `job_runner`) | projections, escalation record in the state sidecar | run, decide the next CRF, persist, set chunks aside | runs the pipeline as a subprocess, reads its history row |
| queue (`run_queue`, `completion`, `queue_state`) | attempted inputs, completion records | live reload, skip rules, record, halt | runs the escalation |
| metrics log (`chunk_metrics_*`) | JSONL rows | base row, verdict row, last row wins | workers and the VMAF guard's thread |
| lifetime group (`platform_compat`) | tracked pids, a watchdog process | assign, kill on parent death | every encoder of the parallel display |
| pre-flight (`pre_flight`, `source_patcher`) | a cached verdict per source | scan, patch, rescan | first step of the pipeline |
| status inspector (`status`, `queue_status_format`) | none | classify each job | reads the sidecar and the disk the queue writes |
| layout migration (`log_paths`) | the old and the new place of the sidecar | move, refuse | first step of the queue |

The rest (planner, rendering, report text, installers, examples) is sequential
and keeps no state of its own; `PROJECT.json` lists it with the reason it is
not modelled.

What is hard in this code:

* **interleavings**: a worker between `Popen` and `register_proc` while an
  abort sweeps; the choke killer acting on a snapshot; verdicts for chunks
  whose workers have gone; a pause of a slot whose process has just changed;
* **partial failure**: an exception in any helper, a rename that fails, a
  record that cannot be written;
* **ordering**: which guard's exit code wins, the drain before the decision;
* **crashes**: a kill between any two file operations, and the re-run on what
  it left;
* **waiting**: the orchestrator joins workers, a worker waits for its process,
  and only a guard or the user ends either.

The properties that make each component correct: the encoder keeps every encoded
byte, owns every process it starts, ends after an abort, and exits with the code
that says why; the VMAF guard judges every chunk that is merged; the escalation
never replays a CRF, is bounded by its cap, ends, and delivers an output of one
CRF; a pause never leaves a process stopped that nobody can resume; the pipeline
delivers only verified outputs, keeps encoded video until then, reports each run
once and resumes from any kill; the queue runs every job once, records only what
is done, and its inspector, counters and exit code say the same; the metrics log
tells the newest encode of each chunk; registered encoders die with their run.

## 2. Modules

```
QualityGuard  <--EXTENDS--  ParallelEncode  <--EXTENDS--  MCParallelEncode
                                  ^
                                  +--EXTENDS--  ParallelEncodeProofs
                                                        ^
                                                        +--EXTENDS--  ParallelReturnProofs
ChunkEncoding  <--INSTANCE--  ParallelEncode

CrfEscalation  <--EXTENDS--  CrfEscalationProofs

PauseControl  <--EXTENDS--  MCPauseControl
      ^
      +--EXTENDS--  PauseControlProofs

ResumableJob  <--INSTANCE--  EncodeJob  <--EXTENDS--  MCEncodeJob
                                 ^
                                 +--EXTENDS--  EncodeJobProofs

QueueRunner  <--EXTENDS--  MCQueueRunner
      ^
      +--EXTENDS--  QueueRunnerProofs

ChunkReports  <--EXTENDS--  ChunkReportsProofs

LifetimeGroup  <--EXTENDS--  LifetimeGroupProofs
```

The modules cut the system where the program is cut into processes and files.
The queue process runs the escalation and the encoder as subprocesses and sees
exit codes: `QueueRunner` and `CrfEscalation` have an encoder that does what
`EncodeJob` shows it may do.  `EncodeJob` calls the chunk encoder and sees what
it returns: `ParallelEncode` has its threads.  `PauseControl`, `ChunkReports`
and `LifetimeGroup` each take one concern of those threads and keep as much of
the workers as that concern can meet.

### QualityGuard

The guard's thread and the calls others make.  `gq` is `_work_q`, `infra` the
counter `_consecutive_infra_fails`, `gaborted` is `_aborted`, `decision` the
verdict mirrored to the metrics log.  `Submit`, `PutSentinel` and
`ReapInflight` are `submit` and the two halves of `stop`; `GuardTake`,
`GuardInfraFail`, `GuardPass` and `GuardFail` are `_run` and the branches of
`_process_one`.  The VMAF score is a choice between the branches.

### ParallelEncode

One call of `encode_chunks_parallel`.  Steps are as fine as the code's locks
and system calls: everything between two points where another thread's effect
can be seen is one action.

| model | code |
|---|---|
| `todo`, `results`, `choked` | `work_q`, `ctx.results`, `display.choked_chunks` |
| `wpc`, `wchunk` | the program counter and chunk of each worker thread |
| `ps` | each ffmpeg process: unborn, live, dying (SIGTERM sent), ok, err |
| `active` | `display.active_procs` |
| `enc`, `part`, `aside` | who wrote `enc_X.mkv`, `enc_X.part.mkv`, the quarantined files |
| `wrote` | history variable: every file of video ever begun |
| `abort`, `sized`, `qinfo` | `abort_event`, `abort_reason`, `quality_abort_info` |
| `rpc`, `view` | the render thread and `check_choke`'s snapshot |
| `mpc`, `skipped`, `outcome` | the orchestrator, the skips, the exit code |

Worker: `LoopCheck`, `Take`, `Prepare` (quarantine), `Spawn`, `Register`,
`Reap`, `Promote`, then `JudgeRecord` or `JudgeFix`; the auto-fix shares
`Prepare`, `Spawn`, `Register`, `Reap` and goes on with `FixEncoded`,
`FixBroken`, `FixPromote`.  `EncodeRaise` and `FixRaise` are exceptions.
Render thread: `SizeOver`, `SizeAbort`, `SizeSweep`, `ChokeSnapshot`,
`ChokeKill`.  Guard thread: QualityGuard's steps and `OnAbortInfo`,
`OnAbortFlag`, `OnAbortSweep`.  Orchestrator: `MainJoin` ... `MainFinish`.
`Exit` is ffmpeg ending, `UserFinish` the f key or the FINISH file.

`Init` is any mixture of finished chunks, stale .part files and untouched
chunks an earlier run can leave, with at least one chunk to do.

Abstractions: the queue hands out chunks in any order (the code: middle first);
the projection and the choke window are nondeterministic verdicts; a VMAF score
is a choice; wall time is absent, so a timeout may fire whenever the code may be
waiting; `proc.wait(timeout=5)` and `kill` in the finally clause are one step
that ends the process; chunk hooks and metrics rows are in `ChunkReports`,
messages are left out.  The render thread's join(timeout=2) is taken to succeed.

Nine constants switch parts on: `GuardOn`, `SizeGuard`, `ChokeGuard`,
`AutoFix` are options of the program; `EncodeRaises`, `FixRaises`,
`RenameFails`, `StopTimesOut`, `FinishCancels` admit faults and user actions.

`ChunkEncoding` is what the call promises the verify loop: a file of video once
begun is kept, an encoded chunk is never replaced, nothing is written or renamed
into place after the call has ended, "done" means that no chunk is missing, and
a request, a failure or a skip that one is.  `ParallelEncode!Contract`
instantiates it (kept: enc, .part and quarantined files; used: the enc files).

### CrfEscalation

One source under `retry_with_bigger_crf`, over several starts of the queue.
`record` and `sidecar` are `last_crf_tried` in memory and on disk, `enc` the
CRF of each chunk in the workdir, `aside` the superseded chunks, `history` the
CRF of the newest threshold row of the history file, `probes` the projections
the floor detector compares.  `StartRun` is `load_queue_state` and
`_seed_crf_from_state`; `EncodeChunk`, `SizeStop`, `Succeed`, `UserStop` and
`Fail` are what an encode may do; `Floor`, `Exhaust`, `Persist` are the
branches of the loop; `SupersedeChunk` moves one file, `Reencode` starts the
next encode; `Kill` ends queue and encoder at any point.  `PersistRecord` and
`ClearRecord` change the record in memory and may fail to save the sidecar.  The jump formula is
abstracted to any CRF at least one step higher, clamped to the cap (`Jumps`).

`tried` and `torn` are history variables: the CRFs recorded as stopped, and
whether chunks were ever left behind whose CRF no record tells: by a run given up,
by a kill between record and supersede, or because the save had failed.

### PauseControl

Pausing, next to an abstraction of the workers and guards that keeps only what
a pause can meet: an ffmpeg is launched, registered, ends, is waited for and
unregistered; guards send SIGTERM.  A slot takes its chunks from a counter.

| model | code |
|---|---|
| `platform`, `typing` | which backend of `platform_compat`; whether anybody uses the keys, which are there on Windows always and on POSIX with a terminal |
| `ps`, `stops`, `term` | each ffmpeg (unborn, alive, exited but not waited for, gone), its suspensions, whether SIGTERM was sent |
| `active`, `paused`, `clock` | `active_procs`, `paused_slots`, `slots[s].paused_at` |
| `mismarked` | history: slots marked paused by a signal that missed their ffmpeg |
| `op` | the pause operation the keyboard, render or main thread is in: the slots still to do and the one signalled but not yet noted |
| `file`, `filePaused` | the PAUSE file, `_file_paused` |

`Toggle`, `ResumeAll`, `FilePause`, `FileResume` and `Join` take a snapshot
under the lock; `Signal` is `suspend_pid` or `resume_pid` outside it, `Note`
the update back under it.  The backends differ in three ways that matter:
whether a signal reaches a process that has exited but was not waited for
(`Reachable`), whether suspensions are counted (`Signalled`), and whether
terminating ends a suspended process at once (`Terminate`, `Exit`).

Abstractions: slots of one operation are done in any order; paused seconds are
a clock that ticks or is frozen; pids are not reused.

### EncodeJob and ResumableJob

One source through several runs of `encode_resumable.main`.  The state is what
a run leaves on disk, a program counter, and the history record.

| model | code |
|---|---|
| `source`, `archived`, `blocked` | the source at its place or in done_dir, the output there, a partial copy under its name |
| `cache` | `<stem>.preflight.json` |
| `split`, `srcs`, `enc`, `part`, `aside`, `finish` | the workdir: `.split_done`, `src_*`, `enc_*`, `.part`, quarantined files, FINISH |
| `dst`, `beside` | the output, with what it was made of and the verdict on it; `damaged_` and `.pre-dts-fix` copies |
| `status`, `written`, `told` | `HistoryRecorder.current` and `written`; the row and the hooks in the order they went out |
| `attempt`, `rc`, `last` | the verify attempt, the exit code under way, the last run's |

`Start` to `Begin` are `main` up to the encode loop, with the silent exits
before `init_history_state`.  `EncodeChunk`, `EncodeFails`, `StopByUser`,
`AbortEncode` and `EncodeReturns` are `encode_chunks` seen from outside; the
serial encoder's middle-first order is computed (`MiddleFirst`), the parallel
one takes chunks in any order.  `CheckChunks`, `Concat`, `Verify`, `RemuxAside`,
`RemuxSwap`, `Reverify`, `VerifyFailed` are the verify loop.  `Finalize`,
`FlushRow`, `FireJobEnd`, `FireFileComplete` are `flush`, reached both from the
end of `main` and through `sys.exit` and atexit.  `DeleteCache`, `Cleanup`,
`MoveOutput`, `MoveSource`, `Summary` are the end of a successful run.  `Kill`
may cut any step and leaves a split, an encode, a cleanup or a move half done.

A chunk is good or short (its duration is off).  A verdict depends on the file
and on chance: any check may fail on a good file, no check passes an incomplete
one.  That last point is the one thing taken from ffprobe and ffmpeg.

`ResumableJob` is what the pipeline promises: video is kept until an output has
been accepted, only a complete set makes an acceptable output, the source
leaves after that.  `EncodeJob!Promise` instantiates it (kept: enc and
quarantined files; output: an accepted file in place or archived), and
`KeepsPromise` says that every step of the pipeline is a step of the promise or
none.

### QueueRunner

| model | code |
|---|---|
| `queue` | the queue file, which the user edits and an editor may leave half written |
| `inputs`, `outputs`, `doneIn`, `doneOut` | where sources and outputs are |
| `discarded` | history: sources the user deleted while their output stayed |
| `saved`, `legacy`, `mem` | `logs/<queue>.state.json`, the sidecar of the old layout, `QueueState` |
| `jobs`, `seen`, `attempted`, `reports` | the last snapshot, the denominator's set, `attempted_inputs`, `job_reports` |
| `cur`, `doneDir`, `code`, `env` | the job, its done_dir, the encoder's exit code, the `X265_QUEUE_*` counters |

`Migrate` and `Load` are the start (with `--reset-state`), `Reload` is the live
reload with `_pick_next_job`, `SkipJob` is `_skip_if_missing_or_existing`,
`StartEncoder`, `GenerateFails`, `EncoderEnds` and `ReportJob` are
`run_one_job`, `SaveEscalation` the saves of the whole state that
`crf_retry` makes when it records or clears a CRF, `RecordCompletion` and
`SaveState` the completion, then `NotifyAndLoop` and `Finish`.  The user edits
the queue file (`EditQueue`) or deletes the source of an output
(`DiscardSource`).  `Kill` may come at any step; the encoder then
ends by itself or dies with the runner.  The three tables that say what a
status means are written out as three sets of sets.  `Classify` is the
`--status` table without the sorts of unfinished jobs.

### ChunkReports

Encodes are numbered per chunk; a row of `chunk_metrics.jsonl` is which encode
its numbers are of and which its verdict is of.  `fold` is the file as the
reader sees it, `cache` is `ChunkMetricsLog._cache`, `torn` says that the file
ends within a line.  A worker renames, records, submits and fires its hook; the
guard measures, copies the cached row under the lock and appends later.
`QuarantineBad` makes the verify loop send chunks back, `Kill` and `DiskFull`
cut writes.  `lost` is a history variable: rows that did not get into the log.

### LifetimeGroup

`pids`, `batch` and `main` are `_LifetimeGroup.pids`, the list a `_cleanup` is
killing and how far it is; `pipe`, `lines`, `pgids` and `wd` are the watchdog's
stdin in the kernel, what `readline` has read ahead of `select`, the groups it
has learned and where it is.  Workers spawn, add and tell.  The main thread
leaves through atexit (`ExitNormally`), or a signal at any moment runs the
handler (`Signal`): nothing masks signals, so a second one runs `_cleanup`
inside the first one's `_cleanup` and its `sys.exit` ends both (`CutOff`).
SIGINT has no handler and leaves by KeyboardInterrupt (`Interrupt`,
`InterruptExit`).  After a handler the workers go on, and atexit cleans up once
more (`SecondCleanup`).  `KilledHard` is SIGKILL between any two steps.  An
encoder may outlast SIGTERM.

`secured`, `cut` and `missed` are history variables: encoders whose registration
was complete before a teardown, those of a cleanup that a signal cut before its
SIGKILL, and those whose line the watchdog had not read when it found its parent
dead, in the kernel's pipe or in `readline`'s buffer.

## 3. What is checked

| run | question | result |
|---|---|---|
| `parallel_encode` | every fault but a failing rename, a timed-out drain and a withdrawn finish; both guards, auto-fix, choke killer | 7 properties hold, 2.4 million states |
| `parallel_live` | does an abort reach every encoder and end the call? also with failing renames, a timed-out drain, a withdrawn finish | 3 properties hold, 0.5 million states |
| `crf_escalation` | `crf_step` 2, three starts of the queue with kills, stops, failures, failing moves, failing saves and lost records | 6 properties hold, 0.6 million states |
| `pause_control` | both backends, with and without a user at the keys: PAUSE file, keys, choke kills and an abort against chunk boundaries | 5 properties hold, 0.17 million states |
| `encode_job` | two runs, three command lines, a kill anywhere, failing probes, a user who deletes the output | 8 properties hold, 1.2 million states |
| `queue_runner` | three starts, two sources, every exit code, edits, a deleted source, kills, half moves, lost saves, a sidecar to migrate | 6 properties hold, 1.0 million states |
| `chunk_reports` | two workers and the guard, three encodes of a chunk, three starts, a full disk and kills | 2 properties hold, 1.1 million states |
| `lifetime` | two workers, two encoders, every way the orchestrator can end, signals within its teardown too | 3 properties hold, 0.6 million states |
| `abort_paused` | does an abort end the call when a key has paused a slot? | violated (POSIX) |
| `quarantine_fails` | the never-delete rule with a failing rename | violated |
| `crf_rerun` | one CRF per output, when the user stops and re-runs? | violated |
| `workdir_lost` | does encoded video survive until an output is accepted, when the bad chunk is locked? | violated |

The properties:

* `BytesPreserved`: every file of video ever begun is the chunk, its .part or
  a quarantined file.  Two workers on one chunk, a missing quarantine or a
  rename onto a finished chunk would break it.
* `SupervisedEncoders`: a running ffmpeg has a worker that will wait for it.
* `AbortReachesEncoders`: with an abort flagged and no sweep outstanding, every
  running encoder has its SIGTERM or is about to be refused by `register_proc`.
* `AbortEnds`: an abort leads to the end of the call.
* `ExitMatchesCause`: exit 3 means the size guard and nothing else, exit 9 a
  failed verdict; the other endings mean no guard objected.
* `SkipsAreDocumented`, `EmptyReturnIsComplete`, `FailuresAreRetried`: what the
  return value and the exit 1 message say about the files on disk.
* `ReturnedChunksAreJudged`: no chunk is merged that the VMAF guard did not see.
* `EncodeInv`, `JobInv`, `CrfInv`, `PauseInv`, `QueueInv`, `LifetimeInv`: the
  inductive invariants of section 5, checked here before they are proved.
* `NoReplay`, `EscalationEnds`: the escalation makes progress over restarts.
* `OverCapOnlyByResume`: an encode the escalation starts is above `crf_max` in one
  case only: with `crf_jump`, a `crf_step` above 1, and a restart from the record
  of a jump that was clamped (section 4).
* `EncodedKept`, `ResumedOutputIsUniform`: superseding loses nothing, and the
  output is of one CRF unless a history variable shows how it could not be.
* `StoppedIsReachable`: a suspended ffmpeg is the one registered in its slot,
  so keys and sweeps find it.
* `FilePauseHolds`, `FileRemovalReleases`: a PAUSE file that stays suspends
  every ffmpeg, those of later chunks too, and its removal leaves none stopped.
  The first holds on both backends once the keys are left alone, but for a slot
  in `mismarked` (section 4); the second if nobody types.
* `AbortEnds`: an abort ends the call on Windows whatever is paused, and on
  POSIX once the PAUSE file is gone if nobody pauses a slot by key.

* `OkIsVerified`: status "ok" means an output that was accepted and holds every
  chunk, whatever a kill or a half cleanup left for this run to start from.
* `KeepsPromise`: `EncodeJob` implements `ResumableJob`.
* `OutputKept`: the program loses no output file, accepted or not; it is
  renamed or archived.
* `NothingUnjudged`: a run that ends by itself leaves no output that
  `verify_output` has not seen.  Only a kill between concat and the verdict
  does, and the next run takes that file for a finished one.
* `ReportedOnce`: the row and each hook once and in order, though `flush` runs
  twice; `on_file_complete` exactly on success.
* `OkExitsZero`: a run recorded "ok" exits 0, except when only the output
  reached done_dir.
* `RunEnds` (in `EncodeJob` and `QueueRunner`): attempts are bounded; a queue
  file that grows, shrinks or does not parse neither repeats a job nor keeps
  the runner waiting.
* `RecordsTellTruth`: a completion record names the place where both files are,
  unless the user has deleted the source.
* `RecordedStaysDone`: a completion on disk is neither lost nor encoded again
  until `--reset-state`.
* `InspectorAgrees`: `--status` and the next run classify each job alike, but for
  an unrecorded output whose source the user deleted (section 4).
* `BooksAgree`: the exit code, the `[OK]` markers and the counters, which use
  three tables, agree, and exit 0 means that every job has an output.
* `LogTellsLatest`: for every chunk the log tells the newest encode and never a
  verdict of an older one, but for rows a fault cut off.
* `SomeoneSaysDone`: some hook says "N of N" when the last chunk is done,
  whatever the order of the workers.
* `SecuredAreReaped`: when the orchestrator and its watchdog are gone, so is
  every encoder that was registered before the teardown, with the two exceptions
  `cut` and `missed` (section 4).  It says nothing of a run whose watchdog could
  not be started and which is then killed with SIGKILL.
* `WatchdogLeaves`: the watchdog does not outlive its orchestrator.

### Bounds

Two workers and two chunks: every race above is between two workers, or one
worker and one other thread, over at most two chunks (the one at hand and the
one the slot gets next).  `InfraLimit` is 2 instead of 3: with two chunks three
failures in a row could not happen.  Three starts of the queue: a record is
written in the first, used and overwritten in the second, used again in the
third.  The escalation has CRFs from 1 to a cap of 4 with `crf_step` 2: the walk
tries 1 and 3, a jump may be clamped to 4, and a record of 3 meets the cap when
it is resumed; the proofs cover any step and cap.  Workers are symmetric in
the safety runs of `ParallelEncode`; the liveness runs use no symmetry.  The
choke killer and the auto-fix are off in `parallel_live`, where they double the
state space and add no cause of an abort; the proofs cover the auto-fix's
registration.

`pause_control` has two chunks: the second may be the next one of the same slot
or run next to the first.  If nobody types there are two slots, which the
loops of pause_all and resume_all need; if somebody does there is one, where
keys, file, abort and the next ffmpeg meet (module `MCPauseControl`).
Suspensions are counted up to two, one by a key and one by the file.

`encode_job` has two chunks (one bad, one good), two attempts (a retry and the
last one, for which the code branches) and two runs (one that is cut, one that
finds what it left).  Three command lines give each option each of its values;
all combinations would multiply the states without a new meeting of two
options.  `queue_runner` has two sources, of which one has a done_dir, four
contents of the queue file, one act of the user (`MaxEdits`: an edit or a deleted
source), three command lines, all exit codes the runner tells apart, and three starts: one
that completes a job, one that is killed or loses its save, one that reads what
is left.  Its constants `StateUnreadable` and `LegacyLocked` are FALSE and its
names distinct; section 4 says what the other values show.  `chunk_reports`
encodes a chunk up to three times, once more than one verify retry, over three
starts.  `lifetime` has two workers and two encoders, one registered and one on
its way; the proof covers any number.

### Fairness

`ParallelEncode!FairSpec`: every thread that can take a step of its own takes
one (worker steps, the render thread once it has decided to abort, the three
steps of `on_abort`, the orchestrator), and a process that got SIGTERM exits,
which ffmpeg does.  No fairness for exceptions, for a VMAF measurement (it may
hang, which is what `stop(timeout=90)` is for), for the decision of a guard, or
for an ffmpeg that nobody signalled: `AbortEnds` needs the abort to reach it.
Suspended processes are outside this module.

`PauseControl!FairSpec`: worker, render and main thread and an operation once
begun go on, and a process that got SIGTERM exits unless it is suspended.  No
ffmpeg has to end by itself, and no user has to press a key or touch the file.

`CrfEscalation!FairSpec`: the queue keeps making some step of its own.  Kills,
stops and failures are not fair, they only cut runs short.

`EncodeJob!FairSpec` and `QueueRunner!FairSpec`: the program, once started, goes
on (both are one sequential thread; a subprocess that never ends is outside).
Nobody has to start it again, and kills, edits and user requests are not fair.

`LifetimeGroup!FairSpec`: the main thread gets on with a cleanup once begun, and
the watchdog polls.  `WatchdogLeaves` needs nothing of workers or encoders.

## 4. What the runs found

* A quarantine rename that fails is followed by `ffmpeg -y` on the very file it
  was to keep (`chunk_worker.py:68`, `chunk_recovery.py:118`).
* After a user stop, a failure or exhaustion inside an escalation, the chunks
  of the raised CRF stay, the record does not, and the re-run mixes CRFs
  (`crf_retry.py:319`).
* An abort on POSIX does not end a run in which a key has paused a slot: the
  SIGTERM stays pending, and the `resume_all` that would release it comes after
  the join that waits for it (`encode_parallel.py:364`).
* When the only bad chunks of the last attempt are locked, the verify loop
  returns no problem, the run is recorded "ok" without an output, and cleanup
  deletes the encoded chunks (`verify_loop.py:107`).

Met while modelling, and excluded from a passing run by a constant or named in
its property:

* `try_auto_fix_chunk` has no teardown: an exception in its progress loop
  leaves its ffmpeg running (`chunk_recovery.py:124`).  `SupervisedEncoders`
  fails with `FixRaises = TRUE`.
* A finish request withdrawn between the workers' leaving and the exit decision
  makes the call return "success" with chunks missing (`encode_parallel.py:438`;
  `EmptyReturnIsComplete` fails with `FinishCancels = TRUE`).  The verify loop
  notices the missing chunks: `EncodeJob` has such a return and `OkIsVerified`
  holds.
* With `LegacyLocked = TRUE` an unlink that fails leaves the old sidecar beside
  the new one; after `--reset-state` the next start migrates it again, and the
  completions the user has reset are back (`log_paths.py:208`).  The comment
  there says that the worst case is a refused migration.  What comes back is
  true (`RecordsAreTrue` in section 5), so no property fails for it.
  `RecordedStaysDone` fails for another reason: a start whose move was refused
  knows none of the old records, and encodes their sources again.
* Two sources of one name and one done_dir: the second completion is recorded
  as moved though its move was refused (`completion.py:101`).  By
  `RecordsAreTrue` there is no other way to a false record.
* A move cut in half is recorded as completed in place only if the encoder
  exits 0; it exits 1, because the summary finds neither path.  The comment in
  `_verify_move_outcome` expects such a job to be encoded again: the source is
  still there, so it is.
* A kill between concat and the verdict leaves an output that the next run
  takes for finished, and the queue records it.
* A restart may encode above `crf_max`.  With `crf_jump` an encode
  closer to the cap than `crf_step` may still jump to the cap, and its CRF is then
  the record.  A restart begins at the record plus `crf_step`, and nothing
  compares that with the cap (`crf_retry.py:145`, against `SKILL.md:486` "stop escalating past this").
  On the instance of `crf_escalation` TLC refutes `pc = "encode" => crf <=
  CrfMax`: 1, a jump to 3, the next clamped to 4, a kill, a restart at 5.  The
  record is below the cap (`RecordInv`), so such an encode is less than
  `crf_step` above it, and when it is stopped the escalation is exhausted.
* On POSIX the PAUSE file may be disobeyed by one ffmpeg, also without a keyboard.
  A SIGSTOP reaches a process that has exited and is not yet waited for; if the
  slot's next ffmpeg registers before the lock is taken again, its slot is marked
  paused and it runs, and `pause_all` skips it until the next chunk
  (`pause_control.py:96`, against `pause_control.py:132` "keep all active slots
  suspended while it exists").  With keys the same mark can be left by a resume
  between signal and mark.  `FilePauseHolds` without `mismarked` is refuted on the
  POSIX half of `pause_control` with `typing = FALSE`.
* A second SIGTERM, SIGHUP or SIGQUIT within the teardown that the first one
  started runs `_cleanup` again: it finds `pids` empty, dismisses the watchdog,
  and its `sys.exit` leaves through the first `kill_groups` before its SIGKILL
  (`_posix.py:199-216`, whose docstring says "Idempotent").  An encoder that
  outlasts SIGTERM then outlives the run (`cut`).
* The watchdog's `readline` reads ahead of `select`, so what was told early may
  sit unread in its buffer; when the parent is found dead those lines are not
  looked at, and their encoders live on (`_posix_watchdog.py:98-122`; `missed`).
* Of an output that nothing records and whose source the user has deleted
  `--status` says DONE, which `status.py:127-128` intends, and the next run
  "skipped-not-found" with exit code 2 (`run_queue.py:135-144`).
  `InspectorAgrees` names this case and demands agreement in all others.
* `chunk_metrics.jsonl` after a torn line loses the next row too: nothing ends
  the torn line first.

## 5. What is proved

`ParallelEncodeProofs` proves, for any set of slots and chunks and every value
of the switches:

* `Invariant`: `Spec => []IInv`;
* `TypeCorrect`: `Spec => []TypeOK`;
* `EncodedVideoIsKept`: with `RenameFails = FALSE`, `Spec => []BytesPreserved`;
* `EncodersAreSupervised`, `AbortReachesEveryEncoder`: with `FixRaises =
  FALSE`, `Spec => []SupervisedEncoders` and `Spec => []AbortReachesEncoders`.

The two hypotheses exclude exactly two faults of section 4.

The named properties are not inductive.  `BytesPreserved` needs that ffmpeg
starts on a free .part name (`FreePartInv`), that a rename never meets a
finished chunk (`DiskInv`), and for both that no two workers hold one chunk
(`HoldInv`).  `AbortReachesEncoders` needs `SweptInv` (after the sweep no
worker waits for an unsignalled encoder), which is preserved because an encoder
that runs unsignalled under a waiting worker is in `active_procs`
(`RegisteredInv`) and a sweep reads exactly those.  `SupervisedEncoders` then
places every running process under some worker.  `GuardInv` keeps the failure
counter below its limit and the guard's chunk defined, `ViewInv` says a choke
verdict has a snapshot, `ReapedInv` that a return code is final.  `IInv` is
their conjunction with `TypeOK`; TLC checks it too, with `ReturnInv` below (run
`parallel_encode`, `EncodeInv`).

The proof has one lemma per conjunct (`GuardTypes` ... `SupervisedSteps`), with
one step per action that touches it, over the case split of lemma `Actions`;
`InitIInv` and `NextIInv` put them together.  The assumptions are those of the
modules: `GuardAssumption` and `EncodeAssumption` (the switches are Boolean,
there is a worker, as `compress.py` insists, and the special values differ from
chunks and processes).

`ParallelReturnProofs` builds on `Invariant` and proves what the ending of the
call says, again for any set of slots and chunks:

* `ReturnInvariant`: `Spec => []ReturnInv`, and `EncodeInvariant`: `Spec =>
  []EncodeInv`, which is `IInv /\ ReturnInv`;
* `FailedAreRetried`: `Spec => []FailuresAreRetried`, under every fault;
* `EmptyReturnComplete`: with `FinishCancels = FALSE`, `Spec =>
  []EmptyReturnIsComplete`;
* `SkipsDocumented`: with `FinishCancels = FALSE` and `RenameFails = FALSE`,
  `Spec => []SkipsAreDocumented`;
* `ExitMatches`, `ReturnedJudged`: with `StopTimesOut = FALSE`, `Spec =>
  []ExitMatchesCause` and `Spec => []ReturnedChunksAreJudged`;
* `CallKeepsContract`: with `FinishCancels = FALSE` and `RenameFails = FALSE`,
  `Spec => KeepsContract`.

Each hypothesis is needed: TLC finds the property violated in the instance of
`parallel_encode` as soon as the named switch is on.  `ReturnInv` says where a
missing chunk can be (`MissingInv`: in the queue, with a worker, or recorded as
failed), that an encoder that succeeded has left its .part (`PartInv`: so a
worker never records a success without a file), that workers who leave unasked
leave an empty queue behind (`LeaveInv`, which needs that there is a worker),
that every abort has its cause on record and that nobody decides after the drain
(`CauseInv`), and that a chunk of this run is judged or on its way to the guard,
before the sentinel (`JudgedInv`).  With the queue empty and no worker holding a
chunk, `MissingInv` leaves only failures to be missing (`MissingHasFailed`), and
`MainFinish` returns accordingly.

The refinement is proved step by step in `ContractSteps`.  Few actions touch a
file of video or end the call.  An ffmpeg that starts on a free .part is a
`Write` (`LaunchWrites`) and a promotion is a `Use` (`PromoteUses`).  A
quarantine and the collection of the skips only rename (`SettingAsideKeeps`) and
stutter.  The three exits are `Return`, with what is missing taken from
`MissingInv`, `SkipInv` and `EmptyReturnIsComplete`.  Everything else leaves the
mapped variables alone.  No run checks `KeepsContract`: it would double the time
of `parallel_encode`, on whose instance TLC confirms it when `PROPERTY
KeepsContract` is added (and refutes it with `RenameFails` or `FinishCancels`
on).

`PauseControlProofs` proves, for any set of slots, any number of chunks and
either backend, `PauseInvariant` (`Spec => []PauseInv`), `PauseTypes` and
`StoppedAreReachable` (`Spec => []StoppedIsReachable`).  The argument: what an
operation is about to signal is still registered or gone for good
(`TargetInv`), because a slot is only given up when its process was waited for
(`DriveInv`, `ActiveInv`) and a suspended process cannot exit (`StoppedInv`).
Its assumption is `PauseAssumption`.

`CrfEscalationProofs` proves, for any set of chunks, any CRFs, any number of
starts and every fault the module has:

* `EscalationInvariant`: `Spec => []CrfInv`;
* `RecordedCrfIsNotReplayed`: `Spec => []NoReplay`;
* `SupersededChunksAreKept`: `Spec => []EncodedKept`;
* `UntornOutputIsUniform`: `Spec => []ResumedOutputIsUniform`;
* `OverCapIsAResumedJump`: `Spec => []OverCapOnlyByResume`.

`CrfInv` adds three parts to the properties.  `RecordInv`: memory and sidecar
hold records below the cap, what was tried is no higher than the sidecar's, and
an encode under way is above that; `NoReplay` follows.  `UniformInv`: as long as nothing is torn, the chunks of a running
encode have its CRF, and those of a killed one have the CRF `SeedCrf` will
choose.  That is why a kill does no harm after the supersede loop and does harm
within it.  A failing save is harmless unless a kill follows with chunks of a CRF
the sidecar does not know (`Unrecorded`).  `CapInv`: without jumps a recorded CRF
has been followed by one a step higher and within the cap, so a resumed one is
within it as well; with a step of 1 being below the cap is enough; with jumps
and a larger step neither holds, and the property names that case.  The
assumption is `EscalationAssumption`.

`EncodeJobProofs` proves, for any number of chunks, attempts and starts and any
set of command lines, under every fault:

* `FaultInvariant`: `Spec => []FaultInv`;
* `OutputsAreKept`: `Spec => OutputKept`;
* `NothingLeftUnjudged`: `Spec => NothingUnjudged`;

and with `ChunkLocked = FALSE`:

* `JobInvariant`: `Spec => []JobInv`, where `JobInv` contains `FaultInv`;
* `SuccessIsVerified`: `Spec => []OkIsVerified`;
* `SuccessExitsZero`: `Spec => []OkExitsZero`;
* `RunsReportOnce`: `Spec => []ReportedOnce`;
* `PipelineKeepsPromise`: `Spec => KeepsPromise`, the refinement;
* `EncodesAreKept`: `Spec => EncodesSurvive`.

The hypothesis excludes the fault of `workdir_lost`.  TLC finds each of these
five properties violated in the instance of `encode_job` with `ChunkLocked =
TRUE`, and the theorems say that this fault is the only way to break them.

`FaultInv` says where output and source are at each step (`PlaceInv`: no output
up to the concat, nothing beside it until the DTS recovery, the source at home
until the archive has the output), what is judged (`JudgeInv`: the content of an
output under judgement is that of the chunks in the workdir, an accepted output
is complete) and who may leave an output unjudged (`SeenInv`: a step between
concat and verdict, which only a kill cuts).  `JobInv` adds what a step after
the verdict may rely on (`DeliverInv`: an accepted output), what has been said
at each step for which status (`ToldInv`), and that a run has an exit code
exactly if it is not on its way to success (`CodeInv`): the first `flush` of a
success has none and the run goes on, the second has one and reports nothing.

With it each step maps to the promise: encoding and quarantine to `Keep`, a
clean verdict to `Accept` (the judged content is on disk, so a complete one is a
complete set), cleanup and a kill within it to `Sweep` (`Delivering` gives the
accepted output), the user's delete to `Withdraw`, the source's move to
`Archive`, all others to a stutter.  A kill needs no case of its own but that
one, because it leaves output, archive and source as they are.  The assumption
is `JobAssumption`.

`QueueRunnerProofs` proves, for any sources, file names, contents and edits of
the queue file, command lines, exit codes and starts, under every fault:

* `QueueInvariant`: `Spec => []QueueInv`;
* `StatusMatchesNextRun`: `Spec => []InspectorAgrees`;
* `BooksBalance`: `Spec => []BooksAgree`;
* `RecordsAreTrue`: with `DistinctNames`, `Spec => []RecordsTellTruth`;
* `CompletionsAreKept`: with `StateUnreadable = FALSE` and `LegacyLocked =
  FALSE`, `Spec => RecordedStaysDone`.

`DistinctNames` says that no two sources with a done_dir have one file name.
Each hypothesis is needed: TLC finds the property violated without it.  A
record is written after the names in done_dir were looked at, so `RecordInv`
must say that a job that ended in 0 is where its command line put it
(`Delivered`), and that no later step takes it away: an encode only adds its own
output, and a move needs the name to be free.  `KnownInv` says that what is on
disk is in memory once it was read, so a save replaces no record by less, and
that no old sidecar is left once a move of it succeeded.  `BooksAgree` compares
three ways to count rows; they agree because every attempted job but the one
under way has exactly one row (`RowsInv`, with the counters as cardinalities of
sets of row numbers), and a clean row means an output (`CleanInv`).  `DiskInv`
places an output beside its source unless the user took that away, which is what
makes the inspector's order of questions give the runner's answer in all other
cases.  The assumption is `QueueAssumption`.

`ChunkReportsProofs` proves, for any set of workers and chunks, any number of
encodes and starts, with a full disk and kills, `ReportsInvariant` (`Spec =>
[]ReportsInv`), `LogIsCurrent` (`Spec => []LogTellsLatest`) and
`LastChunkIsAnnounced` (`Spec => []SomeoneSaysDone`).  Two threads write rows of
one chunk, and the last row wins.  They never do so at the same time: a worker
submits a chunk only after its base row is in the cache (`Based`), whatever the
guard has is based (`GuardInv`), and the chunk is encoded again only by a later
call, which starts when the guard is idle (`WorkInv`).  So the row the guard
copied is of the encode it judged.  `LogInv` excepts a chunk whose worker is
between rename and row.  For the hook, `SaidInv` says that when all chunks are
there and nobody has said "N of N", some worker has yet to fire: every worker
renames before it counts.  TLC checked `ReportsInv` on the instance of
`chunk_reports` as well.  The assumption is `ReportsAssumption`.

`LifetimeGroupProofs` proves, for any number of workers and encoders,
`LifetimeInvariant` (`Spec => []LifetimeInv`) and `EncodersDieWithTheRun`
(`Spec => []SecuredAreReaped`), with signals that interrupt one another's
handlers.  The property looks only at the end, so the invariant carries every
secured encoder through both reapers.  The cleanup has it in `pids`, then in
`batch`, until none runs or the cleanup is cut off (`CleanupInv`).  The watchdog
has it in `pgids`, in the pipe or in what was read ahead, and is told to quit
only when what still runs was cut off (`WatchdogInv`).  `SpawnInv` keeps pids
apart and puts an encoder into `pids` before it is told of.  The assumption is
`LifetimeAssumption`.

Only model-checked: all liveness, which is out of the prover's reach
(`AbortEnds`, `FilePauseHolds`, `FileRemovalReleases`, `EscalationEnds`,
`RunEnds`, `WatchdogLeaves`).  Every invariant and action property of the
passing runs has a theorem.  `JobInvariant` needs nothing of `MiddleFirst` but
that it picks a chunk still to do, which `Ready` says itself.

## 6. Not modelled, and what is left

Not modelled: the planner and the script writer (functions from a probe to
text), live rendering and report text, installers and examples.  Of modelled
components: the numbers behind a verdict (size projection, choke window, K
calibration, VMAF sampling) are nondeterministic; the Windows job object kills
its members by itself and has no steps; decoding of key sequences; the fields of
history rows and hook environments; two encoders on one source, two runners on
one queue (neither is excluded by the code, and neither is promised anything); a
VMAF guard thread that outlives its `stop(timeout=90)` and appends a late row;
the seconds in the names of quarantined files; reuse of process ids.

Left to do, in this order:

1. That the encoder `EncodeJob` assumes (`EncodeChunk`, `EncodeFails`,
   `EncodeReturns`) allows all that `ChunkEncoding` promises; today the two are
   only compared by reading.
2. The arithmetic of `crf_jump` and of the choke window, against reference
   definitions on bounded inputs.
