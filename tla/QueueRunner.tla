---------------------------- MODULE QueueRunner ----------------------------
(***************************************************************************)
(* run_queue.py: a queue of sources is encoded one after the other, the    *)
(* queue file is read again before each job, completions go to a sidecar   *)
(* that later runs read.  The encoder is a subprocess, seen from outside:  *)
(* its exit code and what it did to the files (EncodeJob has its inside).  *)
(* The runner may be killed between any two steps; an encoder it leaves    *)
(* behind is taken to end before the queue is started again.               *)
(***************************************************************************)
EXTENDS Naturals, Sequences, FiniteSets, SequencesExt

CONSTANTS
  Sources,    \* the inputs, by resolved path
  NoSource,
  NameOf,     \* the file name of each source
  WithDone,   \* the sources whose job sets done_dir
  Queues,     \* contents of the queue file that are checked
  Broken,     \* a queue file that does not parse
  Options,    \* command lines that are checked
  Codes,      \* exit codes of the encoder that are checked
  MaxRuns, MaxEdits,   \* bounds: starts of the runner, acts of the user
  StateUnreadable,     \* reading the sidecar may fail
  LegacyLocked,        \* moving the old layout's sidecar may fail or stop
  Absent               \* no sidecar

ASSUME QueueAssumption ==
  /\ NoSource \notin Sources /\ WithDone \subseteq Sources
  /\ DOMAIN NameOf = Sources
  /\ \A q \in Queues : q \in Seq(Sources)
  /\ Broken \notin Queues
  /\ Options \subseteq [noSkip : BOOLEAN, stopOnFailure : BOOLEAN,
                        reset : BOOLEAN]
  /\ Absent \notin [Sources -> {"none", "in place", "moved"}]
  /\ MaxRuns \in Nat /\ MaxEdits \in Nat
  /\ {StateUnreadable, LegacyLocked} \subseteq BOOLEAN

VARIABLES
  queue,             \* queue.json
  inputs, outputs,   \* sources at the listed path; outputs next to them
  doneIn, doneOut,   \* sources and outputs in done_dir
  discarded,         \* history: sources the user deleted and kept the output of
  saved,             \* the state sidecar: completion record of each source
  legacy,            \* the sidecar of the layout before v1.19.0
  mem,               \* QueueState in memory
  opts, pc,
  jobs, seen, attempted, reports,
  cur, doneDir,      \* the job, and whether it still has its done_dir
  code,              \* exit code of its encoder
  env,               \* the X265_QUEUE_* counters it got
  exit, runs, edits

diskVars == <<inputs, outputs, doneIn, doneOut>>
userVars == <<queue, discarded, edits>>
jobVars  == <<cur, doneDir, code, env>>
loopVars == <<jobs, seen, attempted, reports>>
vars == <<userVars, diskVars, saved, legacy, mem, opts, pc, loopVars, jobVars,
          exit, runs>>

Records == {"none", "in place", "moved"}
NoRecords == [s \in Sources |-> "none"]
Read(file) == IF file = Absent THEN NoRecords ELSE file
NoExit == 99
Killed == 137
NoEnv == [index |-> 0, total |-> 0, finished |-> 0, failed |-> 0,
          stopped |-> 0, skipped |-> 0, remaining |-> 0]

(***************************************************************************)
(* What a status means, three times over.                                  *)
(***************************************************************************)
StatusForExit(rc) ==
  CASE rc = 0 -> "ok"
    [] rc = 3 -> "stopped-threshold"
    [] rc = 5 -> "chunk-choked"
    [] rc = 6 -> "pre-flight-failed"
    [] rc = 7 -> "awaiting-chunk-fix"
    [] rc = 8 -> "stopped-by-user"
    [] rc = 9 -> "stopped-quality-threshold"
    [] OTHER  -> "failed-exit"

FailedStatuses == {"failed-gen", "failed-parse", "failed-exit"}
CleanStatuses == {"ok", "skipped-exists", "skipped-done"}
AttentionStatuses ==
  {"stopped-threshold", "stopped-threshold-crf-exhausted",
   "stopped-quality-threshold", "awaiting-chunk-fix", "skipped-not-found",
   "pre-flight-failed", "chunk-choked", "stopped-by-user"}
Statuses == CleanStatuses \cup AttentionStatuses \cup FailedStatuses

\* _aggregate_exit_code: a status nobody knows is a failure.
AggregateExitCode(statuses) ==
  IF ~(statuses \subseteq CleanStatuses \cup AttentionStatuses) THEN 1
  ELSE IF statuses \subseteq CleanStatuses THEN 0 ELSE 2

\* Faulty variant: the jobs of earlier runs are in no category.
FinishedStatusesFresh == {"ok"}

FinishedStatuses == {"ok", "skipped-done"}
StoppedStatuses ==
  {"stopped-threshold", "stopped-threshold-crf-exhausted",
   "stopped-quality-threshold", "chunk-choked", "awaiting-chunk-fix",
   "stopped-by-user", "pre-flight-failed"}
SkippedStatuses == {"skipped-exists", "skipped-not-found"}

\* Faulty variant: the denominator is the length of the last snapshot.
TotalJobsNow == Len(jobs)

TotalJobs == Cardinality(seen)

\* compute_queue_counters, for the job about to start.
QueueCounters ==
  LET count(set) == Cardinality({i \in DOMAIN reports :
                                   reports[i].status \in set})
      index == Cardinality(attempted)
      total == TotalJobs
  IN  [index |-> index, total |-> total,
       finished |-> count(FinishedStatuses),
       failed |-> count(FailedStatuses),
       stopped |-> count(StoppedStatuses),
       skipped |-> count(SkippedStatuses),
       remaining |-> IF total > index THEN total - index ELSE 0]

\* classify_marker, for a job of the snapshot in the on_queue_item_end text.
OkStatuses == {"ok", "skipped-done", "skipped-exists"}
Marker(s) ==
  LET rows == {i \in DOMAIN reports : reports[i].source = s}
  IN  IF rows = {} THEN "[..]"
      ELSE IF reports[Max(rows)].status \in OkStatuses THEN "[OK]"
                                                       ELSE "[FAILED]"

-----------------------------------------------------------------------------
Reports == [source : Sources, status : Statuses]
Counters == [index : Nat, total : Nat, finished : Nat, failed : Nat,
             stopped : Nat, skipped : Nat, remaining : Nat]

TypeOK ==
  /\ queue \in Queues \cup {Broken}
  /\ inputs \subseteq Sources /\ outputs \subseteq Sources
  /\ doneIn \subseteq Sources /\ doneOut \subseteq Sources
  /\ discarded \subseteq Sources
  /\ seen \subseteq Sources /\ attempted \subseteq Sources
  /\ mem \in [Sources -> Records]
  /\ saved \in [Sources -> Records] \cup {Absent}
  /\ legacy \in [Sources -> Records] \cup {Absent}
  /\ opts \in Options
  /\ pc \in {"idle", "migrate", "load", "reload", "check", "encode",
             "report", "record", "save", "notify", "end"}
  /\ jobs \in Queues \cup {<< >>}
  /\ reports \in Seq(Reports)
  /\ cur \in Sources \cup {NoSource} /\ doneDir \in BOOLEAN
  /\ code \in Codes \cup {NoExit}
  /\ env \in Counters
  /\ exit \in {0, 1, 2, NoExit, Killed}
  /\ runs \in 0..MaxRuns /\ edits \in 0..MaxEdits

\* A queue of the old layout has a sidecar of sources completed in place.
Init ==
  /\ queue \in Queues
  /\ inputs \in SUBSET Sources
  /\ \E done \in SUBSET inputs :
       /\ outputs = done
       /\ legacy \in {[s \in Sources |->
                         IF s \in done THEN "in place" ELSE "none"],
                      Absent}
  /\ doneIn = {} /\ doneOut = {} /\ discarded = {}
  /\ saved = Absent /\ mem = NoRecords
  /\ opts \in Options /\ pc = "idle"
  /\ jobs = << >> /\ seen = {} /\ attempted = {} /\ reports = << >>
  /\ cur = NoSource /\ doneDir = FALSE /\ code = NoExit /\ env = NoEnv
  /\ exit = NoExit /\ runs = 0 /\ edits = 0

(***************************************************************************)
(* Starting, reading the queue, choosing a job.                            *)
(***************************************************************************)
Start ==
  /\ pc = "idle" /\ runs < MaxRuns
  /\ opts' \in Options
  /\ mem' = NoRecords
  /\ jobs' = << >> /\ seen' = {} /\ attempted' = {} /\ reports' = << >>
  /\ exit' = NoExit /\ pc' = "migrate" /\ runs' = runs + 1
  /\ UNCHANGED <<userVars, diskVars, saved, legacy, jobVars>>

\* _move_into_logs: link and unlink, or copy and unlink, unless the target is
\* there.  Any step of it may fail, an unlink that does leaves both files.
MoveIntoLogs ==
  \/ /\ saved = Absent
     /\ saved' = legacy
     /\ legacy' \in IF LegacyLocked THEN {legacy, Absent} ELSE {Absent}
  \/ /\ saved # Absent \/ LegacyLocked
     /\ UNCHANGED <<saved, legacy>>

\* migrate_queue_folder, which never fails.
Migrate ==
  /\ pc = "migrate"
  /\ IF legacy # Absent THEN MoveIntoLogs ELSE UNCHANGED <<saved, legacy>>
  /\ pc' = "load"
  /\ UNCHANGED <<userVars, diskVars, mem, opts, loopVars, jobVars, exit, runs>>

\* Faulty variant: the records of earlier runs are not read.
LoadStateEmpty == {NoRecords}

\* load_queue_state: what cannot be read counts as empty.
LoadState ==
  {Read(saved')} \cup (IF StateUnreadable THEN {NoRecords} ELSE {})

\* --reset-state deletes the sidecar before it is read.
Load ==
  /\ pc = "load"
  /\ saved' = IF opts.reset THEN Absent ELSE saved
  /\ mem' \in LoadState
  /\ pc' = "reload"
  /\ UNCHANGED <<userVars, diskVars, legacy, opts, loopVars, jobVars, exit,
                 runs>>

\* _pick_next_job: the first job of the snapshot not attempted in this run.
PickNextJob(snapshot, s) ==
  \E i \in DOMAIN snapshot :
    /\ s = snapshot[i] /\ s \notin attempted
    /\ \A j \in 1..(i - 1) : snapshot[j] \in attempted

\* Faulty variant: wait for a file that can be used.
UnusableFileAwaited == UNCHANGED <<exit, pc>>

\* The file does not parse or has no jobs: fatal at first, then the end.
UnusableFile == IF jobs = << >> THEN exit' = 1 /\ pc' = "idle"
                                ELSE UNCHANGED exit /\ pc' = "end"

\* The denominator grows over the whole snapshot, the job is marked before it
\* starts, a done_dir that cannot be created is dropped for this job.
Reload ==
  /\ pc = "reload"
  /\ IF queue = Broken \/ queue = << >>
     THEN /\ UnusableFile
          /\ UNCHANGED <<loopVars, cur, doneDir>>
     ELSE /\ jobs' = queue
          /\ seen' = seen \cup ToSet(queue)
          /\ \/ /\ ToSet(queue) \subseteq attempted
                /\ pc' = "end"
                /\ UNCHANGED <<attempted, cur, doneDir>>
             \/ \E s \in Sources :
                  /\ PickNextJob(queue, s)
                  /\ cur' = s
                  /\ attempted' = attempted \cup {s}
                  /\ doneDir' \in {dir \in BOOLEAN : dir => s \in WithDone}
                  /\ pc' = "check"
          /\ UNCHANGED <<reports, exit>>
  /\ UNCHANGED <<userVars, diskVars, saved, legacy, mem, opts, code, env, runs>>

Report(status) ==
  reports' = Append(reports, [source |-> cur, status |-> status])

IsCompleted(records, s) == records[s] # "none"

\* _skip_if_missing_or_existing: its answer, or "none".
SkipStatus(records, noSkip, s) ==
  CASE IsCompleted(records, s) -> "skipped-done"
    [] ~IsCompleted(records, s) /\ s \notin inputs -> "skipped-not-found"
    [] ~IsCompleted(records, s) /\ s \in inputs /\ s \in outputs /\ ~noSkip
         -> "skipped-exists"
    [] OTHER -> "none"

SkipJob ==
  /\ pc = "check" /\ SkipStatus(mem, opts.noSkip, cur) # "none"
  /\ Report(SkipStatus(mem, opts.noSkip, cur))
  /\ pc' = "reload"
  /\ UNCHANGED <<userVars, diskVars, saved, legacy, mem, opts, jobs, seen,
                 attempted,
                 jobVars, exit, runs>>

StartEncoder ==
  /\ pc = "check" /\ SkipStatus(mem, opts.noSkip, cur) = "none"
  /\ env' = QueueCounters
  /\ pc' = "encode"
  /\ UNCHANGED <<userVars, diskVars, saved, legacy, mem, opts, loopVars, cur,
                 doneDir,
                 code, exit, runs>>

\* generate_bat: compress.py fails, or prints what cannot be parsed.
GenerateFails ==
  /\ pc = "encode"
  /\ \E status \in {"failed-gen", "failed-parse"} : Report(status)
  /\ pc' = "notify"
  /\ UNCHANGED <<userVars, diskVars, saved, legacy, mem, opts, jobs, seen,
                 attempted,
                 jobVars, exit, runs>>

(***************************************************************************)
(* The encoder.                                                            *)
(***************************************************************************)
\* move_to_done_dir finds both names free.
NameFree(s) == \A t \in doneIn \cup doneOut : NameOf[t] # NameOf[s]

\* Faulty variant: the source goes first.
HalfMoveSourceFirst(s) ==
  /\ doneIn' = doneIn \cup {s} /\ inputs' = inputs \ {s}
  /\ outputs' = outputs \cup {s} /\ UNCHANGED doneOut

\* The move went as far as its first half.
HalfMove(s) ==
  /\ doneOut' = doneOut \cup {s} /\ outputs' = outputs \ {s}
  /\ UNCHANGED <<inputs, doneIn>>

\* The effect of a run of encode_resumable on the files, and its exit code.
\* It is done at once when the output is there; a half move ends in code 1.
EncoderRuns(s, rc) ==
  \/ /\ rc = 0 /\ s \in inputs
     /\ outputs' = outputs \cup {s}
     /\ UNCHANGED <<inputs, doneIn, doneOut>>
  \/ /\ rc = 0 /\ s \in inputs \ outputs /\ doneDir /\ NameFree(s)
     /\ inputs' = inputs \ {s}
     /\ doneIn' = doneIn \cup {s} /\ doneOut' = doneOut \cup {s}
     /\ UNCHANGED outputs
  \/ /\ rc = 1 /\ s \in inputs \ outputs /\ doneDir /\ NameFree(s)
     /\ HalfMove(s)
  \/ /\ rc # 0
     /\ UNCHANGED diskVars

\* run_script returns.
EncoderEnds ==
  /\ pc = "encode"
  /\ \E rc \in Codes : EncoderRuns(cur, rc) /\ code' = rc
  /\ pc' = "report"
  /\ UNCHANGED <<userVars, saved, legacy, mem, opts, loopVars, cur, doneDir,
                 env,
                 exit, runs>>

\* retry_with_bigger_crf saves the whole state, with each CRF it gives up and
\* when it clears its record, however the job ends.  A save that fails is
\* only warned about.
SaveEscalation ==
  /\ pc \in {"encode", "report"}
  /\ saved' = mem
  /\ UNCHANGED <<userVars, diskVars, legacy, mem, opts, pc, loopVars, jobVars,
                 exit, runs>>

\* What a job may be reported as: crf_retry ends a size stop in a status of
\* its own when no CRF is left.
StatusesFor(rc) ==
  {StatusForExit(rc)} \cup
  IF rc = 3 THEN {"stopped-threshold-crf-exhausted"} ELSE {}

\* The rest of run_one_job and of the escalation.
ReportJob ==
  /\ pc = "report"
  /\ \E status \in StatusesFor(code) : Report(status)
  /\ pc' = IF code = 0 THEN "record" ELSE "notify"
  /\ UNCHANGED <<userVars, diskVars, saved, legacy, mem, opts, jobs, seen,
                 attempted, jobVars, exit, runs>>

(***************************************************************************)
(* The completion record.                                                  *)
(***************************************************************************)
\* Faulty variant: the configuration is believed.
MoveOutcomeConfigured(s) == IF doneDir THEN "moved" ELSE "in place"

\* _verify_move_outcome: files of these names are in done_dir.
MoveOutcome(s) ==
  IF /\ doneDir
     /\ \E t \in doneIn : NameOf[t] = NameOf[s]
     /\ \E t \in doneOut : NameOf[t] = NameOf[s]
  THEN "moved" ELSE "in place"

\* add_completed
RecordCompletion ==
  /\ pc = "record"
  /\ mem' = [mem EXCEPT ![cur] = MoveOutcome(cur)]
  /\ pc' = "save"
  /\ UNCHANGED <<userVars, diskVars, saved, legacy, opts, loopVars, jobVars,
                 exit,
                 runs>>

\* save_atomically replaces the whole sidecar; a failure is a warning.
SaveState ==
  /\ pc = "save"
  /\ saved' \in {saved, mem}
  /\ pc' = "notify"
  /\ UNCHANGED <<userVars, diskVars, legacy, mem, opts, loopVars, jobVars,
                 exit, runs>>

\* _should_halt_after
Halts(status) ==
  \/ status = "stopped-by-user"
  \/ opts.stopOnFailure /\ status \in FailedStatuses

\* dispatch_on_queue_item_end, which cannot fail, and the end of the loop.
NotifyAndLoop ==
  /\ pc = "notify"
  /\ pc' = IF Halts(Last(reports).status) THEN "end" ELSE "reload"
  /\ cur' = NoSource /\ doneDir' = FALSE /\ code' = NoExit /\ env' = NoEnv
  /\ UNCHANGED <<userVars, diskVars, saved, legacy, mem, opts, loopVars, exit,
                 runs>>

Finish ==
  /\ pc = "end"
  /\ exit' = AggregateExitCode({r.status : r \in ToSet(reports)})
  /\ pc' = "idle" /\ cur' = NoSource /\ doneDir' = FALSE
  /\ code' = NoExit /\ env' = NoEnv
  /\ UNCHANGED <<userVars, diskVars, saved, legacy, mem, opts, loopVars, runs>>

(***************************************************************************)
(* From outside.                                                           *)
(***************************************************************************)
\* The runner is killed: its encoder runs on to its end, or dies with it,
\* possibly within the move or with an output nobody has judged.
Kill ==
  /\ pc # "idle"
  /\ IF pc # "encode" THEN UNCHANGED diskVars
     ELSE \/ \E rc \in Codes : EncoderRuns(cur, rc)
          \/ /\ cur \in inputs
             /\ outputs' = outputs \cup {cur}
             /\ UNCHANGED <<inputs, doneIn, doneOut>>
          \/ /\ cur \in inputs \ outputs /\ doneDir /\ NameFree(cur)
             /\ HalfMove(cur)
  /\ exit' = Killed /\ pc' = "idle"
  /\ cur' = NoSource /\ doneDir' = FALSE /\ code' = NoExit /\ env' = NoEnv
  /\ UNCHANGED <<userVars, saved, legacy, mem, opts, loopVars, runs>>

\* The user saves the queue file; an editor may leave it half written.
EditQueue ==
  /\ edits < MaxEdits
  /\ queue' \in (Queues \cup {Broken}) \ {queue}
  /\ edits' = edits + 1
  /\ UNCHANGED <<discarded, diskVars, saved, legacy, mem, opts, pc, loopVars,
                 jobVars, exit, runs>>

\* The user deletes a source and keeps its output ("a user who deleted the
\* source but kept the output", status.py).
DiscardSource(s) ==
  /\ edits < MaxEdits
  /\ s \in inputs \cap outputs
  /\ inputs' = inputs \ {s} /\ discarded' = discarded \cup {s}
  /\ edits' = edits + 1
  /\ UNCHANGED <<queue, outputs, doneIn, doneOut, saved, legacy, mem, opts, pc,
                 loopVars, jobVars, exit, runs>>

Runner ==
  \/ Migrate \/ Load \/ Reload \/ SkipJob \/ StartEncoder
  \/ GenerateFails \/ EncoderEnds \/ SaveEscalation \/ ReportJob
  \/ RecordCompletion \/ SaveState \/ NotifyAndLoop \/ Finish

User == EditQueue \/ \E s \in Sources : DiscardSource(s)

Next == Start \/ Runner \/ Kill \/ User
Spec == Init /\ [][Next]_vars
FairSpec == Spec /\ WF_vars(Runner)

\* classify of the --status table.  PROCESSING and QUEUED, told apart by the
\* history row and the age of the workdir, are both "to do" here.
Classify(s) ==
  CASE Read(saved)[s] # "none" \/ s \in outputs -> "DONE"
    [] Read(saved)[s] = "none" /\ s \notin outputs /\ s \notin inputs
         -> "MISSING INPUT"
    [] OTHER -> "TO DO"

(***************************************************************************)
(* Properties.                                                             *)
(***************************************************************************)
\* A completion record names the place where source and output are, through
\* refused and cut moves, lost saves and kills: "if moved_to_dir is set, BOTH
\* paths are at that location" (completion.py).  The program takes no source
\* away from an output it records in place; the user may.
RecordsTellTruth ==
  \A s \in Sources, records \in {Read(saved), Read(legacy), mem} :
    /\ records[s] = "moved" => s \in doneIn \cap doneOut
    /\ records[s] = "in place" => s \in outputs \cap (inputs \cup discarded)

\* A sidecar says that s is done.
Recorded(s) == Read(saved)[s] # "none" \/ Read(legacy)[s] # "none"

\* Once on disk, a completion is neither lost nor encoded again until
\* --reset-state (load_queue_state, save_atomically, is_completed).
RecordedStaysDone ==
  [][\A s \in Sources : Recorded(s) =>
       /\ Recorded(s)' \/ (pc = "load" /\ opts.reset)
       /\ ~(cur = s /\ pc = "check" /\ pc' = "encode")]_vars

\* An output without a record and without its source.
OutputOnly(s) == Read(saved)[s] = "none" /\ s \in outputs \ inputs

\* What --status shows between two runs is what the next plain run does:
\* DONE is skipped as clean, a missing input is reported, the rest is encoded
\* (classify looks at the output first, the runner at the input).  They part
\* in one case, of which classify says that it "still sees DONE" and which the
\* runner reports as not found, and so as needing attention: the user deleted
\* the source of an output that nothing records.  --status reads before the
\* migration, so a sidecar of the old layout is not in it.
InspectorAgrees ==
  pc = "idle" /\ legacy = Absent => \A s \in Sources :
    LET skip == SkipStatus(Read(saved), FALSE, s)
    IN  IF OutputOnly(s)
        THEN /\ s \in discarded
             /\ Classify(s) = "DONE" /\ skip = "skipped-not-found"
        ELSE /\ Classify(s) = "DONE" <=> skip \in CleanStatuses
             /\ Classify(s) = "MISSING INPUT" <=> skip = "skipped-not-found"

\* The exit code, the [OK] markers and the counters come from three tables of
\* statuses.  Every earlier job is in one counter; the exit code is 0 exactly
\* when every job is marked [OK], and then each of them has an output.
BooksAgree ==
  /\ pc = "encode" =>
       env.finished + env.failed + env.stopped + env.skipped = env.index - 1
  /\ pc = "idle" /\ exit \in {0, 1, 2} /\ attempted # {} =>
       exit = 0 <=> \A s \in attempted : Marker(s) = "[OK]"
  /\ exit = 0 => attempted \subseteq outputs \cup doneOut

\* A run ends, whatever the user does to the queue file: no job is taken
\* twice, and a file that cannot be read does not keep the runner waiting
\* (attempted_inputs, reload_queue_with_retry).
RunEnds == (pc # "idle") ~> (pc = "idle")

(***************************************************************************)
(* Why they hold: the inductive invariant.                                 *)
(***************************************************************************)
\* No two files with a done_dir have one name: move_to_done_dir and
\* _verify_move_outcome know them by their names.
DistinctNames ==
  \A s, t \in WithDone : NameOf[s] = NameOf[t] => s = t

Underway == {"check", "encode", "report", "record"}
Stored == {Read(saved), Read(legacy), mem}

\* An output lies beside its source unless the user took that away; only
\* sources with a done_dir move.
DiskInv ==
  /\ outputs \subseteq inputs \cup discarded
  /\ doneIn \cup doneOut \subseteq WithDone
  /\ pc \in Underway => cur \in Sources
  /\ doneDir => cur \in WithDone

\* The job's output is where an encoder that ended in 0 leaves it.
Delivered(s) ==
  \/ s \in outputs \cap (inputs \cup discarded)
  \/ doneDir /\ s \in doneIn \cap doneOut

\* Whatever is recorded has an output, and with names that differ the record
\* says where.
RecordInv ==
  /\ \A s \in Sources, records \in Stored :
       records[s] # "none" => s \in outputs \cup doneOut
  /\ DistinctNames => RecordsTellTruth
  /\ pc = "report" /\ code = 0 => Delivered(cur)
  /\ pc = "record" => Delivered(cur)

\* What is on disk is in memory too, once it has been read.
KnownInv ==
  /\ ~LegacyLocked /\ (saved # Absent \/ pc \notin {"idle", "migrate"}) =>
       legacy = Absent
  /\ ~StateUnreadable /\ pc \notin {"idle", "migrate", "load"} =>
       \A s \in Sources : Read(saved)[s] # "none" => mem[s] # "none"

Reported == {reports[i].source : i \in DOMAIN reports}

\* One row for each job that was attempted, but for the one under way.
RowsInv ==
  /\ attempted \subseteq seen /\ IsFiniteSet(seen)
  /\ jobs = << >> /\ pc # "idle" => attempted = {}
  /\ \A i, j \in DOMAIN reports :
       reports[i].source = reports[j].source => i = j
  /\ pc \in {"check", "encode", "report"} =>
       /\ cur \notin Reported /\ attempted = Reported \cup {cur}
       /\ Cardinality(attempted) = Len(reports) + 1
  /\ pc \in {"migrate", "load", "reload", "record", "save", "notify", "end"} =>
       attempted = Reported /\ Cardinality(attempted) = Len(reports)

\* A job that counts as clean has an output, and the exit code says whether
\* all of them do.
CleanInv ==
  /\ env.index <= env.total
  /\ pc # "idle" => exit = NoExit
  /\ \A i \in DOMAIN reports : reports[i].status \in CleanStatuses =>
       reports[i].source \in outputs \cup doneOut
  /\ BooksAgree

QueueInv ==
  /\ TypeOK /\ DiskInv /\ RecordInv /\ KnownInv /\ RowsInv /\ CleanInv
=============================================================================
