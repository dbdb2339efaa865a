----------------------------- MODULE EncodeJob -----------------------------
(***************************************************************************)
(* One source and its output, over several runs of encode_resumable.main:  *)
(* pre-flight, split, encode, check, concat, verify, DTS recovery, the     *)
(* history row with its hooks, cleanup and the move to done_dir.  A run    *)
(* may be killed between any two file operations; what the next run finds  *)
(* is what is on disk.                                                     *)
(*                                                                         *)
(* encode_chunks is seen from outside: a chunk gets its enc file, or the   *)
(* call exits with one of its codes (ParallelEncode has its inside).       *)
(* verify_output's verdict depends on the file and on chance: a probe or a *)
(* decode walk may fail on a good file, none accepts an incomplete one.    *)
(***************************************************************************)
EXTENDS Naturals, Sequences, FiniteSets, SequencesExt

CONSTANTS
  N,             \* number of chunks the source splits into
  MaxAttempts,   \* MAX_VERIFY_ATTEMPTS
  MaxRuns,       \* bound: starts of the program
  Jobs,          \* the option sets that are checked
  ChunkLocked,   \* a quarantine rename may fail (a player holds the chunk)
  ProbeHiccups   \* probe_duration may return 0.0 for a good chunk

ASSUME JobAssumption ==
  /\ {N, MaxAttempts, MaxRuns} \subseteq Nat \ {0}
  /\ {ChunkLocked, ProbeHiccups} \subseteq BOOLEAN
  /\ Jobs \subseteq [mode : {"serial", "parallel"},
                     scan : {"off", "on", "patch"}, done : BOOLEAN]

Chunks == 1..N
Grades == {"good", "short"}       \* "short": duration off by more than 2 s

VARIABLES
  job,      \* the command line
  source,   \* where the user's file is: "home" or "archive"
  cache,    \* the .preflight.json verdict
  split,    \* .split_done
  srcs,     \* src_NNNN.mkv files in the workdir
  enc,      \* the enc file of each chunk
  part,     \* chunks with a .part file
  aside,    \* quarantined files in the workdir, as <<chunk, grade>>
  finish,   \* the FINISH file
  dst,      \* the output: what it was made of and verify's verdict on it
  beside,   \* outputs this run renamed: .pre-dts-fix and damaged_ copies
  archived, \* the output in done_dir
  blocked,  \* a cut move left a partial copy under its name in done_dir
  pc, attempt, rc,          \* the running program and its exit code
  status, written, told,    \* history record; row and hooks of this run
  last, runs                \* how the previous run ended; runs so far

workVars  == <<split, srcs, enc, part, aside, finish>>
outVars   == <<dst, beside>>
doneVars  == <<source, archived, blocked>>
recVars   == <<status, written, told>>
runVars   == <<attempt, rc>>
vars == <<job, cache, workVars, outVars, doneVars, recVars, runVars,
          pc, last, runs>>

NoFile == [of |-> {}, seen |-> "none"]
Files == [of : SUBSET (Chunks \X Grades), seen : {"unseen", "clean", "bad"}]
         \cup {NoFile}
Complete == {<<c, "good">> : c \in Chunks}
Exists(f) == f # NoFile
Encoded(c) == enc[c] # "none"
Verified == dst.seen = "clean" \/ archived.seen = "clean"

PCs == {"idle", "preflight", "patch", "split", "mark", "begin", "encode",
        "check", "concat", "verify", "remux", "swap", "reverify", "failed",
        "finalize", "row", "jobend", "complete", "tidy", "sweep", "moveout",
        "movesrc", "summary", "exit"}
Statuses == {"none", "in_progress", "ok", "pre-flight-failed",
  "verify-failed", "awaiting-chunk-fix", "stopped-by-user",
  "stopped-threshold", "stopped-quality-threshold", "chunk-failed"}
Events == {"row", "job_end", "file_complete"}
NoExit == 99
Killed == 137
ExitCodes == {0, 1, 3, 4, 6, 7, 8, 9}

TypeOK ==
  /\ job \in Jobs /\ source \in {"home", "archive"}
  /\ cache \in {"none", "clean", "bad"}
  /\ split \in BOOLEAN /\ srcs \subseteq Chunks
  /\ enc \in [Chunks -> Grades \cup {"none"}]
  /\ part \subseteq Chunks
  /\ aside \subseteq Chunks \X (Grades \cup {"part"})
  /\ {finish, blocked, written} \subseteq BOOLEAN
  /\ ({dst, archived} \cup beside) \subseteq Files
  /\ pc \in PCs /\ attempt \in 1..MaxAttempts
  /\ {rc, last} \subseteq ExitCodes \cup {NoExit, Killed}
  /\ status \in Statuses /\ told \in Seq(Events)
  /\ runs \in 0..MaxRuns

Init ==
  /\ job \in Jobs /\ blocked = FALSE
  /\ source = "home" /\ cache = "none" /\ split = FALSE /\ srcs = {}
  /\ enc = [c \in Chunks |-> "none"] /\ part = {} /\ aside = {}
  /\ finish = FALSE
  /\ dst = NoFile /\ beside = {} /\ archived = NoFile
  /\ pc = "idle" /\ attempt = 1 /\ rc = NoExit
  /\ status = "none" /\ written = FALSE /\ told = << >>
  /\ last = NoExit /\ runs = 0

\* sys.exit with code n once the record has been begun: atexit flushes it.
Leave(n) == rc' = n /\ pc' = "row"
\* sys.exit before init_history_state: there is nothing to flush.
LeaveSilently(n) == rc' = n /\ pc' = "exit"

(***************************************************************************)
(* main() up to the encode loop.                                           *)
(***************************************************************************)
Start ==
  /\ pc = "idle" /\ runs < MaxRuns
  /\ runs' = runs + 1
  /\ status' = "none" /\ written' = FALSE /\ told' = << >>
  /\ CASE source # "home" -> LeaveSilently(1)
       [] source = "home" /\ Exists(dst) -> LeaveSilently(0)
       [] OTHER -> pc' = "preflight" /\ rc' = NoExit
  /\ UNCHANGED <<job, cache, workVars, outVars, doneVars, attempt, last>>

\* _exit_pre_flight_failed
PreFlightFailed ==
  /\ status' = "pre-flight-failed"
  /\ Leave(6)
  /\ UNCHANGED <<written, told>>

\* pre_flight_scan: a cached verdict of either kind is taken over; a scan says
\* "bad" on corruption and also when a probe fails or a window times out.
ScanVerdicts == IF cache = "none" THEN {"clean", "bad"} ELSE {cache}

\* _write_cache is silent when it fails.
WriteCache(verdict) == cache' \in {cache, verdict}

PreFlight ==
  /\ pc = "preflight"
  /\ IF job.scan = "off"
     THEN /\ pc' = "split"
          /\ UNCHANGED <<cache, rc, recVars>>
     ELSE \E verdict \in ScanVerdicts :
       /\ WriteCache(verdict)
       /\ CASE verdict = "clean" -> pc' = "split" /\ UNCHANGED <<rc, recVars>>
            [] verdict = "bad" /\ job.scan = "on" -> PreFlightFailed
            [] OTHER -> pc' = "patch" /\ UNCHANGED <<rc, recVars>>
  /\ UNCHANGED <<job, workVars, outVars, doneVars, attempt, last, runs>>

\* auto_patch_source: declined for several reasons, or a patched copy built.
PatchResults == {"declined", "built"}

\* _try_auto_patch: only a copy that scans clean itself is adopted.
AutoPatch ==
  /\ pc = "patch"
  /\ \E patch \in PatchResults, rescan \in {"clean", "bad"} :
       IF patch = "built" /\ rescan = "clean"
       THEN pc' = "split" /\ UNCHANGED <<rc, recVars>>
       ELSE PreFlightFailed
  /\ UNCHANGED <<job, cache, workVars, outVars, doneVars, attempt,
                 last, runs>>

\* split_source: the marker says that the chunks on disk are all of them.
SplitSource ==
  /\ pc = "split"
  /\ \/ /\ split
        /\ pc' = "begin"
        /\ UNCHANGED <<srcs, rc>>
     \/ /\ ~split
        /\ srcs' = Chunks
        /\ pc' = "mark"
        /\ UNCHANGED rc
     \/ /\ ~split
        /\ \E some \in SUBSET Chunks : srcs' = srcs \cup some
        /\ LeaveSilently(1)
  /\ UNCHANGED <<job, cache, split, enc, part, aside, finish, outVars,
                 doneVars, recVars, attempt, last, runs>>

MarkSplit ==
  /\ pc = "mark"
  /\ split' = TRUE
  /\ pc' = "begin"
  /\ UNCHANGED <<job, cache, srcs, enc, part, aside, finish, outVars,
                 doneVars, recVars, runVars, last, runs>>

\* init_history_state
Begin ==
  /\ pc = "begin"
  /\ status' = "in_progress"
  /\ pc' = "encode"
  /\ UNCHANGED <<job, cache, workVars, outVars, doneVars, written, told,
                 runVars, last, runs>>

(***************************************************************************)
(* encode_chunks.                                                          *)
(***************************************************************************)
Todo == {c \in srcs : ~Encoded(c)}

\* reorder_middle_first on n chunks: the median, then outward, upper side
\* first.
MiddleFirst(n) ==
  LET mid == (n + 1) \div 2
      ring(d) == SelectSeq(<<mid + d, mid - d>>, LAMBDA i : i \in 1..n)
  IN  IF n <= 1 THEN [i \in 1..n |-> i]
      ELSE FoldLeft(LAMBDA order, d : order \o ring(d), <<mid>>,
                    [d \in 1..(n - mid) |-> d])

\* The chunks whose turn it may be: the serial loop has a fixed order.
Ready ==
  LET sorted == SetToSortSeq(srcs, <)
      turns == SelectSeq(MiddleFirst(Cardinality(srcs)),
                         LAMBDA i : sorted[i] \in Todo)
  IN  {c \in Todo : job.mode = "parallel" \/ c = sorted[turns[1]]}

\* The serial loop unlinks a stale .part, the parallel one quarantines it.
SetPartAside(c) ==
  IF c \in part /\ job.mode = "parallel" THEN aside \cup {<<c, "part">>}
                                         ELSE aside

EncodeChunk(c) ==
  /\ pc = "encode" /\ c \in Ready
  /\ ~(finish /\ job.mode = "serial")
  /\ \E g \in Grades : enc' = [enc EXCEPT ![c] = g]
  /\ aside' = SetPartAside(c)
  /\ part' = part \ {c}
  /\ UNCHANGED <<job, cache, split, srcs, finish, outVars, doneVars,
                 recVars, runVars, pc, last, runs>>

\* ffmpeg fails: its .part is quarantined.  The serial loop leaves the record
\* as it is.
EncodeFails(c) ==
  /\ pc = "encode" /\ c \in Ready
  /\ ~(finish /\ job.mode = "serial")
  /\ aside' = aside \cup {<<c, "part">>}
  /\ part' = part \ {c}
  /\ status' = IF job.mode = "serial" THEN status ELSE "chunk-failed"
  /\ Leave(1)
  /\ UNCHANGED <<job, cache, split, srcs, enc, finish, outVars, doneVars,
                 written, told, attempt, last, runs>>

\* The user asks to finish: the request becomes a file in the workdir.
AskFinish ==
  /\ pc = "encode" /\ ~finish
  /\ finish' = TRUE
  /\ UNCHANGED <<job, cache, split, srcs, enc, part, aside, outVars, doneVars,
                 recVars, runVars, pc, last, runs>>

StopByUser ==
  /\ pc = "encode" /\ finish /\ Todo # {}
  /\ finish' = FALSE
  /\ status' = "stopped-by-user"
  /\ Leave(8)
  /\ UNCHANGED <<job, cache, split, srcs, enc, part, aside, outVars, doneVars,
                 written, told, attempt, last, runs>>

\* A guard of the parallel encoder aborts, with chunks still to do or after the
\* last one; or chunks were skipped.
AbortEncode ==
  /\ pc = "encode" /\ job.mode = "parallel"
  /\ \/ status' = "stopped-threshold" /\ Leave(3)
     \/ status' = "stopped-quality-threshold" /\ Leave(9)
     \/ Todo # {} /\ status' = "awaiting-chunk-fix" /\ Leave(7)
  /\ UNCHANGED <<job, cache, workVars, outVars, doneVars, written, told,
                 attempt, last, runs>>

\* All encoded; or a finish request was withdrawn after the workers left.
EncodeReturns ==
  /\ pc = "encode"
  /\ Todo = {} \/ (job.mode = "parallel" /\ finish)
  /\ finish' = (finish /\ Todo = {})
  /\ pc' = "check"
  /\ UNCHANGED <<job, cache, split, srcs, enc, part, aside, outVars,
                 doneVars, recVars, runVars, last, runs>>

(***************************************************************************)
(* run_encode_verify_loop after the encode.                                *)
(***************************************************************************)
\* identify_bad_chunks: a failed probe makes a good chunk look bad, and two
\* of them a short one good.
BadChunks ==
  LET short == {c \in srcs : enc[c] = "short"}
  IN  IF ProbeHiccups THEN SUBSET {c \in srcs : Encoded(c)} ELSE {short}

\* Faulty variant: one attempt too many.
MoreAttemptsByOne == attempt <= MaxAttempts

MoreAttempts == attempt < MaxAttempts

\* Faulty variant: a retry is not counted.
NextAttemptFree == UNCHANGED attempt

NextAttempt == attempt' = attempt + 1

\* Faulty variant: a bad chunk is deleted.
QuarantineChunksByUnlink(moved) ==
  /\ enc' = [c \in Chunks |-> IF c \in moved THEN "none" ELSE enc[c]]
  /\ UNCHANGED aside

QuarantineChunks(moved) ==
  /\ aside' = aside \cup {<<c, enc[c]>> : c \in moved}
  /\ enc' = [c \in Chunks |-> IF c \in moved THEN "none" ELSE enc[c]]

\* An empty list of problems means success to the caller, also when it is
\* empty because every rename failed.
CheckChunks ==
  /\ pc = "check"
  /\ \E bad \in BadChunks :
     \E moved \in (IF ChunkLocked THEN SUBSET bad ELSE {bad}) :
       /\ QuarantineChunks(moved)
       /\ CASE Todo \cup bad = {} ->
                 pc' = "concat" /\ UNCHANGED attempt
            [] Todo \cup bad # {} /\ MoreAttempts ->
                 pc' = "encode" /\ NextAttempt
            [] OTHER ->
                 /\ pc' = IF Todo \cup moved # {} THEN "failed"
                                                 ELSE "finalize"
                 /\ UNCHANGED attempt
  /\ UNCHANGED <<job, cache, split, srcs, part, finish, outVars, doneVars,
                 recVars, rc, last, runs>>

\* concat_chunks writes beside the output and replaces it at the end.
Concat ==
  /\ pc = "concat"
  /\ \/ /\ srcs # {}
        /\ dst' = [of |-> {<<c, enc[c]>> : c \in srcs}, seen |-> "unseen"]
        /\ pc' = "verify"
        /\ UNCHANGED rc
     \/ /\ Leave(1)
        /\ UNCHANGED dst
  /\ UNCHANGED <<job, cache, workVars, beside, doneVars, recVars,
                 attempt, last, runs>>

\* Faulty variant: the checks do not compare the durations.
StructuralBlind(f) == BOOLEAN

\* The cheap checks of verify_output, duration and streams: an incomplete
\* output fails them, a complete one may when a probe fails.
Structural(f) == IF f.of = Complete THEN BOOLEAN ELSE {FALSE}

\* The full decode: nothing to say, timestamps only, or errors or a timeout.
DecodeWalk == {"clean", "dts", "bad"}

\* verify_output: the decode is only worth it when the rest is in order.
Verdicts(f) == UNION {IF sound THEN DecodeWalk ELSE {"bad"} :
                        sound \in Structural(f)}

Verify ==
  /\ pc = "verify"
  /\ \E v \in Verdicts(dst) :
       /\ dst' = [dst EXCEPT !.seen = IF v = "dts" THEN "bad" ELSE v]
       /\ pc' = CASE v = "clean" -> "finalize"
                  [] v = "dts" -> "remux"
                  [] v = "bad" -> "failed"
  /\ UNCHANGED <<job, cache, workVars, beside, doneVars, recVars,
                 runVars, last, runs>>

\* Faulty variant: the old output is unlinked.
SetOutputAsideByUnlink == dst' = NoFile /\ UNCHANGED beside

\* os.rename to .pre-dts-fix or to a free damaged_ name.
SetOutputAside == beside' = beside \cup {dst} /\ dst' = NoFile

\* attempt_dts_fix_remux: both legs, then the old output goes aside.
RemuxAside ==
  /\ pc = "remux"
  /\ \/ /\ SetOutputAside
        /\ pc' = "swap"
     \/ /\ pc' = "failed"
        /\ UNCHANGED outVars
  /\ UNCHANGED <<job, cache, workVars, doneVars, recVars, runVars,
                 last, runs>>

\* Faulty variant: the remuxed output is not verified again.
RemuxSwapTrusted ==
  /\ pc = "swap"
  /\ \E old \in beside : dst' = [old EXCEPT !.seen = "unseen"]
  /\ pc' = "finalize"
  /\ UNCHANGED <<job, cache, workVars, beside, doneVars, recVars, runVars,
                 last, runs>>

\* The new file moves in; if that fails the old one is moved back.
RemuxSwap ==
  /\ pc = "swap"
  /\ \E old \in beside :
     \/ /\ dst' = [old EXCEPT !.seen = "unseen"]
        /\ pc' = "reverify"
        /\ UNCHANGED beside
     \/ /\ dst' = old /\ beside' = beside \ {old}
        /\ pc' = "failed"
     \/ /\ pc' = "failed"
        /\ UNCHANGED outVars
  /\ UNCHANGED <<job, cache, workVars, doneVars, recVars, runVars,
                 last, runs>>

Reverify ==
  /\ pc = "reverify"
  /\ \E v \in Verdicts(dst) :
       /\ dst' = [dst EXCEPT !.seen = IF v = "clean" THEN v ELSE "bad"]
       /\ pc' = IF v = "clean" THEN "finalize" ELSE "failed"
  /\ UNCHANGED <<job, cache, workVars, beside, doneVars, recVars,
                 runVars, last, runs>>

\* mark_status and handle_verify_failure_block
VerifyFailed ==
  /\ pc = "failed"
  /\ status' = "verify-failed"
  /\ \/ Exists(dst) /\ SetOutputAside
     \/ UNCHANGED outVars
  /\ Leave(4)
  /\ UNCHANGED <<job, cache, workVars, doneVars, written, told,
                 attempt, last, runs>>

(***************************************************************************)
(* HistoryRecorder.flush, at the end of a successful run or from atexit.   *)
(***************************************************************************)
Finalize ==
  /\ pc = "finalize"
  /\ status' = "ok"
  /\ pc' = "row"
  /\ UNCHANGED <<job, cache, workVars, outVars, doneVars, written, told,
                 runVars, last, runs>>

\* append_record swallows a failing write.
AppendRecord == told' \in {told, Append(told, "row")}

\* run_hook_command never raises, whatever becomes of the command.
RunHook(event) == told' = Append(told, event)

\* Faulty variant: flush does not look whether it has run.
FlushedNever == status = "none"

Flushed == written \/ status = "none"

\* The record counts as written whether the write failed or not.
FlushRow ==
  /\ pc = "row"
  /\ IF Flushed
     THEN /\ pc' = "exit"
          /\ UNCHANGED <<written, told>>
     ELSE /\ AppendRecord
          /\ written' = TRUE
          /\ pc' = "jobend"
  /\ UNCHANGED <<job, cache, workVars, outVars, doneVars, status, runVars,
                 last, runs>>

FireJobEnd ==
  /\ pc = "jobend"
  /\ RunHook("job_end")
  /\ pc' = "complete"
  /\ UNCHANGED <<job, cache, workVars, outVars, doneVars, status, written,
                 runVars, last, runs>>

FireFileComplete ==
  /\ pc = "complete"
  /\ IF status = "ok" /\ Exists(dst) THEN RunHook("file_complete")
                                     ELSE UNCHANGED told
  /\ pc' = IF rc = NoExit THEN "tidy" ELSE "exit"
  /\ UNCHANGED <<job, cache, workVars, outVars, doneVars, status, written,
                 runVars, last, runs>>

(***************************************************************************)
(* After success: the cache, the workdir, the archive, the summary.        *)
(***************************************************************************)
DeleteCache ==
  /\ pc = "tidy"
  /\ cache' = "none"
  /\ pc' = "sweep"
  /\ UNCHANGED <<job, workVars, outVars, doneVars, recVars, runVars,
                 last, runs>>

\* rmtree ignoring errors, whole or cut short: any of the files a later run
\* looks at may stay.
RemoveSome ==
  /\ split' \in {split, FALSE}
  /\ srcs' \in SUBSET srcs
  /\ \E left \in SUBSET Chunks :
       enc' = [c \in Chunks |-> IF c \in left THEN enc[c] ELSE "none"]
  /\ part' = {} /\ aside' = {} /\ finish' = FALSE

Cleanup ==
  /\ pc = "sweep"
  /\ RemoveSome
  /\ pc' = IF job.done THEN "moveout" ELSE "summary"
  /\ UNCHANGED <<job, cache, outVars, doneVars, recVars, runVars, last, runs>>

\* move_to_done_dir: the output first.  Both names must be free; another
\* file's name, an unwritable directory or a full disk stop the move as well.
MoveOutput ==
  /\ pc = "moveout"
  /\ \/ /\ ~blocked /\ ~Exists(archived) /\ Exists(dst)
        /\ archived' = dst /\ dst' = NoFile
        /\ pc' = "movesrc"
        /\ UNCHANGED blocked
     \/ /\ pc' = "summary"
        /\ blocked' \in {blocked, TRUE}
        /\ UNCHANGED <<dst, archived>>
  /\ UNCHANGED <<job, cache, workVars, beside, source, recVars, runVars,
                 last, runs>>

MoveSource ==
  /\ pc = "movesrc"
  /\ \/ source' = "archive" /\ UNCHANGED blocked
     \/ source' = "home" /\ blocked' \in {blocked, TRUE}
  /\ pc' = "summary"
  /\ UNCHANGED <<job, cache, workVars, outVars, archived, recVars, runVars,
                 last, runs>>

\* Faulty variant: the summary is printed for the paths before the move.
OutputFoundAtHome == Exists(dst)

\* The caller passes the new paths only when both files have moved.
OutputFound == source = "archive" \/ Exists(dst)

\* print_summary stats the output.
Summary ==
  /\ pc = "summary"
  /\ rc' = IF OutputFound THEN 0 ELSE 1
  /\ pc' = "row"
  /\ UNCHANGED <<job, cache, workVars, outVars, doneVars, recVars, attempt,
                 last, runs>>

Exit ==
  /\ pc = "exit"
  /\ pc' = "idle"
  /\ last' = rc
  /\ rc' = NoExit /\ attempt' = 1 /\ beside' = {}
  /\ UNCHANGED <<job, cache, workVars, dst, doneVars, recVars, runs>>

(***************************************************************************)
(* What happens to a job from outside.                                     *)
(***************************************************************************)
\* SIGKILL, power loss: no atexit.  A step under way is left half done.
Kill ==
  /\ pc # "idle"
  /\ pc' = "idle" /\ last' = Killed
  /\ rc' = NoExit /\ attempt' = 1 /\ beside' = {}
  /\ status' = "none" /\ written' = FALSE /\ told' = << >>
  /\ \/ /\ pc = "split" /\ ~split
        /\ \E some \in SUBSET Chunks : srcs' = srcs \cup some
        /\ UNCHANGED <<split, enc, part, aside, finish, blocked>>
     \/ /\ pc = "encode"
        /\ \E c \in Ready : part' = part \cup {c}
        /\ UNCHANGED <<split, srcs, enc, aside, finish, blocked>>
     \/ /\ pc = "sweep"
        /\ RemoveSome
        /\ UNCHANGED blocked
     \/ /\ pc \in {"moveout", "movesrc"}    \* a copy across volumes
        /\ blocked' = TRUE
        /\ UNCHANGED workVars
     \/ UNCHANGED <<workVars, blocked>>
  /\ UNCHANGED <<job, cache, dst, source, archived, runs>>

\* "Delete it manually if you want to re-encode from scratch."
UserDeletesOutput ==
  /\ pc = "idle" /\ Exists(dst)
  /\ dst' = NoFile
  /\ UNCHANGED <<job, cache, workVars, beside, doneVars, recVars,
                 runVars, pc, last, runs>>

Prepare == Start \/ PreFlight \/ AutoPatch \/ SplitSource \/ MarkSplit \/ Begin
Encode ==
  \/ \E c \in Chunks : EncodeChunk(c) \/ EncodeFails(c)
  \/ StopByUser \/ AbortEncode \/ EncodeReturns
Judge ==
  \/ CheckChunks \/ Concat \/ Verify
  \/ RemuxAside \/ RemuxSwap \/ Reverify \/ VerifyFailed
Report == Finalize \/ FlushRow \/ FireJobEnd \/ FireFileComplete
Deliver ==
  DeleteCache \/ Cleanup \/ MoveOutput \/ MoveSource \/ Summary \/ Exit

Program == Prepare \/ Encode \/ Judge \/ Report \/ Deliver
Next == Program \/ AskFinish \/ Kill \/ UserDeletesOutput
Spec == Init /\ [][Next]_vars
FairSpec == Spec /\ WF_vars(Program)

(***************************************************************************)
(* Properties.                                                             *)
(***************************************************************************)
\* A run that reports success has an output in place or in the archive that
\* verify_output accepted, and that holds every chunk (main: finalize only
\* after run_encode_verify_loop returned no problem).
OkIsVerified ==
  pc # "idle" /\ status = "ok" =>
    \E f \in {dst, archived} : f.seen = "clean" /\ f.of = Complete

\* The row and each hook at most once and in that order, and a run that begun
\* its record and was not killed has reported, on_file_complete exactly on
\* success (flush, called at the end and again by atexit).
ReportedOnce ==
  /\ \E row \in {<< >>, <<"row">>},
        hooks \in {<< >>, <<"job_end">>, <<"job_end", "file_complete">>} :
       told = row \o hooks
  /\ pc = "idle" /\ last \notin {Killed, NoExit} /\ status # "none" =>
       /\ "job_end" \in ToSet(told)
       /\ "file_complete" \in ToSet(told) <=> status = "ok"

\* No step of the program loses an output file: it stays, or the very file is
\* beside it as damaged_, as .pre-dts-fix, or in the archive ("never
\* unlinked", dts_recovery.py).
OutputKept ==
  [][Exists(dst) /\ pc # "idle" =>
       dst'.of = dst.of \/ dst \in beside' \cup {archived'}]_vars

\* A run that ends by itself leaves no output nobody judged: only a kill
\* between concat and the verdict can put one there, for the next run to take
\* for a finished one ("Re-run after final success", encode_resumable.py).
NothingUnjudged ==
  [][pc = "exit" /\ pc' = "idle" /\ status # "none" =>
       dst.seen # "unseen"]_vars

\* A run that recorded "ok" exits with 0, but for one case: the output went to
\* the archive and the source did not, and print_summary finds neither path.
OkExitsZero ==
  pc = "idle" /\ status = "ok" /\ last \notin {0, Killed} =>
    archived.seen = "clean" /\ source = "home"

\* Encoded video, quarantined or not, stays on disk until an output has been
\* accepted: "Encoded chunks are NEVER deleted by this loop" (verify_loop.py).
EncodesSurvive ==
  [][\A c \in Chunks :
       Encoded(c) /\ enc'[c] # enc[c] =>
         <<c, enc[c]>> \in aside' \/ Verified]_vars

\* The pipeline implements ResumableJob.
Promise == INSTANCE ResumableJob WITH
  Pieces <- Chunks \X (Grades \cup {"part"}),
  Whole <- Complete,
  kept <- aside \cup {<<c, enc[c]>> : c \in {d \in Chunks : Encoded(d)}},
  output <- Verified,
  home <- source = "home"
KeepsPromise == Promise!Spec

(***************************************************************************)
(* Why the promise is kept: the inductive invariant.                       *)
(***************************************************************************)
Content == {<<c, enc[c]>> : c \in srcs}
Working == {"preflight", "patch", "split", "mark", "begin", "encode", "check",
            "concat"}
Judging == {"verify", "remux", "swap", "reverify", "failed"}

\* On the way from the verdict to the archive.
Delivering ==
  \/ pc \in {"finalize", "tidy", "sweep", "moveout"}
  \/ pc \in {"row", "jobend", "complete"} /\ rc = NoExit

\* Up to the concat there is no output, and nothing beside it; the source stays
\* at home until the output is in the archive.
PlaceInv ==
  /\ pc \in Working \cup {"swap"} => dst = NoFile
  /\ pc \in Working \cup {"idle", "verify", "remux"} => beside = {}
  /\ pc \in Working \cup Judging \cup {"finalize"} => rc = NoExit
  /\ pc \in Working \cup Judging \cup {"movesrc"} \/ Delivering =>
       source = "home"

\* What is judged was made of the chunks in the workdir.
JudgeInv ==
  /\ pc = "concat" => Todo = {}
  /\ pc \in {"verify", "remux", "reverify"} => dst.of = Content
  /\ pc = "swap" => \A f \in beside : f.of = Content /\ f.seen # "clean"
  /\ pc \in Judging => dst.seen # "clean"
  /\ \A f \in {dst, archived} : f.seen = "clean" => f.of = Complete

\* Nothing is deleted, moved or called "ok" without an accepted output.
DeliverInv ==
  /\ Delivering => dst.seen = "clean"
  /\ pc = "movesrc" \/ source = "archive" => archived.seen = "clean"
  /\ status = "ok" /\ pc # "idle" =>
       /\ pc \notin Working \cup Judging \cup {"finalize"}
       /\ Verified

\* Only a kill leaves an output behind that nobody judged.
SeenInv ==
  /\ dst.seen = "unseen" =>
       pc \in {"verify", "reverify", "idle"} \/ (pc = "exit" /\ status = "none")
  /\ pc = "remux" => dst.seen = "bad"
  /\ pc = "swap" => \A f \in beside : f.seen = "bad"

\* What a run that recorded this status has said in the end.
ToldFor(s) ==
  IF s = "ok" THEN {<<"job_end", "file_complete">>,
                    <<"row", "job_end", "file_complete">>}
              ELSE {<<"job_end">>, <<"row", "job_end">>}

\* Nothing is said before the flush, everything after it.
ToldInv ==
  /\ pc \in {"preflight", "patch", "split", "mark", "begin"} => status = "none"
  /\ pc \in {"encode", "check", "concat", "finalize"} \cup Judging =>
       status = "in_progress"
  /\ pc \in Working \cup Judging \cup {"finalize"} => ~written /\ told = << >>
  /\ pc = "row" /\ ~written => told = << >>
  /\ pc = "jobend" => told \in {<< >>, <<"row">>}
  /\ pc = "complete" => told \in ToldFor("none")
  /\ pc \in {"tidy", "sweep", "moveout", "movesrc", "summary"} => status = "ok"
  /\ \/ pc \in {"tidy", "sweep", "moveout", "movesrc", "summary"}
     \/ pc = "row" /\ written
     \/ pc \in {"exit", "idle"} /\ status # "none"
     => written /\ told \in ToldFor(status)
  /\ pc \in {"exit", "idle"} /\ status = "none" => told = << >>

\* A run is on its way to success exactly as long as it has no exit code.
CodeInv ==
  /\ pc \in {"row", "jobend", "complete"} => status # "none"
  /\ pc = "row" => (rc = NoExit <=> status = "ok" /\ ~written)
  /\ pc \in {"jobend", "complete"} => written /\ (rc = NoExit <=> status = "ok")
  /\ pc \in {"tidy", "sweep", "moveout", "movesrc", "summary"} => rc = NoExit
  /\ pc \in {"row", "exit"} /\ status = "ok" /\ rc \notin {0, NoExit} =>
       archived.seen = "clean" /\ source = "home"
  /\ pc = "exit" => rc # NoExit
  /\ OkExitsZero

\* What holds whatever fails, and what a failing quarantine rename breaks.
FaultInv == TypeOK /\ PlaceInv /\ JudgeInv /\ SeenInv
JobInv == FaultInv /\ DeliverInv /\ ToldInv /\ CodeInv

\* A run that goes on ends: the attempts are bounded.
RunEnds == (pc # "idle") ~> (pc = "idle")
=============================================================================
