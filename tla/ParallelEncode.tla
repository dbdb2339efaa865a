--------------------------- MODULE ParallelEncode ---------------------------
(***************************************************************************)
(* One call of encode_chunks_parallel (encode_modules/encode_parallel.py): *)
(* worker threads that each drive one ffmpeg at a time, the render thread  *)
(* with the size guard and the choke killer, the VMAF guard's thread, the  *)
(* user asking to finish early, and the orchestrator that joins them and   *)
(* turns what happened into an exit code.  On disk a chunk has a final     *)
(* enc file, a .part file and quarantined .part files.                     *)
(*                                                                         *)
(* Left to other modules: pausing (PauseControl) and a kill of the whole   *)
(* program.  The queue hands out chunks middle-first; here any queued      *)
(* chunk may be next.                                                      *)
(***************************************************************************)
EXTENDS QualityGuard, FiniteSets

CONSTANTS
  Slots,           \* the worker threads, 0..parallel-1 in the code
  NoProc,          \* no ffmpeg registered in a slot
  AutoFix,         \* --auto-fix-choke
  SizeGuard,       \* --max-output-bytes is set
  ChokeGuard,      \* choke threshold and grace are both positive
  EncodeRaises,    \* the encode helper may raise (Popen, progress loop, rename)
  FixRaises,       \* try_auto_fix_chunk may raise while its ffmpeg runs
  RenameFails,     \* a quarantine rename may fail (file lock, permission)
  StopTimesOut,    \* QualityGuard.stop(timeout=90) may time out
  FinishCancels    \* a finish request may be withdrawn again

ASSUME EncodeAssumption ==
  /\ {AutoFix, SizeGuard, ChokeGuard, EncodeRaises, FixRaises,
      RenameFails, StopTimesOut, FinishCancels} \subseteq BOOLEAN
  /\ Slots # {}                       \* compress.py refuses --parallel 0
  /\ NoProc \notin Chunks \X {"encode", "fix"}
  /\ NoChunk \notin Chunks \X ((Chunks \X {"encode", "fix"}) \cup {NoProc})

VARIABLES
  todo,      \* chunks still in work_q
  wpc,       \* where each worker is
  wchunk,    \* the chunk each worker holds
  ps,        \* state of each ffmpeg a chunk can get: first encode, auto-fix
  active,    \* display.active_procs
  enc,       \* who wrote the final enc file of each chunk
  part,      \* who wrote its .part file
  aside,     \* quarantined .part files
  wrote,     \* history: every file of encoded video ever begun
  choked,    \* display.choked_chunks
  results,   \* ctx.results as <<chunk, rc>>
  abort,     \* display.abort_event
  sized,     \* display.abort_reason is set
  qinfo,     \* chunk of display.quality_abort_info
  finish,    \* display.finish_signal.requested
  rpc,       \* where the render thread is
  view,      \* check_choke's snapshot: <<chunk, proc>>
  mpc,       \* where the orchestrator is
  skipped,   \* what collect_skipped returned; each has a needs_fix sidecar
  outcome    \* how the call ended

diskVars  == <<enc, part, aside, wrote>>
workVars  == <<todo, wpc, wchunk, results>>
mainVars  == <<mpc, skipped, outcome>>
rendVars  == <<rpc, view>>
abortVars == <<abort, sized, qinfo>>
vars == <<guardVars, diskVars, workVars, mainVars, rendVars, abortVars,
          ps, active, choked, finish>>

Procs == Chunks \X {"encode", "fix"}
Writers == {"prior", "old", "encode", "fix"}
Running == {"live", "dying"}       \* "dying": SIGTERM sent, not yet exited
Exited == {"ok", "err"}

WorkerPCs ==
  {"loop", "take", "prep", "spawn", "register", "wait", "reaped", "judge",
   "fixprep", "fixspawn", "fixregister", "fixwait", "fixreaped", "fixwalk",
   "gone"}
MainPCs == {"join", "guard", "collect", "quality", "size", "finish", "exited"}
Outcomes == {"none", "quality", "size", "user", "failed", "skipped", "done"}

WorkTypeOK ==
  /\ todo \subseteq Chunks
  /\ wpc \in [Slots -> WorkerPCs]
  /\ wchunk \in [Slots -> Chunks \cup {NoChunk}]
  /\ results \subseteq Chunks \X {0, 1}
  /\ choked \subseteq Chunks

ProcTypeOK ==
  /\ ps \in [Procs -> {"unborn"} \cup Running \cup Exited]
  /\ active \in [Slots -> Procs \cup {NoProc}]

DiskTypeOK ==
  /\ enc \in [Chunks -> Writers \cup {"none"}]
  /\ part \in [Chunks -> Writers \cup {"none"}]
  /\ aside \subseteq Chunks \X Writers
  /\ wrote \subseteq Chunks \X Writers

ControlTypeOK ==
  /\ abort \in BOOLEAN /\ sized \in BOOLEAN /\ finish \in BOOLEAN
  /\ qinfo \in Chunks \cup {NoChunk}
  /\ rpc \in {"tick", "over", "sweep", "choke", "gone"}
  /\ view \in (Chunks \X (Procs \cup {NoProc})) \cup {NoChunk}
  /\ mpc \in MainPCs
  /\ skipped \subseteq Chunks
  /\ outcome \in Outcomes

TypeOK ==
  GuardTypeOK /\ WorkTypeOK /\ ProcTypeOK /\ DiskTypeOK /\ ControlTypeOK

\* A run starts on what earlier runs left: some chunks done, some with the
\* .part of an encode that was cut short.
Init ==
  /\ GuardInit
  /\ \E done \in SUBSET Chunks : \E stale \in SUBSET (Chunks \ done) :
       /\ done # Chunks
       /\ todo = Chunks \ done
       /\ enc = [c \in Chunks |-> IF c \in done THEN "prior" ELSE "none"]
       /\ part = [c \in Chunks |-> IF c \in stale THEN "old" ELSE "none"]
       /\ wrote = (done \X {"prior"}) \cup (stale \X {"old"})
  /\ aside = {} /\ choked = {} /\ results = {} /\ skipped = {}
  /\ wpc = [s \in Slots |-> "loop"]
  /\ wchunk = [s \in Slots |-> NoChunk]
  /\ ps = [p \in Procs |-> "unborn"]
  /\ active = [s \in Slots |-> NoProc]
  /\ abort = FALSE /\ sized = FALSE /\ qinfo = NoChunk /\ finish = FALSE
  /\ rpc = "tick" /\ view = NoChunk
  /\ mpc = "join" /\ outcome = "none"

-----------------------------------------------------------------------------
(* Helpers.                                                                *)

Goto(s, pc) == wpc' = [wpc EXCEPT ![s] = pc]

\* The ffmpeg worker s is driving, by its control point.
Fixing(s) == wpc[s] \in {"fixprep", "fixspawn", "fixregister", "fixwait",
                         "fixreaped", "fixwalk"}
MyProc(s) == <<wchunk[s], IF Fixing(s) THEN "fix" ELSE "encode">>

\* _quarantine_part: a .part that exists is renamed aside, never unlinked; a
\* rename that fails leaves it in place, and no caller looks at the answer.
Quarantine(c) ==
  /\ \/ /\ aside' = aside \cup ({<<c, part[c]>>} \ {<<c, "none">>})
        /\ part' = [part EXCEPT ![c] = "none"]
     \/ RenameFails /\ UNCHANGED <<aside, part>>
  /\ UNCHANGED <<enc, wrote>>

\* Path.rename of the .part to the final enc name.
PromotePart(c) ==
  /\ enc' = [enc EXCEPT ![c] = part[c]]
  /\ part' = [part EXCEPT ![c] = "none"]
  /\ UNCHANGED <<aside, wrote>>

\* proc.terminate() on each of P: nothing happens to one that has exited.
Terminate(P) ==
  ps' = [p \in Procs |-> IF p \in P /\ ps[p] = "live" THEN "dying" ELSE ps[p]]

Registered == {active[s] : s \in Slots} \ {NoProc}

\* Popen: ffmpeg (-y) replaces whatever .part is there, unless it fails
\* before it opens its output.
Launch(s, kind) ==
  LET c == wchunk[s] IN
  /\ ps' = [ps EXCEPT ![<<c, kind>>] = "live"]
  /\ \/ /\ part' = [part EXCEPT ![c] = kind]
        /\ wrote' = wrote \cup {<<c, kind>>}
     \/ UNCHANGED <<part, wrote>>
  /\ UNCHANGED <<enc, aside>>

\* The worker's attempt ends with this rc and the worker goes round its loop.
Record(s, rc) ==
  /\ results' = results \cup {<<wchunk[s], rc>>}
  /\ Goto(s, "loop")
  /\ wchunk' = [wchunk EXCEPT ![s] = NoChunk]
  /\ UNCHANGED todo

\* _record_worker_exception: mark the chunk choked, push a failed result.
RecordException(s) ==
  /\ choked' = choked \cup {wchunk[s]}
  /\ Record(s, 1)

-----------------------------------------------------------------------------
(* Worker threads.                                                         *)

\* The loop head reads both stop flags before it touches the queue.
LoopCheck(s) ==
  /\ wpc[s] = "loop"
  /\ Goto(s, IF abort \/ finish THEN "gone" ELSE "take")
  /\ UNCHANGED <<guardVars, diskVars, mainVars, rendVars, abortVars, ps,
                 active, choked, finish, todo, wchunk, results>>

\* Faulty variant: the chunk stays in the queue for a second worker.
TakeKeeping(s) ==
  /\ wpc[s] = "take"
  /\ \E c \in todo : wchunk' = [wchunk EXCEPT ![s] = c]
  /\ Goto(s, "prep")
  /\ UNCHANGED <<guardVars, diskVars, mainVars, rendVars, abortVars, ps,
                 active, choked, finish, todo, results>>

Take(s) ==
  /\ wpc[s] = "take"
  /\ \/ /\ todo = {}
        /\ Goto(s, "gone") /\ UNCHANGED <<todo, wchunk>>
     \/ \E c \in todo :
          /\ todo' = todo \ {c}
          /\ wchunk' = [wchunk EXCEPT ![s] = c]
          /\ Goto(s, "prep")
  /\ UNCHANGED <<guardVars, diskVars, mainVars, rendVars, abortVars, ps,
                 active, choked, finish, results>>

\* Faulty variant: no quarantine before the encoder starts.
PrepareInPlace(s) ==
  /\ wpc[s] \in {"prep", "fixprep"}
  /\ Goto(s, IF Fixing(s) THEN "fixspawn" ELSE "spawn")
  /\ UNCHANGED <<guardVars, diskVars, mainVars, rendVars, abortVars, ps,
                 active, choked, finish, todo, wchunk, results>>

\* A stale .part is set aside before ffmpeg may overwrite it; slot_start.
Prepare(s) ==
  /\ wpc[s] \in {"prep", "fixprep"}
  /\ Quarantine(wchunk[s])
  /\ Goto(s, IF Fixing(s) THEN "fixspawn" ELSE "spawn")
  /\ UNCHANGED <<guardVars, mainVars, rendVars, abortVars, ps, active, choked,
                 finish, todo, wchunk, results>>

Spawn(s) ==
  /\ wpc[s] \in {"spawn", "fixspawn"}
  /\ Launch(s, IF Fixing(s) THEN "fix" ELSE "encode")
  /\ Goto(s, IF Fixing(s) THEN "fixregister" ELSE "register")
  /\ UNCHANGED <<guardVars, mainVars, rendVars, abortVars, active, choked,
                 finish, todo, wchunk, results>>

\* Faulty variant: registration does not look at the abort flag.
RegisterAlways(s) ==
  /\ wpc[s] \in {"register", "fixregister"}
  /\ active' = [active EXCEPT ![s] = MyProc(s)]
  /\ Goto(s, IF Fixing(s) THEN "fixwait" ELSE "wait")
  /\ UNCHANGED <<guardVars, diskVars, mainVars, rendVars, abortVars, ps,
                 choked, finish, todo, wchunk, results>>

\* register_proc: after an abort the process is refused and terminated.
Register(s) ==
  /\ wpc[s] \in {"register", "fixregister"}
  /\ IF abort
       THEN Terminate({MyProc(s)}) /\ UNCHANGED active
       ELSE active' = [active EXCEPT ![s] = MyProc(s)] /\ UNCHANGED ps
  /\ Goto(s, IF Fixing(s) THEN "fixwait" ELSE "wait")
  /\ UNCHANGED <<guardVars, diskVars, mainVars, rendVars, abortVars, choked,
                 finish, todo, wchunk, results>>

\* proc.wait() returned; the finally clause unregisters the slot.
Reap(s) ==
  /\ wpc[s] \in {"wait", "fixwait"} /\ ps[MyProc(s)] \in Exited
  /\ active' = [active EXCEPT ![s] = NoProc]
  /\ Goto(s, IF Fixing(s) THEN "fixreaped" ELSE "reaped")
  /\ UNCHANGED <<guardVars, diskVars, mainVars, rendVars, abortVars, ps,
                 choked, finish, todo, wchunk, results>>

\* rc = 0: the .part becomes the chunk; otherwise the .part stays.
Promote(s) ==
  /\ wpc[s] = "reaped"
  /\ IF ps[MyProc(s)] = "ok" THEN PromotePart(wchunk[s]) ELSE UNCHANGED diskVars
  /\ Goto(s, "judge")
  /\ UNCHANGED <<guardVars, mainVars, rendVars, abortVars, ps, active, choked,
                 finish, todo, wchunk, results>>

\* Faulty variant: no finally clause around the running ffmpeg.
EncodeRaiseNoFinally(s) ==
  /\ EncodeRaises /\ wpc[s] \in {"spawn", "wait"}
  /\ RecordException(s)
  /\ UNCHANGED <<guardVars, diskVars, mainVars, rendVars, abortVars, ps,
                 active, finish>>

\* An exception before, during or after ffmpeg's run.  While ffmpeg runs, the
\* finally clause terminates it, waits for it and unregisters it.
EncodeRaise(s) ==
  /\ EncodeRaises /\ wpc[s] \in {"spawn", "wait", "reaped"}
  /\ (wpc[s] = "reaped") => ps[MyProc(s)] = "ok"
  /\ IF wpc[s] = "wait"
       THEN /\ ps' = [ps EXCEPT ![MyProc(s)] =
                          IF @ \in Running THEN "err" ELSE @]
            /\ active' = [active EXCEPT ![s] = NoProc]
       ELSE UNCHANGED <<ps, active>>
  /\ RecordException(s)
  /\ UNCHANGED <<guardVars, diskVars, mainVars, rendVars, abortVars, finish>>

\* Faulty variant: the failure is recorded before the auto-fix is tried.
JudgeFixRecording(s) ==
  /\ wpc[s] = "judge" /\ AutoFix
  /\ ps[MyProc(s)] = "err" /\ wchunk[s] \in choked
  /\ Goto(s, "fixprep")
  /\ results' = results \cup {<<wchunk[s], 1>>}
  /\ UNCHANGED <<guardVars, diskVars, mainVars, rendVars, abortVars, ps,
                 active, choked, finish, todo, wchunk>>

\* Faulty variant: a failed encode is recorded like a good one.
JudgeRecordBlind(s) ==
  /\ wpc[s] = "judge"
  /\ ~(AutoFix /\ ps[MyProc(s)] = "err" /\ wchunk[s] \in choked)
  /\ Record(s, 0) /\ Submit(wchunk[s])
  /\ UNCHANGED <<diskVars, mainVars, rendVars, abortVars, ps, active, choked,
                 finish>>

\* _attempt_chunk: a choked failure goes to the auto-fix, anything else is
\* recorded, and a good chunk is submitted to the VMAF guard.
JudgeFix(s) ==
  /\ wpc[s] = "judge" /\ AutoFix
  /\ ps[MyProc(s)] = "err" /\ wchunk[s] \in choked
  /\ Goto(s, "fixprep")
  /\ UNCHANGED <<guardVars, diskVars, mainVars, rendVars, abortVars, ps,
                 active, choked, finish, todo, wchunk, results>>

JudgeRecord(s) ==
  /\ wpc[s] = "judge"
  /\ ~(AutoFix /\ ps[MyProc(s)] = "err" /\ wchunk[s] \in choked)
  /\ IF ps[MyProc(s)] = "ok"
       THEN Record(s, 0) /\ Submit(wchunk[s])
       ELSE Record(s, 1) /\ UNCHANGED guardVars
  /\ UNCHANGED <<diskVars, mainVars, rendVars, abortVars, ps, active, choked,
                 finish>>

\* try_auto_fix_chunk after its ffmpeg: a failed run is quarantined, a good
\* one goes to the decode walk.
FixEncoded(s) ==
  /\ wpc[s] = "fixreaped"
  /\ IF ps[MyProc(s)] = "ok" /\ part[wchunk[s]] # "none"
       THEN /\ Goto(s, "fixwalk")
            /\ UNCHANGED <<diskVars, todo, wchunk, results>>
       ELSE Quarantine(wchunk[s]) /\ Record(s, 1)
  /\ UNCHANGED <<guardVars, mainVars, rendVars, abortVars, ps, active, choked,
                 finish>>

FixBroken(s) ==
  /\ wpc[s] = "fixwalk"
  /\ Quarantine(wchunk[s]) /\ Record(s, 1)
  /\ UNCHANGED <<guardVars, mainVars, rendVars, abortVars, ps, active, choked,
                 finish>>

\* Faulty variant: an auto-fixed chunk bypasses the VMAF guard.
FixPromoteUnjudged(s) ==
  /\ wpc[s] = "fixwalk"
  /\ PromotePart(wchunk[s])
  /\ choked' = choked \ {wchunk[s]}
  /\ Record(s, 0)
  /\ UNCHANGED <<guardVars, mainVars, rendVars, abortVars, ps, active, finish>>

FixPromote(s) ==
  /\ wpc[s] = "fixwalk"
  /\ PromotePart(wchunk[s])
  /\ choked' = choked \ {wchunk[s]}
  /\ Record(s, 0) /\ Submit(wchunk[s])
  /\ UNCHANGED <<mainVars, rendVars, abortVars, ps, active, finish>>

\* An exception inside try_auto_fix_chunk: _try_autofix logs it and answers
\* False.  Nothing terminates or unregisters the ffmpeg it was reading from.
FixRaise(s) ==
  /\ FixRaises /\ wpc[s] \in {"fixspawn", "fixwait"}
  /\ Record(s, 1)
  /\ UNCHANGED <<guardVars, diskVars, mainVars, rendVars, abortVars, ps,
                 active, choked, finish>>

Proceed(s) ==
  \/ LoopCheck(s) \/ Take(s) \/ Prepare(s) \/ Spawn(s) \/ Register(s)
  \/ Reap(s) \/ Promote(s) \/ JudgeFix(s) \/ JudgeRecord(s)
  \/ FixEncoded(s) \/ FixBroken(s) \/ FixPromote(s)

Worker(s) == Proceed(s) \/ EncodeRaise(s) \/ FixRaise(s)

\* ffmpeg ends: only one that opened its output can succeed.
Exit(p) ==
  /\ ps[p] \in Running
  /\ \/ ps' = [ps EXCEPT ![p] = "err"]
     \/ /\ p \in wrote
        /\ ps' = [ps EXCEPT ![p] = "ok"]
  /\ UNCHANGED <<guardVars, diskVars, workVars, mainVars, rendVars, abortVars,
                 active, choked, finish>>

-----------------------------------------------------------------------------
(* Render thread: check_threshold, then check_choke, on every tick.        *)

RenderRest == <<guardVars, diskVars, workVars, mainVars, active, finish>>

\* The projection exceeds the limit, which needs encoded bytes on disk.
SizeOver ==
  /\ rpc = "tick" /\ SizeGuard /\ ~abort
  /\ \E c \in Chunks : enc[c] # "none" \/ part[c] # "none"
  /\ rpc' = "over"
  /\ UNCHANGED <<RenderRest, abortVars, ps, choked, view>>

SizeAbort ==
  /\ rpc = "over"
  /\ sized' = TRUE /\ abort' = TRUE
  /\ rpc' = "sweep"
  /\ UNCHANGED <<RenderRest, qinfo, ps, choked, view>>

SizeSweep ==
  /\ rpc = "sweep"
  /\ Terminate(Registered)
  /\ rpc' = "tick"
  /\ UNCHANGED <<RenderRest, abortVars, choked, view>>

\* check_choke copies slots, active_procs and choked_chunks under the lock;
\* a slot shows its chunk from slot_start until it is popped.
ChokeSnapshot(s) ==
  /\ rpc = "tick" /\ ChokeGuard /\ ~abort
  /\ wpc[s] \in {"spawn", "register", "wait", "reaped"}
  /\ wchunk[s] \notin choked
  /\ view' = <<wchunk[s], active[s]>>
  /\ rpc' = "choke"
  /\ UNCHANGED <<RenderRest, abortVars, ps, choked>>

\* Too little video in the window: mark the chunk, terminate the process of
\* the snapshot, and look at no further slot in this tick.
ChokeKill ==
  /\ rpc = "choke"
  /\ choked' = choked \cup {view[1]}
  /\ Terminate({view[2]})
  /\ rpc' = "tick" /\ view' = NoChunk
  /\ UNCHANGED <<RenderRest, abortVars>>

Render == SizeOver \/ SizeAbort \/ SizeSweep \/ ChokeKill
          \/ \E s \in Slots : ChokeSnapshot(s)

-----------------------------------------------------------------------------
(* Guard thread: the steps of QualityGuard, and the three of on_abort.     *)

EncodeRest == <<diskVars, workVars, mainVars, rendVars, active, choked, finish>>

GuardWork == GuardStep /\ UNCHANGED <<EncodeRest, abortVars, ps>>

OnAbortInfo ==
  /\ gpc = "notify"
  /\ qinfo' = gcur
  /\ gpc' = "flag"
  /\ UNCHANGED <<EncodeRest, abort, sized, ps, gq, gcur, infra, gaborted,
                 decision>>

OnAbortFlag ==
  /\ gpc = "flag"
  /\ abort' = TRUE
  /\ gpc' = "sweep"
  /\ UNCHANGED <<EncodeRest, sized, qinfo, ps, gq, gcur, infra, gaborted,
                 decision>>

OnAbortSweep ==
  /\ gpc = "sweep"
  /\ Terminate(Registered)
  /\ gpc' = "idle" /\ gcur' = NoChunk
  /\ UNCHANGED <<EncodeRest, abortVars, gq, infra, gaborted, decision>>

Guard == GuardWork \/ OnAbortInfo \/ OnAbortFlag \/ OnAbortSweep

-----------------------------------------------------------------------------
(* The user: the f key, or a FINISH file appearing or being deleted.       *)

UserFinish ==
  /\ outcome = "none"
  /\ finish => FinishCancels
  /\ finish' = ~finish
  /\ UNCHANGED <<guardVars, diskVars, workVars, mainVars, rendVars, abortVars,
                 ps, active, choked>>

-----------------------------------------------------------------------------
(* The orchestrating thread.                                               *)

MainRest == <<workVars, abortVars, ps, active, choked>>

\* Faulty variant: the join is the work queue's, which an abort leaves full.
MainJoinQueue ==
  /\ mpc = "join" /\ todo = {} /\ \A s \in Slots : wpc[s] = "gone"
  /\ rpc = "tick"
  /\ rpc' = "gone" /\ UNCHANGED view
  /\ PutSentinel
  /\ mpc' = "guard"
  /\ UNCHANGED <<MainRest, diskVars, skipped, outcome, finish>>

\* Workers joined; the render thread is stopped between two ticks, then the
\* VMAF guard is told to drain.
MainJoin ==
  /\ mpc = "join" /\ \A s \in Slots : wpc[s] = "gone"
  /\ rpc = "tick"
  /\ rpc' = "gone" /\ UNCHANGED view
  /\ PutSentinel
  /\ mpc' = "guard"
  /\ UNCHANGED <<MainRest, diskVars, skipped, outcome, finish>>

MainGuardDone ==
  /\ mpc = "guard" /\ gpc = "gone"
  /\ mpc' = "collect"
  /\ UNCHANGED <<MainRest, guardVars, diskVars, rendVars, skipped, outcome,
                 finish>>

MainGuardTimeout ==
  /\ StopTimesOut /\ mpc = "guard" /\ gpc # "gone"
  /\ ReapInflight
  /\ mpc' = "collect"
  /\ UNCHANGED <<MainRest, diskVars, rendVars, skipped, outcome, finish>>

\* Faulty variant: the .part of a skipped chunk stays where it is.
MainCollectLeaving ==
  /\ mpc = "collect"
  /\ skipped' = {c \in choked : enc[c] = "none"}
  /\ mpc' = "quality"
  /\ UNCHANGED <<MainRest, guardVars, diskVars, rendVars, outcome, finish>>

\* collect_skipped: choked chunks without an enc file get their .part set
\* aside and a needs_fix sidecar.
MainCollect ==
  /\ mpc = "collect"
  /\ skipped' = {c \in choked : enc[c] = "none"}
  /\ \E moved \in SUBSET skipped' :
       /\ ~RenameFails => moved = skipped'
       /\ aside' = aside \cup {<<c, part[c]>> :
                                c \in {d \in moved : part[d] # "none"}}
       /\ part' = [c \in Chunks |-> IF c \in moved THEN "none" ELSE part[c]]
  /\ mpc' = "quality"
  /\ UNCHANGED <<MainRest, guardVars, enc, wrote, rendVars, outcome, finish>>

ExitWith(o) == mpc' = "exited" /\ outcome' = o

\* Faulty variant: the size guard outranks the quality verdict.
MainQualityAfterSize ==
  /\ mpc = "quality"
  /\ IF qinfo # NoChunk /\ ~sized THEN ExitWith("quality")
                                  ELSE mpc' = "size" /\ UNCHANGED outcome
  /\ UNCHANGED <<MainRest, guardVars, diskVars, rendVars, skipped, finish>>

\* exit 9, before the size guard is looked at.
MainQuality ==
  /\ mpc = "quality"
  /\ IF qinfo # NoChunk THEN ExitWith("quality")
                        ELSE mpc' = "size" /\ UNCHANGED outcome
  /\ UNCHANGED <<MainRest, guardVars, diskVars, rendVars, skipped, finish>>

\* exit 3.
MainSize ==
  /\ mpc = "size"
  /\ IF abort THEN ExitWith("size") ELSE mpc' = "finish" /\ UNCHANGED outcome
  /\ UNCHANGED <<MainRest, guardVars, diskVars, rendVars, skipped, finish>>

Remaining == {c \in Chunks : enc[c] = "none"}
Failures == {c \in Chunks : <<c, 1>> \in results /\ c \notin skipped}

\* exit 8 when a finish request left chunks over, exit 1 on failures that
\* are no choke skips, otherwise the skipped chunks are returned.
MainFinish ==
  /\ mpc = "finish"
  /\ ExitWith(IF finish /\ Remaining # {} THEN "user"
              ELSE IF Failures # {} THEN "failed"
              ELSE IF skipped # {} THEN "skipped" ELSE "done")
  /\ UNCHANGED <<MainRest, guardVars, diskVars, rendVars, skipped, finish>>

Main == \/ MainJoin \/ MainGuardDone \/ MainGuardTimeout \/ MainCollect
        \/ MainQuality \/ MainSize \/ MainFinish

\* The call has returned or exited.
Returned == mpc = "exited" /\ UNCHANGED vars

Next ==
  \/ \E s \in Slots : Worker(s)
  \/ \E p \in Procs : Exit(p)
  \/ Render \/ Guard \/ UserFinish \/ Main \/ Returned

Spec == Init /\ [][Next]_vars

\* Threads keep running, no exception is bound to happen, and a process that got
\* SIGTERM exits; nothing says that an ffmpeg left alone, or a VMAF
\* measurement, ever ends.
FairSpec ==
  /\ Spec
  /\ \A s \in Slots : WF_vars(Proceed(s))
  /\ \A p \in Procs : WF_vars(ps[p] = "dying" /\ Exit(p))
  /\ WF_vars(SizeAbort) /\ WF_vars(SizeSweep) /\ WF_vars(ChokeKill)
  /\ WF_vars(OnAbortInfo) /\ WF_vars(OnAbortFlag) /\ WF_vars(OnAbortSweep)
  /\ WF_vars(Main)
-----------------------------------------------------------------------------
(* Properties.                                                             *)

\* register_proc versus the terminate sweeps (display.py, size_projection.py,
\* on_abort): once an abort is flagged and no sweep is outstanding, every
\* encoder still running has been sent SIGTERM, or its worker is about to
\* register it and will be refused.
AbortReachesEncoders ==
  abort /\ rpc # "sweep" /\ gpc # "sweep" =>
    \A p \in Procs : ps[p] = "live" =>
      \E s \in Slots : wpc[s] \in {"register", "fixregister"} /\ MyProc(s) = p

\* Popen teardown in chunk_worker.py and chunk_recovery.py: a running ffmpeg
\* always has a worker that holds its Popen and will wait for it.
SupervisedEncoders ==
  \A p \in Procs : ps[p] \in Running =>
    \E s \in Slots :
      /\ wpc[s] \in {"register", "wait", "fixregister", "fixwait"}
      /\ MyProc(s) = p

\* The never-delete rule of chunk_worker.py and chunk_recovery.py: whatever
\* was encoded, finished or not, by this run or an earlier one, is still on
\* disk as the chunk, as its .part or under a quarantine name.
BytesPreserved ==
  \A f \in wrote : LET c == f[1] w == f[2] IN
    enc[c] = w \/ part[c] = w \/ f \in aside

\* The exit precedence of encode_chunks_parallel.  Exit 3 makes the queue
\* retry at a higher CRF, so it must mean the size guard and nothing else; a
\* quality verdict is never outranked; and the other endings mean no guard
\* objected.
ExitMatchesCause ==
  /\ outcome = "size" => sized /\ qinfo = NoChunk
  /\ outcome = "quality" =>
       \/ decision[qinfo] = "abort"
       \/ decision[qinfo] = "infra-fail" /\ infra = InfraLimit
  /\ outcome \in {"size", "user", "failed", "skipped", "done"} =>
       \A c \in Chunks : decision[c] # "abort"
  /\ outcome \in {"user", "failed", "skipped", "done"} => ~abort

\* The needs_fix contract (skipped_collector.py): when skips are returned,
\* every chunk that is missing has a sidecar, and no .part is left where a
\* replacement is to be dropped.
SkipsAreDocumented ==
  outcome = "skipped" => /\ Remaining = skipped
                         /\ \A c \in skipped : part[c] = "none"

\* "empty = success": an empty return means every chunk has its enc file.
EmptyReturnIsComplete == outcome = "done" => Remaining = {}

\* The drain before the exit decision: when the call returns chunks for the
\* merge, every chunk this run encoded has been judged by the VMAF guard.
ReturnedChunksAreJudged ==
  GuardOn /\ outcome = "done" =>
    \A c \in Chunks : enc[c] \in {"encode", "fix"} => decision[c] # "none"

\* "ERROR: n chunk(s) failed ... Re-run to retry the failed chunks": each
\* chunk named is one a re-run will encode again.
FailuresAreRetried == outcome = "failed" => Failures \subseteq Remaining

\* The files of video on disk, and those among them that are chunks.
InUse == {<<c, enc[c]>> : c \in {d \in Chunks : enc[d] # "none"}}
OnDisk ==
  InUse \cup aside \cup {<<c, part[c]>> : c \in {d \in Chunks : part[d] # "none"}}

\* The call implements ChunkEncoding, what run_encode_verify_loop relies on:
\* "enc_X.mkv present" means done, an empty list means all of them.
Contract == INSTANCE ChunkEncoding WITH
  Pieces <- Chunks \X Writers, kept <- OnDisk, used <- InUse, ending <- outcome
KeepsContract == Contract!Spec

\* An abort ends the call: no thread is left waiting for another.
AbortEnds == abort ~> outcome # "none"
-----------------------------------------------------------------------------
(* The inductive invariant behind the safety properties.                   *)

Holding(s) == wpc[s] \notin {"loop", "take", "gone"}
Waiting(s) == wpc[s] \in {"wait", "fixwait"}

\* A chunk is in the queue or held by at most one worker.
HoldInv ==
  /\ \A s \in Slots : Holding(s) <=> wchunk[s] # NoChunk
  /\ \A s \in Slots : wchunk[s] \notin todo
  /\ \A s, t \in Slots : s # t /\ wchunk[s] = wchunk[t] => wchunk[s] = NoChunk

\* A choke verdict is about a chunk the snapshot saw.
ViewInv == rpc = "choke" => view # NoChunk

\* rc is final once the worker has it.
ReapedInv ==
  \A s \in Slots :
    wpc[s] \in {"reaped", "judge"} => ps[<<wchunk[s], "encode">>] \in Exited

\* An encoder that runs unsignalled is in active_procs while its worker waits.
RegisteredInv ==
  \A s \in Slots :
    Waiting(s) /\ ps[MyProc(s)] = "live" => active[s] = MyProc(s)

\* After the sweep of an abort no worker waits for an unsignalled encoder.
SweptInv ==
  abort /\ rpc # "sweep" /\ gpc # "sweep" =>
    \A s \in Slots : Waiting(s) => ps[MyProc(s)] # "live"

\* ffmpeg starts on a free .part name.
FreePartInv ==
  \A s \in Slots : wpc[s] \in {"spawn", "fixspawn"} => part[wchunk[s]] = "none"

\* A chunk still being worked on has no enc file that a rename could replace.
DiskInv ==
  /\ \A c \in todo : enc[c] = "none"
  /\ \A s \in Slots :
       Holding(s) /\ ~(wpc[s] = "judge" /\ ps[<<wchunk[s], "encode">>] = "ok")
         => enc[wchunk[s]] = "none"

\* The conjunction that every step preserves; the named properties follow.
IInv ==
  /\ TypeOK /\ GuardInv /\ ViewInv /\ HoldInv
  /\ ReapedInv /\ RegisteredInv /\ SweptInv /\ DiskInv
  /\ ~RenameFails => FreePartInv /\ BytesPreserved
  /\ ~FixRaises => SupervisedEncoders
-----------------------------------------------------------------------------
(* The inductive invariant behind the return value and the exit code.      *)

\* A missing chunk is queued, held or recorded as failed, and one recorded as
\* failed stays missing.
MissingInv ==
  /\ \A c \in Remaining :
       c \in todo \/ (\E s \in Slots : wchunk[s] = c) \/ <<c, 1>> \in results
  /\ \A c \in Chunks : <<c, 1>> \in results =>
       /\ c \in Remaining /\ c \notin todo
       /\ \A s \in Slots : wchunk[s] # c

\* An encoder that succeeds has written a .part, which is there until the
\* worker renames it.
PartInv ==
  /\ \A c \in todo : <<c, "encode">> \notin wrote
  /\ \A p \in Procs : ps[p] = "ok" => p \in wrote
  /\ \A s \in Slots : LET c == wchunk[s] IN
       /\ wpc[s] \in {"prep", "spawn"} => <<c, "encode">> \notin wrote
       /\ wpc[s] \in {"register", "wait", "reaped"} =>
            (<<c, "encode">> \in wrote => part[c] # "none")
       /\ wpc[s] = "judge" =>
            (ps[<<c, "encode">>] = "ok" => enc[c] # "none")
       /\ wpc[s] = "fixwalk" => part[c] # "none"

\* Workers leave when the queue is empty, or when told to; the orchestrator
\* goes on without them and without the render thread.
LeaveInv ==
  /\ ~FinishCancels /\ ~abort /\ ~finish =>
       \A s \in Slots : wpc[s] = "gone" => todo = {}
  /\ mpc # "join" => rpc = "gone" /\ \A s \in Slots : wpc[s] = "gone"
  /\ ~FinishCancels /\ mpc = "finish" => finish \/ todo = {}
  /\ outcome # "none" <=> mpc = "exited"

\* What collect_skipped found stays true.
SkipInv ==
  /\ mpc \in {"quality", "size", "finish", "exited"} =>
       skipped = {c \in choked : enc[c] = "none"}
  /\ mpc \in {"join", "guard", "collect"} => skipped = {}
  /\ ~RenameFails => \A c \in skipped : part[c] = "none"

\* Each abort has its cause on record, and nobody decides after the drain.
Cause(c) ==
  decision[c] = "abort" \/ (decision[c] = "infra-fail" /\ infra = InfraLimit)
CauseInv ==
  /\ sized => abort
  /\ rpc = "sweep" => sized
  /\ abort => sized \/ qinfo # NoChunk
  /\ gpc \in {"flag", "sweep"} => qinfo = gcur
  /\ gpc = "notify" => Cause(gcur)
  /\ qinfo # NoChunk => gaborted /\ Cause(qinfo)
  /\ gaborted => gpc = "notify" \/ qinfo # NoChunk
  /\ gaborted /\ gpc \notin {"notify", "flag"} => abort
  /\ \A c \in Chunks : decision[c] = "abort" => gaborted
  /\ ~StopTimesOut =>
       /\ mpc \notin {"join", "guard"} => gpc = "gone"
       /\ mpc \in {"size", "finish"} => qinfo = NoChunk
       /\ mpc = "finish" => ~abort

\* A chunk of this run is on its way to the guard, in its queue, judged, or
\* past an abort; the sentinel comes last.
JudgedInv ==
  GuardOn =>
    /\ gpc \in {"idle", "gone"} => gcur = NoChunk
    /\ gpc = "gone" => mpc # "join" /\ gq = << >>
    /\ \A i \in 1..Len(gq) :
         gq[i] = Sentinel => mpc # "join" /\ i = Len(gq)
    /\ \A c \in Chunks : enc[c] \in {"encode", "fix"} =>
         \/ gaborted \/ decision[c] # "none" \/ gcur = c
         \/ \E i \in 1..Len(gq) : gq[i] = c
         \/ \E s \in Slots : wpc[s] = "judge" /\ wchunk[s] = c

ReturnInv ==
  /\ MissingInv /\ PartInv /\ LeaveInv /\ SkipInv /\ CauseInv /\ JudgedInv
  /\ ~StopTimesOut => ExitMatchesCause /\ ReturnedChunksAreJudged
  /\ ~FinishCancels => EmptyReturnIsComplete
  /\ ~FinishCancels /\ ~RenameFails => SkipsAreDocumented

\* Both together: what every reachable state of the encoder looks like.
EncodeInv == IInv /\ ReturnInv
=============================================================================
