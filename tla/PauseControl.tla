---------------------------- MODULE PauseControl ----------------------------
(***************************************************************************)
(* Pausing encoders (encode_modules/pause_control.py).  The keyboard       *)
(* thread toggles slots and resumes all of them, the render thread follows *)
(* the PAUSE file, the orchestrator resumes all after its joins; workers   *)
(* go from ffmpeg to ffmpeg meanwhile, and the guards terminate encoders.  *)
(* Each pause operation reads display under its lock, signals a pid        *)
(* without the lock, and notes the result under the lock.                  *)
(*                                                                         *)
(* platform_compat has two backends.  SIGSTOP and SIGCONT set and clear    *)
(* the stopped state, reach a process that has exited until it is waited   *)
(* for, and leave a SIGTERM pending while it is stopped.  On Windows       *)
(* suspensions are counted, fail on a process that has exited, and         *)
(* TerminateProcess ends a suspended process.                              *)
(***************************************************************************)
EXTENDS Naturals, FiniteSets

CONSTANTS
  Slots,        \* worker threads there may be
  Chunks,       \* how many chunks there are to encode, each by one ffmpeg
  MaxStops,     \* bound: suspensions counted on one process
  Platforms,    \* the backends considered
  NoProc        \* no ffmpeg

ASSUME PauseAssumption ==
  /\ Chunks \in Nat \ {0} /\ MaxStops \in Nat \ {0}
  /\ Platforms \subseteq {"posix", "windows"}
  /\ NoProc \notin 1..Chunks

VARIABLES
  platform,  \* the backend of this run
  typing,    \* somebody uses the pause keys in this run
  wpc,       \* where each worker is
  proc,      \* the ffmpeg each worker is driving
  begun,     \* how many chunks have been taken
  ps,        \* state of each ffmpeg
  stops,     \* how often it is suspended: it runs when this is 0
  term,      \* ffmpegs that were sent SIGTERM
  active,    \* display.active_procs
  paused,    \* display.paused_slots
  mismarked, \* history: slots marked paused while their ffmpeg was not stopped
  clock,     \* slots[s].paused_at: no slot state, ticking, or frozen
  abort,     \* abort_event, and whether its terminate sweep is done
  file,      \* the PAUSE file exists
  filePaused,\* display._file_paused
  op,        \* the pause operation each thread is in, if any
  mpc        \* where the orchestrator is

workVars == <<wpc, proc, begun>>
procVars == <<ps, stops, term>>
marks == <<paused, mismarked>>
dispVars == <<active, marks, clock>>
fileVars == <<file, filePaused>>
setup == <<platform, typing>>
vars == <<setup, workVars, procVars, dispVars, abort, fileVars, op, mpc>>

Procs == 1..Chunks
Agents == {"keys", "render", "main"}
Targets == Slots \X (Procs \cup {NoProc})
NoOp == [kind |-> "none", todo |-> {}, sent |-> {}]

TypeOK ==
  /\ platform \in Platforms /\ typing \in BOOLEAN
  /\ wpc \in [Slots -> {"next", "launched", "wait", "reaped", "gone"}]
  /\ proc \in [Slots -> Procs \cup {NoProc}]
  /\ begun \in 0..Chunks
  /\ ps \in [Procs -> {"unborn", "alive", "zombie", "reaped"}]
  /\ stops \in [Procs -> 0..MaxStops]
  /\ term \subseteq Procs
  /\ active \in [Slots -> Procs \cup {NoProc}]
  /\ paused \subseteq Slots /\ mismarked \subseteq paused
  /\ clock \in [Slots -> {"none", "ticks", "frozen"}]
  /\ abort \in {"no", "flagged", "swept"}
  /\ file \in BOOLEAN /\ filePaused \in BOOLEAN
  /\ op \in [Agents -> [kind : {"none", "pause", "resume"},
                        todo : SUBSET Targets, sent : SUBSET Targets]]
  /\ mpc \in {"join", "resume", "done"}

\* --parallel may be anything up to the number of Slots.  Keys are there on
\* Windows always and on POSIX with a terminal; nobody need use them.
Init ==
  /\ platform \in Platforms /\ typing \in BOOLEAN
  /\ \E W \in SUBSET Slots \ {{}} :
       wpc = [s \in Slots |-> IF s \in W THEN "next" ELSE "gone"]
  /\ proc = [s \in Slots |-> NoProc]
  /\ begun = 0
  /\ ps = [p \in Procs |-> "unborn"]
  /\ stops = [p \in Procs |-> 0]
  /\ term = {} /\ paused = {} /\ mismarked = {}
  /\ active = [s \in Slots |-> NoProc]
  /\ clock = [s \in Slots |-> "none"]
  /\ abort = "no"
  /\ file \in BOOLEAN /\ filePaused = FALSE
  /\ op = [a \in Agents |-> NoOp]
  /\ mpc = "join"

Stopped(p) == stops[p] > 0

\* The slot is no longer marked paused.
Unmark(s) == paused' = paused \ {s} /\ mismarked' = mismarked \ {s}

Goto(s, pc) == wpc' = [wpc EXCEPT ![s] = pc]

\* proc.terminate() on the processes P that have not exited.
Terminate(P) ==
  LET Q == {p \in P : p \in Procs /\ ps[p] = "alive"} IN
  /\ term' = term \cup Q
  /\ ps' = IF platform = "windows"
             THEN [p \in Procs |-> IF p \in Q THEN "zombie" ELSE ps[p]]
             ELSE ps
  /\ stops' = IF platform = "windows"
                THEN [p \in Procs |-> IF p \in Q THEN 0 ELSE stops[p]]
                ELSE stops

-----------------------------------------------------------------------------
(* Worker threads and their ffmpegs.                                       *)

WorkerRest == <<setup, abort, fileVars, op, mpc>>

\* The loop head takes a chunk; slot_start makes a fresh SlotState; Popen.
Launch(s) ==
  /\ wpc[s] = "next" /\ abort = "no" /\ begun < Chunks
  /\ begun' = begun + 1
  /\ proc' = [proc EXCEPT ![s] = begun']
  /\ ps' = [ps EXCEPT ![begun'] = "alive"]
  /\ clock' = [clock EXCEPT ![s] = "ticks"]
  /\ Goto(s, "launched")
  /\ UNCHANGED <<WorkerRest, stops, term, active, marks>>

Leave(s) ==
  /\ wpc[s] = "next" /\ (abort # "no" \/ begun = Chunks)
  /\ Goto(s, "gone")
  /\ UNCHANGED <<WorkerRest, procVars, proc, begun, dispVars>>

\* Faulty variant: the slot keeps the paused mark of its last ffmpeg.
RegisterKeepingPause(s) ==
  /\ wpc[s] = "launched"
  /\ IF abort # "no"
       THEN Terminate({proc[s]}) /\ UNCHANGED active
       ELSE active' = [active EXCEPT ![s] = proc[s]] /\ UNCHANGED procVars
  /\ Goto(s, "wait")
  /\ UNCHANGED <<WorkerRest, proc, begun, marks, clock>>

\* register_proc: a new ffmpeg in the slot starts unsuspended.
Register(s) ==
  /\ wpc[s] = "launched"
  /\ IF abort # "no"
       THEN Terminate({proc[s]}) /\ UNCHANGED <<active, marks>>
       ELSE /\ active' = [active EXCEPT ![s] = proc[s]]
            /\ Unmark(s)
            /\ UNCHANGED procVars
  /\ Goto(s, "wait")
  /\ UNCHANGED <<WorkerRest, proc, begun, clock>>

\* ffmpeg ends, by itself or on SIGTERM; a stopped one cannot.
Exit(p) ==
  /\ ps[p] = "alive" /\ ~Stopped(p)
  /\ ps' = [ps EXCEPT ![p] = "zombie"]
  /\ UNCHANGED <<WorkerRest, workVars, stops, term, dispVars>>

\* proc.wait() returns and the process is gone for good.
Wait(s) ==
  /\ wpc[s] = "wait" /\ ps[proc[s]] = "zombie"
  /\ ps' = [ps EXCEPT ![proc[s]] = "reaped"]
  /\ Goto(s, "reaped")
  /\ UNCHANGED <<WorkerRest, proc, begun, stops, term, dispVars>>

\* Faulty variant: the slot is unregistered before its ffmpeg has ended.
UnregisterEarly(s) ==
  /\ wpc[s] \in {"wait", "reaped"}
  /\ active' = [active EXCEPT ![s] = NoProc]
  /\ proc' = [proc EXCEPT ![s] = NoProc]
  /\ clock' = [clock EXCEPT ![s] = "none"]
  /\ Goto(s, "next")
  /\ UNCHANGED <<WorkerRest, procVars, begun, marks>>

\* unregister_proc, then slot_done, slot_failed or the pop of the slot.
Unregister(s) ==
  /\ wpc[s] = "reaped"
  /\ active' = [active EXCEPT ![s] = NoProc]
  /\ proc' = [proc EXCEPT ![s] = NoProc]
  /\ clock' = [clock EXCEPT ![s] = "none"]
  /\ Goto(s, "next")
  /\ UNCHANGED <<WorkerRest, procVars, begun, marks>>

Worker(s) == \/ Launch(s) \/ Leave(s) \/ Register(s)
             \/ Wait(s) \/ Unregister(s)

-----------------------------------------------------------------------------
(* Guards.                                                                 *)

GuardRest == <<setup, workVars, dispVars, fileVars, op, mpc>>

\* The size guard or the VMAF guard, which may run at any time.
Abort ==
  /\ abort = "no" /\ mpc = "join"
  /\ abort' = "flagged"
  /\ UNCHANGED <<GuardRest, procVars>>

\* Faulty variant: the sweep leaves paused slots alone.
SweepRunning ==
  /\ abort = "flagged"
  /\ Terminate({active[s] : s \in Slots \ paused})
  /\ abort' = "swept"
  /\ UNCHANGED GuardRest

Sweep ==
  /\ abort = "flagged"
  /\ Terminate({active[s] : s \in Slots})
  /\ abort' = "swept"
  /\ UNCHANGED GuardRest

\* check_choke, on the render thread between two pause operations.
Choke(s) ==
  /\ op["render"] = NoOp /\ mpc # "done" /\ abort = "no"
  /\ clock[s] # "none" /\ active[s] # NoProc /\ active[s] \notin term
  /\ Terminate({active[s]})
  /\ UNCHANGED <<GuardRest, abort>>

-----------------------------------------------------------------------------
(* Pause operations: a snapshot under the lock, then signal and note, one  *)
(* slot after another.                                                     *)

OpRest == <<setup, workVars, ps, term, active, abort, file, mpc>>

Start(a, kind, targets) ==
  op' = [op EXCEPT ![a] = IF targets = {} THEN NoOp ELSE
                          [kind |-> kind, todo |-> targets, sent |-> {}]]

\* suspend_pid and resume_pid succeed on p.
Reachable(p) == ps[p] = "alive" \/ (platform = "posix" /\ ps[p] = "zombie")

Signalled(kind, n) ==
  CASE kind = "pause"  -> IF platform = "posix" \/ n = MaxStops THEN
                            (IF n = 0 THEN 1 ELSE n) ELSE n + 1
    [] kind = "resume" -> IF platform = "posix" \/ n = 0 THEN 0 ELSE n - 1

\* The thread is done with t; the operation ends with its last target.
Drop(a, t) ==
  LET rest == op[a].todo \ {t} IN
  op' = [op EXCEPT ![a] = IF rest = {} THEN NoOp ELSE
                          [@ EXCEPT !.todo = rest, !.sent = {}]]

\* The signal is sent; a resume of an idle slot only forgets the slot.
Signal(a) ==
  /\ op[a] # NoOp /\ op[a].sent = {}
  /\ \E t \in op[a].todo : LET s == t[1] p == t[2] IN
       CASE p = NoProc ->
              Unmark(s) /\ Drop(a, t) /\ UNCHANGED <<stops, clock>>
         [] p # NoProc /\ Reachable(p) ->
              /\ stops' = [stops EXCEPT ![p] =
                   IF ps[p] = "alive" THEN Signalled(op[a].kind, @) ELSE @]
              /\ op' = [op EXCEPT ![a].sent = {t}]
              /\ UNCHANGED <<marks, clock>>
         [] OTHER -> Drop(a, t) /\ UNCHANGED <<stops, marks, clock>>
  /\ UNCHANGED <<OpRest, filePaused>>

\* Back under the lock: mark_pause_start or settle_pause_elapsed.
Note(a) ==
  \E t \in op[a].sent : LET s == t[1] p == t[2] IN
    /\ IF op[a].kind = "pause"
         THEN /\ paused' = paused \cup {s}
              /\ mismarked' = IF active[s] = p /\ Stopped(p)
                              THEN mismarked \ {s} ELSE mismarked \cup {s}
              /\ clock' = [clock EXCEPT ![s] = IF @ = "none" THEN @ ELSE "frozen"]
         ELSE /\ Unmark(s)
              /\ clock' = [clock EXCEPT ![s] = IF @ = "frozen" THEN "ticks" ELSE @]
    /\ Drop(a, t)
    /\ UNCHANGED <<OpRest, stops, filePaused>>

Registered == {s \in Slots : active[s] # NoProc}
InSlots(S) == {<<s, active[s]>> : s \in S}

\* Space or a digit.
Toggle(s) ==
  /\ typing /\ op["keys"] = NoOp /\ mpc # "done" /\ s \in Registered
  /\ Start("keys", IF s \in paused THEN "resume" ELSE "pause", InSlots({s}))
  /\ UNCHANGED <<OpRest, stops, marks, clock, filePaused>>

\* The r key.
ResumeAll ==
  /\ typing /\ op["keys"] = NoOp /\ mpc # "done" /\ paused # {}
  /\ Start("keys", "resume", InSlots(paused))
  /\ UNCHANGED <<OpRest, stops, marks, clock, filePaused>>

\* Faulty variant: the file is honoured when it appears, and never again.
FilePauseOnce ==
  /\ op["render"] = NoOp /\ mpc # "done" /\ file /\ ~filePaused
  /\ Start("render", "pause", InSlots(Registered \ paused))
  /\ filePaused' = TRUE
  /\ UNCHANGED <<OpRest, stops, marks, clock>>

\* sync_file_pause on a tick that finds the file: pause_all, every time.
FilePause ==
  /\ op["render"] = NoOp /\ mpc # "done" /\ file
  /\ Start("render", "pause", InSlots(Registered \ paused))
  /\ filePaused' = TRUE
  /\ UNCHANGED <<OpRest, stops, marks, clock>>

\* Faulty variant: nobody is resumed when the file goes.
FileForget ==
  /\ op["render"] = NoOp /\ mpc # "done" /\ ~file /\ filePaused
  /\ filePaused' = FALSE
  /\ UNCHANGED <<OpRest, stops, marks, clock, op>>

\* ... and on the first tick that no longer finds it: resume_all.
FileResume ==
  /\ op["render"] = NoOp /\ mpc # "done" /\ ~file /\ filePaused
  /\ Start("render", "resume", InSlots(paused))
  /\ filePaused' = FALSE
  /\ UNCHANGED <<OpRest, stops, marks, clock>>

UserFile ==
  /\ mpc # "done"
  /\ file' = ~file
  /\ UNCHANGED <<setup, workVars, procVars, dispVars, abort, filePaused, op,
                 mpc>>

\* The orchestrator joins its workers; only then comes resume_all.
Join ==
  /\ mpc = "join" /\ \A s \in Slots : wpc[s] = "gone"
  /\ Start("main", "resume", InSlots(paused))
  /\ mpc' = "resume"
  /\ UNCHANGED <<setup, workVars, procVars, dispVars, abort, fileVars>>

Finish ==
  /\ mpc = "resume" /\ op["main"] = NoOp
  /\ mpc' = "done"
  /\ UNCHANGED <<setup, workVars, procVars, dispVars, abort, fileVars, op>>

Returned == mpc = "done" /\ UNCHANGED vars

Next ==
  \/ \E s \in Slots : Worker(s) \/ Choke(s) \/ Toggle(s)
  \/ \E p \in Procs : Exit(p)
  \/ \E a \in Agents : Signal(a) \/ Note(a)
  \/ Abort \/ Sweep \/ ResumeAll \/ FilePause \/ FileResume \/ UserFile
  \/ Join \/ Finish \/ Returned

Spec == Init /\ [][Next]_vars

\* Threads keep running and a process that got SIGTERM exits unless it is
\* stopped; no ffmpeg need end by itself, and the user need not do anything.
Fairness ==
  /\ \A s \in Slots : WF_vars(Worker(s))
  /\ \A p \in Procs : WF_vars(p \in term /\ Exit(p))
  /\ \A a \in Agents : WF_vars(Signal(a) \/ Note(a))
  /\ WF_vars(FilePause) /\ WF_vars(FileResume) /\ WF_vars(Sweep)
  /\ WF_vars(Join) /\ WF_vars(Finish)

FairSpec == Spec /\ Fairness
-----------------------------------------------------------------------------
(* Properties.                                                             *)

\* Every key and every sweep finds processes through active_procs: a stopped
\* ffmpeg is always the one registered in its slot, so that somebody can
\* still resume or terminate it, however pauses and chunk boundaries fall.
StoppedIsReachable ==
  \A p \in Procs : Stopped(p) => \E s \in Slots : active[s] = p

\* "keep all active slots suspended while it exists": once the PAUSE file
\* stays and the keys are left alone, every ffmpeg ends up suspended, those of
\* later chunks included, on either backend.  Excepted is a slot marked paused
\* for a signal that missed: it went to an ffmpeg that had exited (POSIX), or a
\* key resumed the ffmpeg before the mark was made.  pause_all skips such a
\* slot until its next chunk.
FilePauseHolds ==
  <>[]file /\ <>[](op["keys"] = NoOp) =>
    <>[](\A s \in Registered :
           Stopped(active[s]) \/ active[s] \in term \/ s \in mismarked)

\* "resume them once it's removed": if nobody types, nothing stays stopped.
FileRemovalReleases ==
  ~typing /\ <>[]~file => <>[](\A p \in Procs : ~Stopped(p))

\* An abort ends the call: on Windows whatever is paused, on POSIX once the
\* PAUSE file is gone and if nobody pauses a slot by key.
AbortEnds ==
  platform = "windows" \/ (~typing /\ <>[]~file) =>
    (abort # "no" ~> mpc = "done")

\* encode_parallel.py on its finally clause: "If the script exits while any
\* slot is paused, the corresponding worker thread is blocked on
\* subprocess.wait() forever. Resume on the way out".  Here without a PAUSE
\* file, which is documented to hold the run, and with a user who walks away.
AbortUnblocksPaused ==
  []~file /\ <>[](op["keys"] = NoOp) => (abort # "no" ~> mpc = "done")
-----------------------------------------------------------------------------
(* The inductive invariant behind StoppedIsReachable.                      *)

\* Chunks are taken one by one, each by one worker.
DriveInv ==
  /\ \A p \in Procs : ps[p] = "unborn" <=> p > begun
  /\ \A s \in Slots :
       /\ wpc[s] \in {"launched", "wait", "reaped"} <=> proc[s] # NoProc
       /\ proc[s] # NoProc => proc[s] <= begun
       /\ wpc[s] = "reaped" => ps[proc[s]] = "reaped"
  /\ \A s, t \in Slots : s # t /\ proc[s] = proc[t] => proc[s] = NoProc

\* active_procs holds what a waiting worker drives.
ActiveInv ==
  \A s \in Slots : active[s] # NoProc =>
    wpc[s] \in {"wait", "reaped"} /\ active[s] = proc[s]

\* What an operation is about to signal is still registered, or gone.
TargetInv ==
  \A a \in Agents : \A t \in op[a].todo :
    t[2] # NoProc => ps[t[2]] = "reaped" \/ active[t[1]] = t[2]

\* A stopped process has not exited.
StoppedInv == \A p \in Procs : Stopped(p) => ps[p] = "alive"

\* A thread with slots left to do pauses or resumes.
KindInv == \A a \in Agents : op[a].kind = "none" => op[a] = NoOp

PauseInv ==
  /\ TypeOK /\ DriveInv /\ ActiveInv /\ KindInv /\ TargetInv /\ StoppedInv
  /\ StoppedIsReachable
=============================================================================
