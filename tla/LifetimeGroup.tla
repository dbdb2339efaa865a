--------------------------- MODULE LifetimeGroup ---------------------------
(***************************************************************************)
(* How the encoders of a POSIX run die with it: _LifetimeGroup in the      *)
(* orchestrator, whose worker threads start encoders and whose main thread *)
(* cleans up at exit and in its signal handlers, and the sidecar watchdog  *)
(* that is told of every encoder through a pipe and reaps them when the    *)
(* orchestrator has died without cleaning up.                              *)
(*                                                                         *)
(* Nothing masks the signals: a second one runs the handler within the     *)
(* first one's cleanup, and its sys.exit cuts that cleanup off.            *)
(*                                                                         *)
(* An encoder is named by its pid; pids are not reused here.               *)
(***************************************************************************)
EXTENDS Naturals, Sequences, FiniteSets, SequencesExt

CONSTANTS
  Workers,
  MaxPids,     \* bound: encoders started
  HardKill,    \* the orchestrator may be killed with SIGKILL
  Signals      \* it may get SIGTERM, SIGHUP, SIGQUIT and SIGINT

ASSUME LifetimeAssumption ==
  MaxPids \in Nat /\ {HardKill, Signals} \subseteq BOOLEAN

Pids == 1..MaxPids
NoPid == 0
Quit == MaxPids + 1      \* QUIT_SENTINEL

VARIABLES
  running,    \* encoders that run
  started,    \* the last pid given out
  at, pid,    \* each worker's step and its encoder
  pids,       \* _LifetimeGroup.pids
  pipe, open, \* the watchdog's stdin: kernel buffer, write end open
  main,       \* the orchestrator's main thread
  batch,      \* the pids a _cleanup is killing
  interrupted,\* a signal ended the call: the daemon workers go on meanwhile
  exiting,    \* the _cleanup of atexit has begun
  cut,        \* history: pids whose _cleanup was cut before its SIGKILL
  wd,         \* the watchdog
  lines,      \* what readline has read ahead
  pgids,      \* the groups it has learned
  secured,    \* history: pids for which add returned before a teardown
  missed      \* history: told and unread when the watchdog looked last

workVars == <<running, started, at, pid>>
mainVars == <<pids, main, batch, interrupted, exiting, cut>>
wdVars   == <<wd, lines, pgids, missed>>
pipeVars == <<pipe, open>>
vars == <<workVars, mainVars, wdVars, pipeVars, secured>>

Alive == main # "dead"
Teardowns == {"copied", "clear", "term", "kill", "quit", "close"}
Mains == {"up", "leaving", "dead"} \cup Teardowns

TypeOK ==
  /\ {running, pids, batch, cut, pgids, secured, missed} \subseteq
       SUBSET Pids
  /\ started \in 0..MaxPids
  /\ at \in [Workers -> {"idle", "add", "tell", "wait"}]
  /\ pid \in [Workers -> Pids \cup {NoPid}]
  /\ {pipe, lines} \subseteq Seq(Pids \cup {Quit})
  /\ {open, interrupted, exiting} \subseteq BOOLEAN
  /\ main \in Mains
  /\ wd \in {"none", "select", "closed", "look", "kill", "gone"}

\* A spawn of the watchdog that fails leaves the run without one.
Init ==
  /\ running = {} /\ started = 0
  /\ at = [w \in Workers |-> "idle"] /\ pid = [w \in Workers |-> NoPid]
  /\ pids = {} /\ main = "up" /\ batch = {} /\ cut = {}
  /\ interrupted = FALSE /\ exiting = FALSE
  /\ pipe = << >>
  /\ wd \in {"none", "select"} /\ open = (wd # "none")
  /\ lines = << >> /\ pgids = {}
  /\ secured = {} /\ missed = {}

(***************************************************************************)
(* The worker threads.                                                     *)
(***************************************************************************)
\* They take chunks until the work is done; a signal does not stop them, an
\* exit that begins after their end finds none.
WorkersRun == main = "up" \/ (Alive /\ interrupted)

\* Popen
Spawn(w) ==
  /\ WorkersRun /\ at[w] = "idle" /\ started < MaxPids
  /\ started' = started + 1
  /\ running' = running \cup {started'}
  /\ pid' = [pid EXCEPT ![w] = started']
  /\ at' = [at EXCEPT ![w] = "add"]
  /\ UNCHANGED <<mainVars, wdVars, pipeVars, secured>>

\* register_proc, assign_to_lifetime_group, add
Add(w) ==
  /\ Alive /\ at[w] = "add"
  /\ pids' = pids \cup {pid[w]}
  /\ at' = [at EXCEPT ![w] = "tell"]
  /\ UNCHANGED <<running, started, pid, main, batch, interrupted, exiting, cut,
                 wdVars, pipeVars, secured>>

\* What the watchdog was told and has not learned.
Unread == ToSet(pipe) \cup ToSet(lines)

\* _tell_watchdog: silent when the pipe is closed or nobody reads.
TellWatchdog(message) ==
  pipe' = IF open /\ wd # "gone" THEN Append(pipe, message) ELSE pipe

Tell(w) ==
  /\ Alive /\ at[w] = "tell"
  /\ TellWatchdog(pid[w])
  /\ secured' = IF main = "up" THEN secured \cup {pid[w]} ELSE secured
  /\ at' = [at EXCEPT ![w] = "wait"]
  /\ UNCHANGED <<running, started, pid, mainVars, wdVars, open>>

EncoderEnds(p) ==
  /\ p \in running
  /\ running' = running \ {p}
  /\ UNCHANGED <<started, at, pid, mainVars, wdVars, pipeVars, secured>>

\* wait returns; the worker is ready for the next chunk.
Reap(w) ==
  /\ Alive /\ at[w] = "wait" /\ pid[w] \notin running
  /\ at' = [at EXCEPT ![w] = "idle"]
  /\ pid' = [pid EXCEPT ![w] = NoPid]
  /\ UNCHANGED <<running, started, mainVars, wdVars, pipeVars, secured>>

(***************************************************************************)
(* The main thread.                                                        *)
(***************************************************************************)
\* The workers have ended: atexit calls _cleanup.
ExitNormally ==
  /\ main = "up" /\ \A w \in Workers : at[w] = "idle"
  /\ main' = "copied" /\ exiting' = TRUE
  /\ UNCHANGED <<workVars, pids, batch, interrupted, cut, wdVars, pipeVars,
                 secured>>

\* What is cut off while kill_groups works on its batch: the pids are in no
\* set any more.
CutOff ==
  /\ cut' = IF main \in {"term", "kill"} THEN cut \cup batch ELSE cut
  /\ batch' = {}

\* The process is gone, its threads and its memory with it.
Die ==
  /\ main' = "dead" /\ open' = FALSE
  /\ at' = [w \in Workers |-> "idle"] /\ pid' = [w \in Workers |-> NoPid]
  /\ pids' = {} /\ batch' = {}

\* SIGTERM, SIGHUP or SIGQUIT, at any moment: the handler calls _cleanup,
\* and the sys.exit that follows ends whatever _cleanup it came into.
Signal ==
  /\ Signals /\ Alive
  /\ main' = "copied" /\ interrupted' = TRUE /\ CutOff
  /\ UNCHANGED <<workVars, pids, exiting, wdVars, pipeVars, secured>>

\* SIGINT: KeyboardInterrupt, out of the call or out of a _cleanup ...
Interrupt ==
  /\ Signals /\ Alive /\ main # "leaving" /\ ~exiting
  /\ main' = "leaving" /\ interrupted' = TRUE /\ CutOff
  /\ UNCHANGED <<workVars, pids, exiting, wdVars, pipeVars, secured>>

\* ... and out of that of atexit, after which nothing is left to run.
InterruptExit ==
  /\ Signals /\ Alive /\ exiting
  /\ Die /\ CutOff
  /\ UNCHANGED <<running, started, interrupted, exiting, wdVars, pipe, secured>>

\* Faulty variant: without list() the batch is emptied together with the set.
CopyPidsAliased ==
  /\ main = "copied"
  /\ batch' = {}
  /\ main' = "clear"
  /\ UNCHANGED <<workVars, pids, interrupted, exiting, cut, wdVars, pipeVars,
                 secured>>

\* pids = list(self.pids)
CopyPids ==
  /\ main = "copied"
  /\ batch' = pids
  /\ main' = "clear"
  /\ UNCHANGED <<workVars, pids, interrupted, exiting, cut, wdVars, pipeVars,
                 secured>>

\* self.pids.clear()
ClearPids ==
  /\ main = "clear"
  /\ pids' = {}
  /\ main' = "term"
  /\ UNCHANGED <<workVars, batch, interrupted, exiting, cut, wdVars,
                 pipeVars, secured>>

\* kill_groups: SIGTERM, which an encoder may outlast ...
TermGroups(groups) ==
  \E obeying \in SUBSET (running \cap groups) : running' = running \ obeying

Terminate ==
  /\ main = "term"
  /\ TermGroups(batch)
  /\ main' = "kill"
  /\ UNCHANGED <<started, at, pid, pids, batch, interrupted, exiting, cut,
                 wdVars, pipeVars, secured>>

\* Faulty variant: no SIGKILL after the grace.
KillGroupsNever(groups) == running' = running

\* ... and after the grace SIGKILL.
KillGroups(groups) == running' = running \ groups

KillSurvivors ==
  /\ main = "kill"
  /\ KillGroups(batch)
  /\ main' = "quit" /\ batch' = {}
  /\ UNCHANGED <<started, at, pid, pids, interrupted, exiting, cut, wdVars,
                 pipeVars, secured>>

\* A QUIT behind another one would never be read.
DismissWatchdog ==
  /\ main = "quit"
  /\ IF Quit \in Unread THEN UNCHANGED pipe ELSE TellWatchdog(Quit)
  /\ main' = "close"
  /\ UNCHANGED <<workVars, pids, batch, interrupted, exiting, cut, wdVars, open,
                 secured>>

\* The pipe is closed.  After a handler comes sys.exit; after the _cleanup of
\* atexit the end.
ClosePipe ==
  /\ main = "close"
  /\ IF exiting THEN Die ELSE /\ main' = "leaving" /\ open' = FALSE
                            /\ UNCHANGED <<at, pid, pids, batch>>
  /\ UNCHANGED <<running, started, interrupted, exiting, cut, wdVars, pipe,
                 secured>>

\* Out of the call: atexit calls _cleanup once more.
SecondCleanup ==
  /\ main = "leaving"
  /\ main' = "copied" /\ exiting' = TRUE
  /\ UNCHANGED <<workVars, pids, batch, interrupted, cut, wdVars, pipeVars,
                 secured>>

\* kill -9, at any moment.
KilledHard ==
  /\ HardKill /\ Alive
  /\ Die
  /\ UNCHANGED <<running, started, interrupted, exiting, cut, wdVars, pipe,
                 secured>>

(***************************************************************************)
(* The watchdog.                                                           *)
(***************************************************************************)
\* select sees the kernel's buffer, not what readline has read ahead.
Readable == pipe # << >> \/ ~open

Learn(line) ==
  IF line = Quit THEN wd' = "gone" /\ UNCHANGED pgids
                 ELSE UNCHANGED wd /\ pgids' = pgids \cup {line}

\* select reports data or the end of file; readline returns one line.
ReadLine ==
  /\ wd = "select" /\ Readable
  /\ LET ahead == IF lines = << >> THEN pipe ELSE lines
     IN  IF ahead = << >>
         THEN wd' = "closed" /\ UNCHANGED <<pipe, lines, pgids>>
         ELSE /\ Learn(Head(ahead))
              /\ lines' = Tail(ahead)
              /\ pipe' = IF lines = << >> THEN << >> ELSE pipe
  /\ UNCHANGED <<workVars, mainVars, missed, open, secured>>

\* The poll interval is over.
SelectTimesOut ==
  /\ wd = "select" /\ ~Readable
  /\ wd' = "look"
  /\ UNCHANGED <<workVars, mainVars, lines, pgids, missed, pipeVars, secured>>

\* Faulty variant: getpid is compared, which never changes.
ParentGoneNever == FALSE

\* getppid() != orig_ppid
ParentGone == ~Alive

\* After a timeout and, once the pipe is closed, after every sleep.  What is
\* unread then is lost: lines that readline has read ahead, however long ago
\* they came, and lines that came since select gave up.
LookAtParent ==
  /\ wd \in {"look", "closed"}
  /\ IF ParentGone
     THEN /\ TermGroups(pgids)
          /\ wd' = "kill"
          /\ missed' = Unread \ {Quit}
     ELSE /\ wd' = IF wd = "look" THEN "select" ELSE "closed"
          /\ UNCHANGED <<running, missed>>
  /\ UNCHANGED <<started, at, pid, mainVars, lines, pgids, pipeVars, secured>>

WatchdogKills ==
  /\ wd = "kill"
  /\ KillGroups(pgids)
  /\ wd' = "gone"
  /\ UNCHANGED <<started, at, pid, mainVars, lines, pgids, missed, pipeVars,
                 secured>>

Worker(w) == Spawn(w) \/ Add(w) \/ Tell(w) \/ Reap(w)
Cleanup ==
  \/ CopyPids \/ ClearPids \/ Terminate \/ KillSurvivors \/ DismissWatchdog
  \/ ClosePipe \/ SecondCleanup
Watchdog == ReadLine \/ SelectTimesOut \/ LookAtParent \/ WatchdogKills

Next ==
  \/ \E w \in Workers : Worker(w)
  \/ \E p \in Pids : EncoderEnds(p)
  \/ ExitNormally \/ Signal \/ Interrupt \/ InterruptExit \/ KilledHard
  \/ Cleanup \/ Watchdog
Spec == Init /\ [][Next]_vars

\* The main thread gets on with its cleanup, the watchdog polls.
FairSpec == Spec /\ WF_vars(Cleanup) /\ WF_vars(Watchdog)

(***************************************************************************)
(* Properties.                                                             *)
(***************************************************************************)
\* Nobody is left who would reap an encoder.
Over == main = "dead" /\ wd = "gone"

\* However the orchestrator ends, by itself, by signals or by SIGKILL in the
\* middle of its own teardown, an encoder whose registration was complete
\* before the teardown does not outlive it and its watchdog, with two
\* exceptions.  One is an encoder that the watchdog had been told of and had
\* not taken out of its reader when it looked last (run).  The other is one
\* that a _cleanup had taken over when a second signal cut it off before its
\* SIGKILL, against "Idempotent - safe to call multiple times" (_cleanup).
SecuredAreReaped == Over => running \cap secured \subseteq missed \cup cut

\* The watchdog does not outlive its orchestrator for long, with or without a
\* QUIT (run: "exits", "nor leaves this watchdog lingering").
WatchdogLeaves == main = "dead" ~> wd \in {"none", "gone"}

(***************************************************************************)
(* The inductive invariant behind SecuredAreReaped.                        *)
(***************************************************************************)
Held == running \cap secured

\* A pid is in use once it was given out; an encoder that is being told of is
\* in the set a teardown will copy.
SpawnInv ==
  /\ running \cup secured \subseteq 1..started
  /\ \A w \in Workers :
       /\ at[w] # "idle" => pid[w] \in 1..started
       /\ at[w] = "tell" /\ main = "up" => pid[w] \in pids

\* The orchestrator's cleanup has every secured encoder in hand or has reaped
\* it, but for those of a cleanup that was cut off.
CleanupInv ==
  /\ main = "up" => secured \subseteq pids
  /\ main \in {"copied", "leaving"} => Held \subseteq pids \cup cut
  /\ main = "clear" => batch \subseteq pids
  /\ main \in {"clear", "term", "kill"} => Held \subseteq batch \cup cut
  /\ main \in {"quit", "close"} => Held \subseteq cut

\* The watchdog knows of every secured encoder, or has been told; it is
\* dismissed only when they are reaped or cut off.  Once it has seen the pipe
\* closed there is nothing it could miss.
WatchdogInv ==
  /\ wd \in {"select", "closed", "look"} => Held \subseteq pgids \cup Unread
  /\ wd = "closed" => Unread = {} /\ ~open
  /\ wd = "kill" => main = "dead" /\ Held \subseteq pgids \cup missed
  /\ wd = "gone" => main # "up" /\ Held \subseteq missed \cup cut
  /\ Quit \in Unread => main # "up" /\ Held \subseteq cut
  /\ main = "up" /\ wd # "none" => open

LifetimeInv == TypeOK /\ SpawnInv /\ CleanupInv /\ WatchdogInv
=============================================================================
