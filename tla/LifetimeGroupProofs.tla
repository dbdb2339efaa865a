------------------------ MODULE LifetimeGroupProofs ------------------------
(***************************************************************************)
(* Proofs about LifetimeGroup for any set of workers and any number of     *)
(* encoders: LifetimeInv is inductive and implies SecuredAreReaped.        *)
(***************************************************************************)
EXTENDS LifetimeGroup, TLAPS

USE LifetimeAssumption DEF Pids, NoPid, Quit, Mains, Teardowns, Alive

\* Next, one disjunct per action.
LEMMA Actions ==
  ASSUME [Next]_vars
  PROVE
    \/ \E w \in Workers : Spawn(w)
    \/ \E w \in Workers : Add(w)
    \/ \E w \in Workers : Tell(w)
    \/ \E w \in Workers : Reap(w)
    \/ \E p \in Pids : EncoderEnds(p)
    \/ ExitNormally \/ Signal \/ Interrupt \/ InterruptExit \/ KilledHard
    \/ CopyPids \/ ClearPids \/ Terminate \/ KillSurvivors
    \/ DismissWatchdog \/ ClosePipe \/ SecondCleanup
    \/ ReadLine \/ SelectTimesOut \/ LookAtParent \/ WatchdogKills
    \/ UNCHANGED vars
  BY DEF Next, Worker, Cleanup, Watchdog

\* What a pipe holds after a message was put in ...
LEMMA ToSetAppend ==
  ASSUME NEW S, NEW s \in Seq(S), NEW e \in S
  PROVE  ToSet(Append(s, e)) = ToSet(s) \cup {e}
<1> DEFINE n == Len(s)
<1>1. n \in Nat /\ DOMAIN s = 1..n /\ DOMAIN Append(s, e) = 1..(n + 1)
  OBVIOUS
<1>2. Append(s, e)[n + 1] = e /\ \A i \in 1..n : Append(s, e)[i] = s[i]
  OBVIOUS
<1>3. ASSUME NEW x \in ToSet(Append(s, e)) PROVE x \in ToSet(s) \cup {e}
  <2>1. PICK i \in 1..(n + 1) : x = Append(s, e)[i]
    BY <1>1, <1>3 DEF ToSet
  <2>2. CASE i = n + 1
    BY <2>1, <2>2, <1>2
  <2>3. CASE i # n + 1
    <3>1. i \in 1..n /\ x = s[i]
      BY <2>1, <2>3, <1>1, <1>2
    <3>q. QED
      BY <3>1, <1>1 DEF ToSet
  <2>q. QED
    BY <2>2, <2>3
<1>4. ASSUME NEW x \in ToSet(s) PROVE x \in ToSet(Append(s, e))
  <2>1. PICK i \in 1..n : x = s[i]
    BY <1>1, <1>4 DEF ToSet
  <2>2. i \in 1..(n + 1) /\ Append(s, e)[i] = x
    BY <2>1, <1>1, <1>2
  <2>q. QED
    BY <2>2, <1>1 DEF ToSet
<1>5. e \in ToSet(Append(s, e))
  <2>1. n + 1 \in 1..(n + 1)
    BY <1>1
  <2>q. QED
    BY <2>1, <1>1, <1>2 DEF ToSet
<1>q. QED
  BY <1>3, <1>4, <1>5

\* ... and after its first line was taken out.
LEMMA ToSetTail ==
  ASSUME NEW S, NEW s \in Seq(S), s # << >>
  PROVE  /\ ToSet(s) = {Head(s)} \cup ToSet(Tail(s))
         /\ Head(s) \in S /\ Tail(s) \in Seq(S)
<1>1. Head(s) = s[1] /\ Len(s) \in Nat \ {0} /\ DOMAIN s = 1..Len(s)
  OBVIOUS
<1>2. Tail(s) \in Seq(S) /\ DOMAIN Tail(s) = 1..(Len(s) - 1)
  BY <1>1
<1>3. \A i \in 1..(Len(s) - 1) : Tail(s)[i] = s[i + 1]
  BY <1>1
<1>4. ASSUME NEW x \in ToSet(s) PROVE x \in {Head(s)} \cup ToSet(Tail(s))
  <2>1. PICK i \in 1..Len(s) : x = s[i]
    BY <1>1, <1>4 DEF ToSet
  <2>2. CASE i = 1
    BY <2>1, <2>2, <1>1
  <2>3. CASE i # 1
    <3>1. i - 1 \in 1..(Len(s) - 1) /\ Tail(s)[i - 1] = x
      BY <2>1, <2>3, <1>1, <1>3
    <3>q. QED
      BY <3>1, <1>2 DEF ToSet
  <2>q. QED
    BY <2>2, <2>3
<1>5. ASSUME NEW x \in ToSet(Tail(s)) PROVE x \in ToSet(s)
  <2>1. PICK i \in 1..(Len(s) - 1) : x = Tail(s)[i]
    BY <1>2, <1>5 DEF ToSet
  <2>2. i + 1 \in 1..Len(s) /\ x = s[i + 1]
    BY <2>1, <1>1, <1>3
  <2>q. QED
    BY <2>2, <1>1 DEF ToSet
<1>6. Head(s) \in ToSet(s)
  BY <1>1 DEF ToSet
<1>q. QED
  BY <1>1, <1>2, <1>4, <1>5, <1>6

LEMMA ToSetEmpty == ToSet(<< >>) = {}
  BY DEF ToSet

\* One more message is unread, or none when nobody listens.
LEMMA Told ==
  ASSUME TypeOK, NEW e \in Pids \cup {Quit}, TellWatchdog(e)
  PROVE  /\ pipe' \in Seq(Pids \cup {Quit})
         /\ open /\ wd # "gone" => ToSet(pipe') = ToSet(pipe) \cup {e}
         /\ ToSet(pipe') \subseteq ToSet(pipe) \cup {e}
         /\ ToSet(pipe) \subseteq ToSet(pipe')
<1>1. pipe \in Seq(Pids \cup {Quit})
  BY DEF TypeOK
<1>2. ToSet(Append(pipe, e)) = ToSet(pipe) \cup {e}
  BY <1>1, ToSetAppend
<1>q. QED
  BY <1>1, <1>2 DEF TellWatchdog

\* A line is learned and the others stay unread, wherever they are.
LEMMA Line ==
  ASSUME TypeOK, ReadLine
  PROVE  \/ /\ wd' = "closed" /\ UNCHANGED <<pipe, lines, pgids>>
            /\ Unread = {} /\ ~open
         \/ /\ pipe' \in Seq(Pids \cup {Quit}) /\ lines' \in Seq(Pids \cup {Quit})
            /\ \E line \in Pids \cup {Quit} :
                 Learn(line) /\ Unread = {line} \cup Unread'
<1> DEFINE ahead == IF lines = << >> THEN pipe ELSE lines
<1>0. pipe \in Seq(Pids \cup {Quit}) /\ lines \in Seq(Pids \cup {Quit})
  BY DEF TypeOK
<1>1. CASE ahead = << >>
  <2>1. lines = << >> /\ pipe = << >>
    BY <1>1
  <2>q. QED
    BY <1>1, <2>1, ToSetEmpty DEF ReadLine, Readable, Unread
<1>2. CASE ahead # << >>
  <2>1. /\ Learn(Head(ahead)) /\ lines' = Tail(ahead)
        /\ pipe' = IF lines = << >> THEN << >> ELSE pipe
    BY <1>2 DEF ReadLine
  <2>2. /\ ToSet(ahead) = {Head(ahead)} \cup ToSet(Tail(ahead))
        /\ Head(ahead) \in Pids \cup {Quit}
        /\ Tail(ahead) \in Seq(Pids \cup {Quit})
    <3>1. ahead \in Seq(Pids \cup {Quit})
      BY <1>0
    <3>q. QED
      BY <3>1, <1>2, ToSetTail
  <2>3. Unread = {Head(ahead)} \cup Unread'
    <3>1. CASE lines = << >>
      BY <3>1, <2>1, <2>2, ToSetEmpty DEF Unread
    <3>2. CASE lines # << >>
      BY <3>2, <2>1, <2>2 DEF Unread
    <3>q. QED
      BY <3>1, <3>2
  <2>4. pipe' \in Seq(Pids \cup {Quit})
    BY <2>1, <1>0
  <2>q. QED
    BY <2>1, <2>2, <2>3, <2>4
<1>q. QED
  BY <1>1, <1>2

(***************************************************************************)
(* Initial states.                                                         *)
(***************************************************************************)
LEMMA InitLifetime == Init => LifetimeInv
<1> SUFFICES ASSUME Init PROVE LifetimeInv
  OBVIOUS
<1>1. Unread = {}
  BY ToSetEmpty DEF Init, Unread
<1>2. TypeOK
  <2>1. << >> \in Seq(Pids \cup {Quit})
    OBVIOUS
  <2>2. at \in [Workers -> {"idle", "add", "tell", "wait"}]
    BY DEF Init
  <2>3. pid \in [Workers -> Pids \cup {NoPid}]
    BY DEF Init
  <2>4. started \in 0..MaxPids
    BY DEF Init
  <2>q. QED
    BY <2>1, <2>2, <2>3, <2>4 DEF Init, TypeOK
<1>3. SpawnInv /\ CleanupInv /\ WatchdogInv
  BY <1>1 DEF Init, SpawnInv, CleanupInv, WatchdogInv, Held
<1>q. QED
  BY <1>2, <1>3 DEF LifetimeInv

(***************************************************************************)
(* Steps: the workers and their encoders.                                  *)
(***************************************************************************)
LEMMA SpawnStep ==
  ASSUME LifetimeInv, NEW w \in Workers, Spawn(w)
  PROVE  LifetimeInv'
<1> USE DEF LifetimeInv, Spawn, mainVars, wdVars, pipeVars
<1>1. started \in 0..MaxPids /\ started' = started + 1 /\ started' \in Pids
  BY DEF TypeOK
<1>2. running' \cap secured' = running \cap secured
  BY <1>1 DEF SpawnInv
<1>3. TypeOK'
  BY <1>1 DEF TypeOK
<1>4. SpawnInv'
  BY <1>1 DEF SpawnInv, TypeOK
<1>5. CleanupInv' /\ WatchdogInv'
  BY <1>2 DEF CleanupInv, WatchdogInv, Held, Unread
<1>q. QED
  BY <1>3, <1>4, <1>5

LEMMA AddStep ==
  ASSUME LifetimeInv, NEW w \in Workers, Add(w)
  PROVE  LifetimeInv'
<1> USE DEF LifetimeInv, Add, wdVars, pipeVars
<1>1. pid[w] \in 1..started /\ pid[w] \in Pids
  BY DEF SpawnInv, TypeOK
<1>2. TypeOK'
  BY <1>1 DEF TypeOK
<1>3. SpawnInv'
  BY <1>1 DEF SpawnInv, TypeOK
<1>4. CleanupInv' /\ WatchdogInv'
  BY DEF CleanupInv, WatchdogInv, Held, Unread
<1>q. QED
  BY <1>2, <1>3, <1>4

\* An encoder becomes secured when it is in the set and in the pipe.
LEMMA TellStep ==
  ASSUME LifetimeInv, NEW w \in Workers, Tell(w)
  PROVE  LifetimeInv'
<1> USE DEF LifetimeInv, Tell, mainVars, wdVars
<1>1. pid[w] \in 1..started /\ pid[w] \in Pids
  BY DEF SpawnInv, TypeOK
<1>2. /\ pipe' \in Seq(Pids \cup {Quit})
      /\ open /\ wd # "gone" => Unread' = Unread \cup {pid[w]}
      /\ Unread \subseteq Unread' /\ Unread' \subseteq Unread \cup {pid[w]}
      /\ ~open => Unread' = Unread
  BY <1>1, Told DEF Unread, TellWatchdog
<1>3. TypeOK'
  BY <1>1, <1>2 DEF TypeOK
<1>4. SpawnInv'
  BY <1>1 DEF SpawnInv, TypeOK
<1>5. main = "up" => pid[w] \in pids
  BY DEF SpawnInv
<1>6. CleanupInv'
  BY <1>5 DEF CleanupInv, Held
<1>7. Quit \in Unread' => Quit \in Unread
  BY <1>1, <1>2
<1>8. WatchdogInv'
  <2>1. CASE main = "up"
    BY <2>1, <1>2, <1>7 DEF WatchdogInv, CleanupInv, Held
  <2>2. CASE main # "up"
    BY <2>2, <1>2, <1>7 DEF WatchdogInv, Held
  <2>q. QED
    BY <2>1, <2>2
<1>q. QED
  BY <1>3, <1>4, <1>6, <1>8

LEMMA WorkerEnds ==
  ASSUME LifetimeInv,
         (\E w \in Workers : Reap(w)) \/ (\E p \in Pids : EncoderEnds(p))
  PROVE  LifetimeInv'
<1> USE DEF LifetimeInv, mainVars, wdVars, pipeVars
<1>1. ASSUME NEW w \in Workers, Reap(w) PROVE LifetimeInv'
  <2>1. TypeOK'
    BY <1>1 DEF Reap, TypeOK
  <2>2. SpawnInv'
    BY <1>1 DEF Reap, SpawnInv, TypeOK
  <2>3. CleanupInv' /\ WatchdogInv'
    BY <1>1 DEF Reap, CleanupInv, WatchdogInv, Held, Unread
  <2>q. QED
    BY <2>1, <2>2, <2>3
<1>2. ASSUME NEW p \in Pids, EncoderEnds(p) PROVE LifetimeInv'
  <2>1. TypeOK' /\ SpawnInv'
    BY <1>2 DEF EncoderEnds, TypeOK, SpawnInv
  <2>2. CleanupInv' /\ WatchdogInv'
    BY <1>2 DEF EncoderEnds, CleanupInv, WatchdogInv, Held, Unread
  <2>q. QED
    BY <2>1, <2>2
<1>q. QED
  BY <1>1, <1>2

(***************************************************************************)
(* Steps: the main thread.                                                 *)
(***************************************************************************)
\* Whoever terminates or kills, no encoder is born of it.
LEMMA Killing ==
  ASSUME NEW groups, TermGroups(groups) \/ KillGroups(groups)
  PROVE  running' \subseteq running
  BY DEF TermGroups, KillGroups

LEMMA MainTypes ==
  ASSUME LifetimeInv,
         \/ ExitNormally \/ Signal \/ Interrupt \/ InterruptExit \/ KilledHard
         \/ CopyPids \/ ClearPids \/ Terminate \/ KillSurvivors \/ ClosePipe
         \/ SecondCleanup
  PROVE  TypeOK' /\ SpawnInv'
<1> USE DEF LifetimeInv, wdVars, pipeVars
<1>1. CASE ExitNormally \/ SecondCleanup
  BY <1>1 DEF ExitNormally, SecondCleanup, workVars, TypeOK, SpawnInv
<1>2. CASE Signal \/ Interrupt
  BY <1>2 DEF Signal, Interrupt, CutOff, workVars, TypeOK, SpawnInv
<1>3. CASE CopyPids \/ ClearPids
  BY <1>3 DEF CopyPids, ClearPids, workVars, TypeOK, SpawnInv
<1>4. CASE ClosePipe /\ ~exiting
  <2>1. /\ main' = "leaving" /\ open' = FALSE
        /\ UNCHANGED <<at, pid, pids, batch, running, started, interrupted,
                       exiting, cut, wdVars, pipe, secured>>
    BY <1>4 DEF ClosePipe
  <2>q. QED
    BY <2>1 DEF TypeOK, SpawnInv
<1>5. CASE InterruptExit \/ KilledHard \/ (ClosePipe /\ exiting)
  <2>1. Die /\ UNCHANGED <<running, started, exiting, wdVars, pipe, secured>>
    BY <1>5 DEF InterruptExit, KilledHard, ClosePipe
  <2>2. interrupted' = interrupted /\ cut' \in {cut, cut \cup batch}
    BY <1>5 DEF InterruptExit, KilledHard, ClosePipe, CutOff
  <2>3. /\ at' \in [Workers -> {"idle", "add", "tell", "wait"}]
        /\ pid' \in [Workers -> Pids \cup {NoPid}]
        /\ \A w \in Workers : at'[w] = "idle"
    BY <2>1 DEF Die
  <2>4. cut' \subseteq Pids
    BY <2>2 DEF TypeOK
  <2>5. main' = "dead" /\ open' = FALSE /\ pids' = {} /\ batch' = {}
    BY <2>1 DEF Die
  <2>6. TypeOK'
    <3>1. UNCHANGED <<running, started, pgids, secured, missed, exiting,
                      interrupted, wd, lines, pipe>>
      BY <2>1, <2>2
    <3>2. {running, pgids, secured, missed} \subseteq SUBSET Pids
      BY DEF TypeOK
    <3>3. {running', pids', batch', cut', pgids', secured', missed'} \subseteq
            SUBSET Pids
      BY <2>4, <2>5, <3>1, <3>2
    <3>4. /\ started' \in 0..MaxPids
          /\ {pipe', lines'} \subseteq Seq(Pids \cup {Quit})
          /\ {open', interrupted', exiting'} \subseteq BOOLEAN
          /\ main' \in Mains
          /\ wd' \in {"none", "select", "closed", "look", "kill", "gone"}
      BY <2>5, <3>1 DEF TypeOK
    <3>q. QED
      BY <2>3, <3>3, <3>4 DEF TypeOK
  <2>7. SpawnInv'
    BY <2>1, <2>3 DEF SpawnInv
  <2>q. QED
    BY <2>6, <2>7
<1>6. CASE Terminate \/ KillSurvivors
  <2>1. running' \subseteq running
    BY <1>6, Killing DEF Terminate, KillSurvivors
  <2>q. QED
    BY <1>6, <2>1 DEF Terminate, KillSurvivors, TypeOK, SpawnInv
<1>q. QED
  BY <1>1, <1>2, <1>3, <1>4, <1>5, <1>6

\* A second signal hands the batch it cuts off over to cut.
LEMMA MainCleanup ==
  ASSUME LifetimeInv,
         \/ ExitNormally \/ Signal \/ Interrupt \/ InterruptExit \/ KilledHard
         \/ CopyPids \/ ClearPids \/ Terminate \/ KillSurvivors \/ ClosePipe
         \/ SecondCleanup
  PROVE  CleanupInv'
<1> USE DEF LifetimeInv, CleanupInv, Held
<1>1. CASE ExitNormally \/ SecondCleanup
  BY <1>1 DEF ExitNormally, SecondCleanup, workVars
<1>2. CASE Signal \/ Interrupt
  <2>1. UNCHANGED <<running, secured, pids>> /\ main' \in {"copied", "leaving"}
    BY <1>2 DEF Signal, Interrupt, workVars
  <2>2. cut' = IF main \in {"term", "kill"} THEN cut \cup batch ELSE cut
    BY <1>2 DEF Signal, Interrupt, CutOff
  <2>3. main \in Mains \ {"dead"}
    BY <1>2 DEF Signal, Interrupt, TypeOK
  <2>q. QED
    BY <2>1, <2>2, <2>3
<1>3. CASE CopyPids \/ ClearPids
  BY <1>3 DEF CopyPids, ClearPids, workVars
<1>4. CASE ClosePipe /\ ~exiting
  BY <1>4 DEF ClosePipe
<1>5. CASE InterruptExit \/ KilledHard \/ (ClosePipe /\ exiting)
  BY <1>5 DEF InterruptExit, KilledHard, ClosePipe, Die
<1>6. CASE Terminate
  BY <1>6, Killing DEF Terminate
<1>7. CASE KillSurvivors
  BY <1>7 DEF KillSurvivors, KillGroups
<1>q. QED
  BY <1>1, <1>2, <1>3, <1>4, <1>5, <1>6, <1>7

LEMMA MainWatchdog ==
  ASSUME LifetimeInv,
         \/ ExitNormally \/ Signal \/ Interrupt \/ InterruptExit \/ KilledHard
         \/ CopyPids \/ ClearPids \/ Terminate \/ KillSurvivors \/ ClosePipe
         \/ SecondCleanup
  PROVE  WatchdogInv'
<1> USE DEF LifetimeInv, wdVars, WatchdogInv, Held
<1>0. Unread' = Unread
  BY DEF ExitNormally, Signal, Interrupt, InterruptExit, KilledHard,
         SecondCleanup, CopyPids, ClearPids, ClosePipe, Terminate,
         KillSurvivors, mainVars, pipeVars, Unread
<1>1. CASE ExitNormally \/ SecondCleanup
  BY <1>0, <1>1 DEF ExitNormally, SecondCleanup, workVars, pipeVars
<1>2. CASE Signal \/ Interrupt
  BY <1>0, <1>2 DEF Signal, Interrupt, CutOff, workVars, pipeVars
<1>3. CASE CopyPids \/ ClearPids
  BY <1>0, <1>3 DEF CopyPids, ClearPids, workVars, pipeVars
<1>4. CASE ClosePipe /\ ~exiting
  BY <1>0, <1>4 DEF ClosePipe
<1>5. CASE InterruptExit \/ KilledHard \/ (ClosePipe /\ exiting)
  BY <1>0, <1>5 DEF InterruptExit, KilledHard, ClosePipe, Die, CutOff
<1>6. CASE Terminate \/ KillSurvivors
  <2>1. running' \subseteq running
    BY <1>6, Killing DEF Terminate, KillSurvivors
  <2>q. QED
    BY <1>0, <1>6, <2>1 DEF Terminate, KillSurvivors, pipeVars
<1>q. QED
  BY <1>1, <1>2, <1>3, <1>4, <1>5, <1>6

\* QUIT is sent when the secured encoders are reaped or cut off, and none is
\* added after.
LEMMA DismissStep ==
  ASSUME LifetimeInv, DismissWatchdog
  PROVE  LifetimeInv'
<1> USE DEF LifetimeInv, DismissWatchdog, workVars, wdVars
<1>1. /\ pipe' \in Seq(Pids \cup {Quit})
      /\ Unread \subseteq Unread' /\ Unread' \subseteq Unread \cup {Quit}
      /\ ~open => Unread' = Unread
  <2>1. CASE Quit \in Unread
    BY <2>1 DEF Unread, TypeOK
  <2>2. CASE Quit \notin Unread
    BY <2>2, Told DEF Unread, TellWatchdog
  <2>q. QED
    BY <2>1, <2>2
<1>2. TypeOK' /\ SpawnInv'
  BY <1>1 DEF TypeOK, SpawnInv
<1>3. CleanupInv' /\ WatchdogInv'
  BY <1>1 DEF CleanupInv, WatchdogInv, Held
<1>q. QED
  BY <1>2, <1>3

(***************************************************************************)
(* Steps: the watchdog.                                                    *)
(***************************************************************************)
LEMMA ReadStep ==
  ASSUME LifetimeInv, ReadLine
  PROVE  LifetimeInv'
<1> USE DEF LifetimeInv, workVars, mainVars
<1>0. UNCHANGED <<workVars, mainVars, missed, open, secured>> /\ wd = "select"
  BY DEF ReadLine
<1>1. ASSUME wd' = "closed", UNCHANGED <<pipe, lines, pgids>>, Unread = {}, ~open
      PROVE  LifetimeInv'
  <2>1. TypeOK' /\ SpawnInv' /\ CleanupInv'
    BY <1>0, <1>1 DEF TypeOK, SpawnInv, CleanupInv, Held
  <2>2. Unread = {} /\ ~open
    BY <1>0, <1>1
  <2>3. Unread' = Unread
    BY <1>1 DEF Unread
  <2>q. QED
    BY <1>0, <1>1, <2>1, <2>2, <2>3 DEF WatchdogInv, Held
<1>2. ASSUME pipe' \in Seq(Pids \cup {Quit}), lines' \in Seq(Pids \cup {Quit}),
             NEW line \in Pids \cup {Quit}, Learn(line),
             Unread = {line} \cup Unread'
      PROVE  LifetimeInv'
  <2>1. TypeOK' /\ SpawnInv' /\ CleanupInv'
    BY <1>0, <1>2 DEF TypeOK, SpawnInv, CleanupInv, Held, Learn
  <2>2. ASSUME line = Quit PROVE WatchdogInv'
    BY <1>0, <1>2, <2>2 DEF WatchdogInv, Held, Learn
  <2>3. ASSUME line # Quit PROVE WatchdogInv'
    BY <1>0, <1>2, <2>3 DEF WatchdogInv, Held, Learn
  <2>q. QED
    BY <2>1, <2>2, <2>3
<1>q. QED
  BY <1>1, <1>2, Line

LEMMA LookStep ==
  ASSUME LifetimeInv, SelectTimesOut \/ LookAtParent
  PROVE  LifetimeInv'
<1> USE DEF LifetimeInv, workVars, mainVars, pipeVars
<1>1. CASE SelectTimesOut
  BY <1>1 DEF SelectTimesOut, TypeOK, SpawnInv, CleanupInv, WatchdogInv,
              Held, Unread
<1>2. CASE LookAtParent /\ ~ParentGone
  BY <1>2 DEF LookAtParent, TypeOK, SpawnInv, CleanupInv, WatchdogInv,
              Held, Unread
<1>3. CASE LookAtParent /\ ParentGone
  <2>1. /\ running' \subseteq running /\ wd' = "kill" /\ main = "dead"
        /\ wd \in {"look", "closed"} /\ missed' = Unread \ {Quit}
        /\ UNCHANGED <<started, at, pid, mainVars, lines, pgids, pipeVars, secured>>
    BY <1>3, Killing DEF LookAtParent, ParentGone
  <2>2. Unread' = Unread /\ Unread \subseteq Pids \cup {Quit}
    BY <2>1 DEF Unread, ToSet, TypeOK
  <2>3. TypeOK'
    BY <2>1, <2>2 DEF TypeOK
  <2>4. SpawnInv' /\ CleanupInv'
    BY <2>1 DEF SpawnInv, CleanupInv, Held
  <2>5. Quit \notin running
    BY DEF TypeOK
  <2>6. WatchdogInv'
    BY <2>1, <2>2, <2>5 DEF WatchdogInv, Held
  <2>q. QED
    BY <2>3, <2>4, <2>6
<1>q. QED
  BY <1>1, <1>2, <1>3

LEMMA ReapStep ==
  ASSUME LifetimeInv, WatchdogKills
  PROVE  LifetimeInv'
<1> USE DEF LifetimeInv, WatchdogKills, KillGroups, mainVars, pipeVars
<1>1. TypeOK' /\ SpawnInv' /\ CleanupInv'
  BY DEF TypeOK, SpawnInv, CleanupInv, Held
<1>2. WatchdogInv'
  BY DEF WatchdogInv, Held, Unread
<1>q. QED
  BY <1>1, <1>2

(***************************************************************************)
(* Results.                                                                *)
(***************************************************************************)
LEMMA NextLifetime == LifetimeInv /\ [Next]_vars => LifetimeInv'
<1> SUFFICES ASSUME LifetimeInv, [Next]_vars PROVE LifetimeInv'
  OBVIOUS
<1>1. CASE UNCHANGED vars
  BY <1>1 DEF vars, workVars, mainVars, wdVars, pipeVars, LifetimeInv, TypeOK,
              SpawnInv, CleanupInv, WatchdogInv, Held, Unread
<1>2. CASE \/ ExitNormally \/ Signal \/ Interrupt \/ InterruptExit \/ KilledHard
           \/ CopyPids \/ ClearPids \/ Terminate \/ KillSurvivors \/ ClosePipe
           \/ SecondCleanup
  BY <1>2, MainTypes, MainCleanup, MainWatchdog DEF LifetimeInv
<1>q. QED
  BY <1>1, <1>2, Actions, SpawnStep, AddStep, TellStep, WorkerEnds,
     DismissStep, ReadStep, LookStep, ReapStep

\* The invariant of the lifetime group and its watchdog: the encoders whose
\* registration is complete are in the hands of the cleanup or of the
\* watchdog, but for those of a cleanup that a signal cut off; and QUIT is
\* sent when no others are left.
THEOREM LifetimeInvariant == Spec => []LifetimeInv
<1>q. QED
  BY InitLifetime, NextLifetime, PTL DEF Spec

\* Whether the orchestrator exits, is signalled, any number of times and within
\* its own handlers too, or is killed with SIGKILL, and at whatever step of
\* its cleanup: an encoder whose add had returned and that outlives both it
\* and its watchdog was still in the pipe or in the watchdog's reader when the
\* watchdog looked last, or in the batch of a _cleanup that was cut off.
THEOREM EncodersDieWithTheRun == Spec => []SecuredAreReaped
<1>1. LifetimeInv => SecuredAreReaped
  BY DEF LifetimeInv, WatchdogInv, SecuredAreReaped, Over, Held
<1>q. QED
  BY <1>1, LifetimeInvariant, PTL
=============================================================================
