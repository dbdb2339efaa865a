------------------------- MODULE PauseControlProofs -------------------------
(***************************************************************************)
(* Proofs about PauseControl for any number of slots and chunks, on either *)
(* backend.  PauseInv is inductive; StoppedIsReachable is a conjunct.      *)
(***************************************************************************)
EXTENDS PauseControl, TLAPS

USE PauseAssumption

\* Next, one disjunct per action.
LEMMA Actions ==
  ASSUME [Next]_vars
  PROVE
    \/ \E s \in Slots : Launch(s)
    \/ \E s \in Slots : Leave(s)
    \/ \E s \in Slots : Register(s)
    \/ \E s \in Slots : Wait(s)
    \/ \E s \in Slots : Unregister(s)
    \/ \E s \in Slots : Choke(s)
    \/ \E s \in Slots : Toggle(s)
    \/ \E p \in Procs : Exit(p)
    \/ \E a \in Agents : Signal(a)
    \/ \E a \in Agents : Note(a)
    \/ Abort \/ Sweep \/ ResumeAll \/ FilePause \/ FileResume \/ UserFile
    \/ Join \/ Finish
    \/ UNCHANGED vars
  BY DEF Next, Worker, Returned

\* Terminating processes keeps the types, starts no process, and stops none.
LEMMA TerminateTypes ==
  ASSUME TypeOK, NEW P, Terminate(P)
  PROVE  /\ ps' \in [Procs -> {"unborn", "alive", "zombie", "reaped"}]
         /\ stops' \in [Procs -> 0..MaxStops]
         /\ term' \subseteq Procs
         /\ \A p \in Procs : /\ ps'[p] = ps[p] \/ (ps[p] = "alive" /\ ps'[p] = "zombie")
                             /\ Stopped(p)' => Stopped(p) /\ ps'[p] = ps[p]
<1> DEFINE Q == {p \in P : p \in Procs /\ ps[p] = "alive"}
<1>1. CASE platform = "windows"
  <2>1. /\ ps' = [p \in Procs |-> IF p \in Q THEN "zombie" ELSE ps[p]]
        /\ stops' = [p \in Procs |-> IF p \in Q THEN 0 ELSE stops[p]]
        /\ term' = term \cup Q
    BY <1>1 DEF Terminate
  <2>q. QED
    BY <2>1 DEF TypeOK, Stopped
<1>2. CASE platform # "windows"
  BY <1>2 DEF Terminate, TypeOK, Stopped
<1>q. QED
  BY <1>1, <1>2

\* One signal leaves the count of suspensions in range.
LEMMA SignalledType ==
  ASSUME NEW kind \in {"pause", "resume"}, NEW n \in 0..MaxStops
  PROVE  Signalled(kind, n) \in 0..MaxStops
<1>1. CASE kind = "pause"
  BY <1>1 DEF Signalled
<1>2. CASE kind = "resume"
  BY <1>2 DEF Signalled
<1>q. QED
  BY <1>1, <1>2

\* The targets taken under the lock are registered processes or idle slots.
LEMMA SlotTargets ==
  ASSUME TypeOK, NEW S \in SUBSET Slots
  PROVE  /\ InSlots(S) \in SUBSET Targets
         /\ \A t \in InSlots(S) : t[1] \in Slots /\ t[2] = active[t[1]]
  BY DEF InSlots, Targets, TypeOK

\* The operations a step leaves behind: a fresh one, or one with less to do.
LEMMA OpTypes ==
  ASSUME TypeOK, KindInv, NEW a \in Agents
  PROVE  /\ \A t : Drop(a, t) =>
              /\ KindInv'
              /\ op' \in [Agents -> [kind : {"none", "pause", "resume"},
                                     todo : SUBSET Targets, sent : SUBSET Targets]]
              /\ \A b \in Agents : op'[b].todo \subseteq op[b].todo
         /\ \A kind \in {"pause", "resume"}, T \in SUBSET Targets :
              Start(a, kind, T) =>
                /\ KindInv'
                /\ op' \in [Agents -> [kind : {"none", "pause", "resume"},
                                       todo : SUBSET Targets, sent : SUBSET Targets]]
                /\ \A b \in Agents : op'[b].todo \subseteq op[b].todo \cup T
<1> DEFINE Ops == [kind : {"none", "pause", "resume"},
                   todo : SUBSET Targets, sent : SUBSET Targets]
<1>0. op \in [Agents -> Ops] /\ NoOp \in Ops
  BY DEF TypeOK, NoOp
<1>1. ASSUME NEW t, Drop(a, t)
      PROVE  /\ op' \in [Agents -> Ops] /\ KindInv'
             /\ \A b \in Agents : op'[b].todo \subseteq op[b].todo
  <2> DEFINE rest == op[a].todo \ {t}
             new  == [op[a] EXCEPT !.todo = rest, !.sent = {}]
  <2>1. new \in Ops /\ new.todo = rest /\ new.kind = op[a].kind
    BY <1>0
  <2>2. CASE rest = {}
    <3>1. op' = [op EXCEPT ![a] = NoOp]
      BY <1>1, <2>2 DEF Drop
    <3>q. QED
      BY <1>0, <3>1 DEF NoOp, KindInv
  <2>3. CASE rest # {}
    <3>1. op' = [op EXCEPT ![a] = new]
      BY <1>1, <2>3 DEF Drop
    <3>2. op'[a] = new /\ \A b \in Agents \ {a} : op'[b] = op[b]
      BY <1>0, <3>1
    <3>3. op' \in [Agents -> Ops]
      BY <1>0, <2>1, <3>1
    <3>4. op[a].kind # "none"
      BY <2>3 DEF KindInv, NoOp
    <3>5. KindInv'
      BY <2>1, <3>2, <3>4 DEF KindInv
    <3>6. \A b \in Agents : op'[b].todo \subseteq op[b].todo
      BY <2>1, <3>2
    <3>q. QED
      BY <3>3, <3>5, <3>6
  <2>q. QED
    BY <2>2, <2>3
<1>2. ASSUME NEW kind \in {"pause", "resume"}, NEW T \in SUBSET Targets,
             Start(a, kind, T)
      PROVE  /\ op' \in [Agents -> Ops] /\ KindInv'
             /\ \A b \in Agents : op'[b].todo \subseteq op[b].todo \cup T
  <2> DEFINE new == [kind |-> kind, todo |-> T, sent |-> {}]
  <2>1. new \in Ops /\ new.todo = T /\ new.kind # "none"
    OBVIOUS
  <2>2. CASE T = {}
    <3>1. op' = [op EXCEPT ![a] = NoOp]
      BY <1>2, <2>2 DEF Start
    <3>q. QED
      BY <1>0, <3>1 DEF NoOp, KindInv
  <2>3. CASE T # {}
    <3>1. op' = [op EXCEPT ![a] = new]
      BY <1>2, <2>3 DEF Start
    <3>2. op'[a] = new /\ \A b \in Agents \ {a} : op'[b] = op[b]
      BY <1>0, <3>1
    <3>3. op' \in [Agents -> Ops]
      BY <1>0, <2>1, <3>1
    <3>4. KindInv'
      BY <2>1, <3>2 DEF KindInv
    <3>5. \A b \in Agents : op'[b].todo \subseteq op[b].todo \cup T
      BY <2>1, <3>2
    <3>q. QED
      BY <3>3, <3>4, <3>5
  <2>q. QED
    BY <2>2, <2>3
<1>q. QED
  BY <1>1, <1>2

\* A step that touches no worker and no process keeps the invariant, if the
\* targets it leaves are old ones or just read from active_procs.
LEMMA Frame ==
  ASSUME PauseInv, TypeOK', KindInv', UNCHANGED <<workVars, ps, stops, active>>,
         \A a \in Agents : \A t \in op'[a].todo :
            t \in op[a].todo \/ t[2] = active[t[1]]
  PROVE  PauseInv'
<1>1. DriveInv' /\ ActiveInv' /\ StoppedInv' /\ StoppedIsReachable'
  BY DEF PauseInv, DriveInv, ActiveInv, StoppedInv, StoppedIsReachable,
         Stopped, workVars
<1>2. TargetInv'
  BY DEF PauseInv, TargetInv
<1>q. QED
  BY <1>1, <1>2 DEF PauseInv

\* The same for a step that only terminates processes.
LEMMA TerminateFrame ==
  ASSUME PauseInv, NEW P, Terminate(P),
         UNCHANGED <<setup, workVars, dispVars, fileVars, op, mpc>>,
         abort' \in {"no", "flagged", "swept"}
  PROVE  PauseInv'
<1>1. /\ ps' \in [Procs -> {"unborn", "alive", "zombie", "reaped"}]
      /\ stops' \in [Procs -> 0..MaxStops]
      /\ term' \subseteq Procs
      /\ \A p \in Procs : /\ ps'[p] = ps[p] \/ (ps[p] = "alive" /\ ps'[p] = "zombie")
                          /\ Stopped(p)' => Stopped(p) /\ ps'[p] = ps[p]
  BY TerminateTypes DEF PauseInv
<1>2. TypeOK'
  BY <1>1 DEF PauseInv, TypeOK, setup, workVars, dispVars, marks, fileVars
<1>3. DriveInv' /\ ActiveInv' /\ KindInv'
  BY <1>1 DEF PauseInv, TypeOK, DriveInv, ActiveInv, KindInv, workVars, dispVars
<1>4. TargetInv'
  BY <1>1 DEF PauseInv, TypeOK, TargetInv, Targets, dispVars
<1>5. StoppedInv' /\ StoppedIsReachable'
  BY <1>1 DEF PauseInv, StoppedInv, StoppedIsReachable, dispVars
<1>q. QED
  BY <1>2, <1>3, <1>4, <1>5 DEF PauseInv

LEMMA InitInv == Init => PauseInv
<1> SUFFICES ASSUME Init PROVE PauseInv
  OBVIOUS
<1>1. TypeOK
  <2>1. wpc \in [Slots -> {"next", "launched", "wait", "reaped", "gone"}]
    BY DEF Init
  <2>2. /\ platform \in Platforms /\ typing \in BOOLEAN
        /\ file \in BOOLEAN /\ filePaused \in BOOLEAN
        /\ abort \in {"no", "flagged", "swept"} /\ mpc \in {"join", "resume", "done"}
        /\ term \subseteq Procs /\ paused \subseteq Slots /\ mismarked \subseteq paused
    BY DEF Init
  <2>3. /\ proc \in [Slots -> Procs \cup {NoProc}]
        /\ active \in [Slots -> Procs \cup {NoProc}]
        /\ clock \in [Slots -> {"none", "ticks", "frozen"}]
        /\ ps \in [Procs -> {"unborn", "alive", "zombie", "reaped"}]
        /\ stops \in [Procs -> 0..MaxStops]
    BY DEF Init
  <2>4. op \in [Agents -> [kind : {"none", "pause", "resume"},
                          todo : SUBSET Targets, sent : SUBSET Targets]]
    BY DEF Init, NoOp
  <2>5. begun \in 0..Chunks
    BY DEF Init
  <2>q. QED
    BY <2>1, <2>2, <2>3, <2>4, <2>5 DEF TypeOK
<1>2. DriveInv /\ ActiveInv /\ KindInv /\ TargetInv /\ StoppedInv
      /\ StoppedIsReachable
  BY DEF Init, DriveInv, ActiveInv, KindInv, TargetInv, StoppedInv,
         StoppedIsReachable, Stopped, NoOp, Procs
<1>q. QED
  BY <1>1, <1>2 DEF PauseInv

LEMMA StepInv == ASSUME PauseInv, [Next]_vars PROVE PauseInv'
<1> USE DEF WorkerRest, GuardRest, OpRest, setup, workVars, procVars, dispVars,
            marks, fileVars
<1>t. TypeOK /\ DriveInv /\ ActiveInv /\ KindInv /\ TargetInv /\ StoppedInv
      /\ StoppedIsReachable
  BY DEF PauseInv
<1>1. ASSUME NEW s \in Slots, Launch(s) PROVE PauseInv'
  <2>1. /\ begun + 1 \in Procs /\ begun' = begun + 1
        /\ ps[begun + 1] = "unborn"
        /\ proc[s] = NoProc /\ active[s] = NoProc
    <3>1. wpc[s] = "next" /\ begun < Chunks /\ begun' = begun + 1
      BY <1>1 DEF Launch
    <3>2. begun \in Nat /\ begun + 1 \in Procs /\ begun + 1 > begun
      BY <1>t, <3>1 DEF TypeOK, Procs
    <3>3. ps[begun + 1] = "unborn"
      BY <1>t, <3>2 DEF DriveInv
    <3>4. proc[s] = NoProc /\ active[s] = NoProc
      BY <1>t, <3>1 DEF DriveInv, ActiveInv
    <3>q. QED
      BY <3>1, <3>2, <3>3, <3>4
  <2>2. TypeOK'
    BY <1>1, <1>t, <2>1 DEF Launch, Goto, TypeOK, Procs
  <2>3. DriveInv'
    <3>1. \A p \in Procs : ps'[p] = "unborn" <=> p > begun'
      BY <1>1, <1>t, <2>1 DEF Launch, TypeOK, DriveInv, Procs
    <3>2. /\ proc' = [proc EXCEPT ![s] = begun + 1]
          /\ wpc' = [wpc EXCEPT ![s] = "launched"]
      BY <1>1, <2>1 DEF Launch, Goto
    <3>3. \A r \in Slots : proc[r] # NoProc => proc[r] <= begun /\ proc[r] \in Procs
      BY <1>t DEF DriveInv, TypeOK
    <3>4. \A r \in Slots :
            /\ wpc'[r] \in {"launched", "wait", "reaped"} <=> proc'[r] # NoProc
            /\ proc'[r] # NoProc => proc'[r] <= begun'
      BY <1>t, <2>1, <3>2, <3>3 DEF DriveInv, TypeOK, Procs
    <3>5. \A r \in Slots : wpc'[r] = "reaped" => ps'[proc'[r]] = "reaped"
      BY <1>1, <1>t, <2>1, <3>2, <3>3 DEF DriveInv, TypeOK, Launch, Procs
    <3>6. \A r, q \in Slots : r # q /\ proc'[r] = proc'[q] => proc'[r] = NoProc
      BY <1>t, <2>1, <3>2, <3>3 DEF DriveInv, TypeOK, Procs
    <3>q. QED
      BY <3>1, <3>4, <3>5, <3>6 DEF DriveInv
  <2>4. ActiveInv'
    BY <1>1, <1>t, <2>1 DEF Launch, Goto, ActiveInv, TypeOK
  <2>5. TargetInv' /\ KindInv'
    BY <1>1, <1>t, <2>1 DEF Launch, KindInv, TargetInv, TypeOK, Targets
  <2>6. StoppedInv' /\ StoppedIsReachable'
    BY <1>1, <1>t, <2>1 DEF Launch, StoppedInv, StoppedIsReachable, Stopped, TypeOK
  <2>q. QED
    BY <2>2, <2>3, <2>4, <2>5, <2>6 DEF PauseInv
<1>2. ASSUME NEW s \in Slots, Leave(s) PROVE PauseInv'
  <2>1. TypeOK' /\ DriveInv' /\ ActiveInv'
    BY <1>2, <1>t DEF Leave, Goto, TypeOK, DriveInv, ActiveInv
  <2>2. TargetInv' /\ KindInv' /\ StoppedInv' /\ StoppedIsReachable'
    BY <1>2, <1>t DEF Leave, KindInv, TargetInv, StoppedInv, StoppedIsReachable, Stopped
  <2>q. QED
    BY <2>1, <2>2 DEF PauseInv
<1>3. ASSUME NEW s \in Slots, Register(s) PROVE PauseInv'
  <2>1. active[s] = NoProc /\ proc[s] \in Procs
    BY <1>3, <1>t DEF Register, TypeOK, DriveInv, ActiveInv
  <2>2. CASE abort # "no"
    <3>1. Terminate({proc[s]}) /\ UNCHANGED <<active, marks>>
      BY <1>3, <2>2 DEF Register
    <3>2. /\ ps' \in [Procs -> {"unborn", "alive", "zombie", "reaped"}]
          /\ stops' \in [Procs -> 0..MaxStops]
          /\ term' \subseteq Procs
          /\ \A p \in Procs :
               /\ ps'[p] = ps[p] \/ (ps[p] = "alive" /\ ps'[p] = "zombie")
               /\ Stopped(p)' => Stopped(p) /\ ps'[p] = ps[p]
      BY <3>1, <1>t, TerminateTypes
    <3>3. TypeOK'
      BY <1>3, <1>t, <3>1, <3>2 DEF Register, Goto, TypeOK
    <3>4. DriveInv' /\ ActiveInv'
      BY <1>3, <1>t, <2>1, <3>1, <3>2 DEF Register, Goto, TypeOK, DriveInv, ActiveInv
    <3>5. TargetInv' /\ KindInv'
      BY <1>3, <1>t, <3>1, <3>2 DEF Register, KindInv, TargetInv, TypeOK, Targets
    <3>6. StoppedInv' /\ StoppedIsReachable'
      BY <1>3, <1>t, <3>1, <3>2 DEF Register, StoppedInv, StoppedIsReachable
    <3>q. QED
      BY <3>3, <3>4, <3>5, <3>6 DEF PauseInv
  <2>3. CASE abort = "no"
    <3>1. active' = [active EXCEPT ![s] = proc[s]] /\ UNCHANGED <<ps, stops, term>>
      BY <1>3, <2>3 DEF Register
    <3>3. TypeOK'
      BY <1>3, <1>t, <2>1, <2>3, <3>1 DEF Register, Goto, TypeOK, Unmark
    <3>4. DriveInv' /\ ActiveInv'
      BY <1>3, <1>t, <2>1, <3>1 DEF Register, Goto, TypeOK, DriveInv, ActiveInv
    <3>5. TargetInv' /\ KindInv'
      BY <1>3, <1>t, <2>1, <3>1 DEF Register, KindInv, TargetInv, TypeOK, Targets
    <3>6. StoppedInv' /\ StoppedIsReachable'
      <4>1. \A r \in Slots : active[r] \in Procs => active'[r] = active[r]
        BY <1>t, <2>1, <3>1 DEF TypeOK, Procs
      <4>2. \A p \in Procs : Stopped(p)' = Stopped(p)
        BY <3>1 DEF Stopped
      <4>q. QED
        BY <1>t, <3>1, <4>1, <4>2 DEF StoppedInv, StoppedIsReachable
    <3>q. QED
      BY <3>3, <3>4, <3>5, <3>6 DEF PauseInv
  <2>q. QED
    BY <2>2, <2>3
<1>4. ASSUME NEW s \in Slots, Wait(s) PROVE PauseInv'
  <2>1. proc[s] \in Procs
    BY <1>4, <1>t DEF Wait, TypeOK, DriveInv
  <2>2. TypeOK' /\ DriveInv' /\ ActiveInv'
    BY <1>4, <1>t, <2>1 DEF Wait, Goto, TypeOK, DriveInv, ActiveInv
  <2>3. TargetInv' /\ KindInv' /\ StoppedInv' /\ StoppedIsReachable'
    BY <1>4, <1>t, <2>1 DEF Wait, KindInv, TargetInv, StoppedInv, StoppedIsReachable,
                            Stopped, TypeOK, Targets
  <2>q. QED
    BY <2>2, <2>3 DEF PauseInv
<1>5. ASSUME NEW s \in Slots, Unregister(s) PROVE PauseInv'
  <2>1. /\ proc[s] \in Procs /\ ps[proc[s]] = "reaped"
        /\ active[s] \in {proc[s], NoProc}
    BY <1>5, <1>t DEF Unregister, TypeOK, DriveInv, ActiveInv
  <2>2. TypeOK' /\ DriveInv' /\ ActiveInv'
    BY <1>5, <1>t, <2>1 DEF Unregister, Goto, TypeOK, DriveInv, ActiveInv
  <2>3. TargetInv' /\ KindInv' /\ StoppedInv'
    BY <1>5, <1>t, <2>1 DEF Unregister, KindInv, TargetInv, StoppedInv, Stopped, TypeOK,
                            Targets
  <2>4. StoppedIsReachable'
    BY <1>5, <1>t, <2>1 DEF Unregister, StoppedInv, StoppedIsReachable, Stopped,
                            TypeOK
  <2>q. QED
    BY <2>2, <2>3, <2>4 DEF PauseInv
<1>6. ASSUME NEW s \in Slots, Choke(s) PROVE PauseInv'
  BY <1>6, <1>t, TerminateFrame DEF Choke, TypeOK
<1>7. CASE Sweep
  BY <1>7, TerminateFrame DEF Sweep
<1>8. ASSUME NEW p \in Procs, Exit(p) PROVE PauseInv'
  <2>1. TypeOK' /\ DriveInv' /\ ActiveInv'
    BY <1>8, <1>t DEF Exit, TypeOK, DriveInv, ActiveInv
  <2>2. TargetInv' /\ KindInv' /\ StoppedInv' /\ StoppedIsReachable'
    BY <1>8, <1>t DEF Exit, KindInv, TypeOK, TargetInv, StoppedInv, StoppedIsReachable,
                      Stopped, Targets
  <2>q. QED
    BY <2>1, <2>2 DEF PauseInv
<1>9. ASSUME NEW a \in Agents, Signal(a) PROVE PauseInv'
  <2>1. PICK t \in op[a].todo :
          CASE t[2] = NoProc ->
                 Unmark(t[1]) /\ Drop(a, t) /\ UNCHANGED <<stops, clock>>
            [] t[2] # NoProc /\ Reachable(t[2]) ->
                 /\ stops' = [stops EXCEPT ![t[2]] =
                      IF ps[t[2]] = "alive" THEN Signalled(op[a].kind, @) ELSE @]
                 /\ op' = [op EXCEPT ![a].sent = {t}]
                 /\ UNCHANGED <<marks, clock>>
            [] OTHER -> Drop(a, t) /\ UNCHANGED <<stops, marks, clock>>
    BY <1>9 DEF Signal
  <2>2. /\ t \in Targets /\ t[1] \in Slots /\ t[2] \in Procs \cup {NoProc}
        /\ op[a].kind \in {"none", "pause", "resume"}
    BY <1>t DEF TypeOK, Targets
  <2>3. UNCHANGED <<setup, workVars, ps, term, active, abort, fileVars, mpc>>
    BY <1>9 DEF Signal
  <2>4. CASE t[2] # NoProc /\ Reachable(t[2])
    <3>1. /\ stops' = [stops EXCEPT ![t[2]] =
               IF ps[t[2]] = "alive" THEN Signalled(op[a].kind, @) ELSE @]
          /\ op' = [op EXCEPT ![a].sent = {t}]
          /\ UNCHANGED <<marks, clock>>
      BY <2>1, <2>4
    <3>2. op[a].kind # "none"
      BY <1>t, <1>9 DEF KindInv, Signal
    <3>3. stops' \in [Procs -> 0..MaxStops]
      <4>1. Signalled(op[a].kind, stops[t[2]]) \in 0..MaxStops
        BY <1>t, <2>2, <2>4, <3>2, SignalledType DEF TypeOK
      <4>q. QED
        BY <1>t, <3>1, <4>1 DEF TypeOK
    <3>4. TypeOK' /\ \A b \in Agents : op'[b].todo = op[b].todo
      BY <1>t, <2>2, <2>3, <3>1, <3>3 DEF TypeOK
    <3>5. DriveInv' /\ ActiveInv' /\ KindInv'
      BY <1>t, <2>3, <3>1, <3>2 DEF DriveInv, ActiveInv, KindInv, TypeOK
    <3>6. TargetInv'
      BY <1>t, <2>3, <3>4 DEF TargetInv
    <3>7. ps[t[2]] = "alive" => active[t[1]] = t[2]
      BY <1>t, <2>4 DEF TargetInv
    <3>8. StoppedInv' /\ StoppedIsReachable'
      BY <1>t, <2>2, <2>3, <3>1, <3>7 DEF StoppedInv, StoppedIsReachable, Stopped,
                                          TypeOK
    <3>q. QED
      BY <3>4, <3>5, <3>6, <3>8 DEF PauseInv
  <2>5. CASE ~(t[2] # NoProc /\ Reachable(t[2]))
    <3>1. Drop(a, t) /\ UNCHANGED <<stops, clock>>
          /\ paused' \subseteq paused /\ mismarked' \subseteq paused'
      BY <1>t, <2>1, <2>5 DEF Unmark, TypeOK
    <3>2. TypeOK'
      BY <1>t, <2>3, <3>1, OpTypes DEF TypeOK
    <3>3. KindInv' /\ \A b \in Agents : op'[b].todo \subseteq op[b].todo
      BY <1>t, <3>1, OpTypes
    <3>q. QED
      BY <2>3, <3>1, <3>2, <3>3, Frame
  <2>q. QED
    BY <2>4, <2>5
<1>10. ASSUME NEW a \in Agents, Note(a) PROVE PauseInv'
  <2>1. PICK t \in op[a].sent :
          /\ IF op[a].kind = "pause"
               THEN /\ paused' = paused \cup {t[1]}
                    /\ mismarked' = IF active[t[1]] = t[2] /\ Stopped(t[2])
                                    THEN mismarked \ {t[1]}
                                    ELSE mismarked \cup {t[1]}
                    /\ clock' = [clock EXCEPT ![t[1]] = IF @ = "none" THEN @ ELSE "frozen"]
               ELSE /\ Unmark(t[1])
                    /\ clock' = [clock EXCEPT ![t[1]] = IF @ = "frozen" THEN "ticks" ELSE @]
          /\ Drop(a, t)
          /\ UNCHANGED <<OpRest, stops, filePaused>>
    BY <1>10 DEF Note
  <2>2. t[1] \in Slots
    BY <1>t DEF TypeOK, Targets
  <2>3. /\ op' \in [Agents -> [kind : {"none", "pause", "resume"},
                               todo : SUBSET Targets, sent : SUBSET Targets]]
        /\ KindInv' /\ \A b \in Agents : op'[b].todo \subseteq op[b].todo
    BY <1>t, <2>1, OpTypes
  <2>4. /\ paused' \subseteq Slots /\ mismarked' \subseteq paused'
        /\ clock' \in [Slots -> {"none", "ticks", "frozen"}]
    BY <1>t, <2>1, <2>2 DEF TypeOK, Unmark
  <2>5. TypeOK'
    BY <1>t, <2>1, <2>3, <2>4 DEF TypeOK
  <2>q. QED
    BY <2>1, <2>3, <2>5, Frame
<1>11. ASSUME NEW s \in Slots, Toggle(s) PROVE PauseInv'
  <2> DEFINE kind == IF s \in paused THEN "resume" ELSE "pause"
             T    == InSlots({s})
  <2>1. T \in SUBSET Targets /\ \A t \in T : t[2] = active[t[1]]
    BY <1>t, SlotTargets DEF TypeOK
  <2>2. Start("keys", kind, T)
    BY <1>11 DEF Toggle
  <2>3. /\ op' \in [Agents -> [kind : {"none", "pause", "resume"},
                               todo : SUBSET Targets, sent : SUBSET Targets]]
        /\ KindInv' /\ \A b \in Agents : op'[b].todo \subseteq op[b].todo \cup T
    <3>1. "keys" \in Agents /\ kind \in {"pause", "resume"}
      BY DEF Agents
    <3>q. QED
      BY <1>t, <2>1, <2>2, <3>1, OpTypes
  <2>4. TypeOK'
    BY <1>11, <1>t, <2>3 DEF Toggle, TypeOK
  <2>5. \A b \in Agents : \A t \in op'[b].todo :
          t \in op[b].todo \/ t[2] = active[t[1]]
    BY <2>1, <2>3
  <2>q. QED
    BY <1>11, <2>3, <2>4, <2>5, Frame DEF Toggle
<1>12. CASE ResumeAll
  <2> DEFINE kind == "resume"
             T    == InSlots(paused)
  <2>1. T \in SUBSET Targets /\ \A t \in T : t[2] = active[t[1]]
    BY <1>t, SlotTargets DEF TypeOK, Registered
  <2>2. Start("keys", kind, T)
    BY <1>12 DEF ResumeAll
  <2>3. /\ op' \in [Agents -> [kind : {"none", "pause", "resume"},
                               todo : SUBSET Targets, sent : SUBSET Targets]]
        /\ KindInv' /\ \A b \in Agents : op'[b].todo \subseteq op[b].todo \cup T
    <3>1. "keys" \in Agents /\ kind \in {"pause", "resume"}
      BY DEF Agents
    <3>q. QED
      BY <1>t, <2>1, <2>2, <3>1, OpTypes
  <2>4. TypeOK'
    BY <1>12, <1>t, <2>3 DEF ResumeAll, TypeOK
  <2>5. \A b \in Agents : \A t \in op'[b].todo :
          t \in op[b].todo \/ t[2] = active[t[1]]
    BY <2>1, <2>3
  <2>q. QED
    BY <1>12, <2>3, <2>4, <2>5, Frame DEF ResumeAll
<1>13. CASE FilePause
  <2> DEFINE kind == "pause"
             T    == InSlots(Registered \ paused)
  <2>1. T \in SUBSET Targets /\ \A t \in T : t[2] = active[t[1]]
    BY <1>t, SlotTargets DEF TypeOK, Registered
  <2>2. Start("render", kind, T)
    BY <1>13 DEF FilePause
  <2>3. /\ op' \in [Agents -> [kind : {"none", "pause", "resume"},
                               todo : SUBSET Targets, sent : SUBSET Targets]]
        /\ KindInv' /\ \A b \in Agents : op'[b].todo \subseteq op[b].todo \cup T
    <3>1. "render" \in Agents /\ kind \in {"pause", "resume"}
      BY DEF Agents
    <3>q. QED
      BY <1>t, <2>1, <2>2, <3>1, OpTypes
  <2>4. TypeOK'
    BY <1>13, <1>t, <2>3 DEF FilePause, TypeOK
  <2>5. \A b \in Agents : \A t \in op'[b].todo :
          t \in op[b].todo \/ t[2] = active[t[1]]
    BY <2>1, <2>3
  <2>q. QED
    BY <1>13, <2>3, <2>4, <2>5, Frame DEF FilePause
<1>14. CASE FileResume
  <2> DEFINE kind == "resume"
             T    == InSlots(paused)
  <2>1. T \in SUBSET Targets /\ \A t \in T : t[2] = active[t[1]]
    BY <1>t, SlotTargets DEF TypeOK, Registered
  <2>2. Start("render", kind, T)
    BY <1>14 DEF FileResume
  <2>3. /\ op' \in [Agents -> [kind : {"none", "pause", "resume"},
                               todo : SUBSET Targets, sent : SUBSET Targets]]
        /\ KindInv' /\ \A b \in Agents : op'[b].todo \subseteq op[b].todo \cup T
    <3>1. "render" \in Agents /\ kind \in {"pause", "resume"}
      BY DEF Agents
    <3>q. QED
      BY <1>t, <2>1, <2>2, <3>1, OpTypes
  <2>4. TypeOK'
    BY <1>14, <1>t, <2>3 DEF FileResume, TypeOK
  <2>5. \A b \in Agents : \A t \in op'[b].todo :
          t \in op[b].todo \/ t[2] = active[t[1]]
    BY <2>1, <2>3
  <2>q. QED
    BY <1>14, <2>3, <2>4, <2>5, Frame DEF FileResume
<1>15. CASE Join
  <2> DEFINE kind == "resume"
             T    == InSlots(paused)
  <2>1. T \in SUBSET Targets /\ \A t \in T : t[2] = active[t[1]]
    BY <1>t, SlotTargets DEF TypeOK, Registered
  <2>2. Start("main", kind, T)
    BY <1>15 DEF Join
  <2>3. /\ op' \in [Agents -> [kind : {"none", "pause", "resume"},
                               todo : SUBSET Targets, sent : SUBSET Targets]]
        /\ KindInv' /\ \A b \in Agents : op'[b].todo \subseteq op[b].todo \cup T
    <3>1. "main" \in Agents /\ kind \in {"pause", "resume"}
      BY DEF Agents
    <3>q. QED
      BY <1>t, <2>1, <2>2, <3>1, OpTypes
  <2>4. TypeOK'
    BY <1>15, <1>t, <2>3 DEF Join, TypeOK
  <2>5. \A b \in Agents : \A t \in op'[b].todo :
          t \in op[b].todo \/ t[2] = active[t[1]]
    BY <2>1, <2>3
  <2>q. QED
    BY <1>15, <2>3, <2>4, <2>5, Frame DEF Join
<1>16. CASE Abort
  <2>1. TypeOK' /\ KindInv'
    BY <1>16, <1>t DEF Abort, TypeOK, KindInv
  <2>q. QED
    BY <1>16, <2>1, Frame DEF Abort
<1>17. CASE UserFile
  <2>1. TypeOK' /\ KindInv'
    BY <1>17, <1>t DEF UserFile, TypeOK, KindInv
  <2>q. QED
    BY <1>17, <2>1, Frame DEF UserFile
<1>18. CASE Finish
  <2>1. TypeOK' /\ KindInv'
    BY <1>18, <1>t DEF Finish, TypeOK, KindInv
  <2>q. QED
    BY <1>18, <2>1, Frame DEF Finish
<1>19. CASE UNCHANGED vars
  <2>1. TypeOK' /\ KindInv'
    BY <1>19, <1>t DEF vars, TypeOK, KindInv
  <2>q. QED
    BY <1>19, <2>1, Frame DEF vars
<1>q. QED
  BY <1>1, <1>2, <1>3, <1>4, <1>5, <1>6, <1>7, <1>8, <1>9, <1>10, <1>11, <1>12, <1>13, <1>14, <1>15, <1>16, <1>17, <1>18, <1>19, Actions

\* Every reachable state satisfies the inductive invariant.
THEOREM PauseInvariant == Spec => []PauseInv
  BY InitInv, StepInv, PTL DEF Spec

\* Types of the pause controls, for any number of slots and chunks.
THEOREM PauseTypes == Spec => []TypeOK
<1>1. PauseInv => TypeOK
  BY DEF PauseInv
<1>q. QED
  BY <1>1, PauseInvariant, PTL

\* pause_control against the workers: no interleaving of pauses, resumes,
\* aborts and chunk boundaries leaves a suspended ffmpeg that is not the one
\* registered in its slot.
THEOREM StoppedAreReachable == Spec => []StoppedIsReachable
<1>1. PauseInv => StoppedIsReachable
  BY DEF PauseInv
<1>q. QED
  BY <1>1, PauseInvariant, PTL
=============================================================================
