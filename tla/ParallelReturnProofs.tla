----------------------- MODULE ParallelReturnProofs -------------------------
(***************************************************************************)
(* What the return value and the exit code of encode_chunks_parallel say,  *)
(* for any number of workers and chunks.  ReturnInv is inductive relative  *)
(* to IInv, and the properties about the ending follow from it.            *)
(***************************************************************************)
EXTENDS ParallelEncodeProofs

\* The steps that are no worker's and no ffmpeg's leave the workers alone.
LEMMA Frames ==
  ASSUME \/ \E s \in Slots : ChokeSnapshot(s)
         \/ SizeOver \/ SizeAbort \/ SizeSweep \/ ChokeKill
         \/ GuardWork \/ OnAbortInfo \/ OnAbortFlag \/ OnAbortSweep
         \/ UserFinish \/ MainJoin \/ MainGuardDone \/ MainGuardTimeout
         \/ MainCollect \/ MainQuality \/ MainSize \/ MainFinish
         \/ UNCHANGED vars
  PROVE  UNCHANGED <<todo, wpc, wchunk, results, enc, wrote>>
  BY DEF ChokeSnapshot, SizeOver, SizeAbort, SizeSweep, ChokeKill, GuardWork,
     OnAbortInfo, OnAbortFlag, OnAbortSweep, UserFinish, MainJoin,
     MainGuardDone, MainGuardTimeout, MainCollect, MainQuality, MainSize,
     MainFinish, vars, RenderRest, EncodeRest, MainRest, diskVars, workVars

(***************************************************************************)
(* What is missing.                                                        *)
(***************************************************************************)
LEMMA RecordsFailure ==
  ASSUME IInv, MissingInv, NEW s \in Slots, Holding(s),
         Record(s, 1), enc[wchunk[s]] = "none", UNCHANGED enc
  PROVE  MissingInv'
<1> USE DEF IInv, TypeOK, WorkTypeOK, Record, MissingInv, Remaining
<1>1. wchunk[s] \in Chunks /\ wchunk[s] # NoChunk
  BY DEF HoldInv
<1>2. \A t \in Slots : wchunk'[t] = IF t = s THEN NoChunk ELSE wchunk[t]
  OBVIOUS
<1>3. \A c \in Remaining' :
        \/ c \in todo' \/ <<c, 1>> \in results'
        \/ \E t \in Slots : wchunk'[t] = c
  BY <1>1, <1>2
<1>4. ASSUME NEW c \in Chunks, <<c, 1>> \in results'
      PROVE  /\ c \in Remaining' /\ c \notin todo'
             /\ \A t \in Slots : wchunk'[t] # c
  <2>1. CASE c = wchunk[s]
    BY <1>1, <1>2, <2>1 DEF HoldInv
  <2>2. CASE c # wchunk[s]
    BY <1>2, <1>4, <2>2, GuardAssumption
  <2> QED BY <2>1, <2>2
<1> QED BY <1>3, <1>4

\* Recording a success takes the chunk off the missing ones.
LEMMA RecordsSuccess ==
  ASSUME IInv, MissingInv, NEW s \in Slots, Holding(s), Record(s, 0),
         enc'[wchunk[s]] # "none",
         \A c \in Chunks : c # wchunk[s] => enc'[c] = enc[c]
  PROVE  MissingInv'
<1> USE DEF IInv, TypeOK, WorkTypeOK, Record, MissingInv, Remaining
<1>1. wchunk[s] \in Chunks /\ wchunk[s] # NoChunk
  BY DEF HoldInv
<1>2. \A t \in Slots : wchunk'[t] = IF t = s THEN NoChunk ELSE wchunk[t]
  OBVIOUS
<1>3. \A c \in Chunks : <<c, 1>> \in results' <=> <<c, 1>> \in results
  OBVIOUS
<1>4. \A c \in Remaining' :
        \/ c \in todo' \/ <<c, 1>> \in results'
        \/ \E t \in Slots : wchunk'[t] = c
  BY <1>1, <1>2, <1>3
<1>5. ASSUME NEW c \in Chunks, <<c, 1>> \in results'
      PROVE  /\ c \in Remaining' /\ c \notin todo'
             /\ \A t \in Slots : wchunk'[t] # c
  BY <1>1, <1>2, <1>3, <1>5, GuardAssumption
<1> QED BY <1>4, <1>5

\* MissingInv is kept: every step that gives a chunk up records why.
LEMMA MissingSteps ==
  ASSUME IInv, MissingInv, PartInv, [Next]_vars PROVE MissingInv'
<1> USE DEF diskVars, workVars
<1>1. ASSUME NEW s \in Slots, Take(s) PROVE MissingInv'
  BY <1>1, GuardAssumption
  DEF Take, MissingInv, Remaining, IInv, TypeOK, WorkTypeOK, HoldInv, Holding
<1>2. ASSUME NEW s \in Slots, Promote(s) PROVE MissingInv'
  BY <1>2 DEF Promote, PromotePart, MissingInv, Remaining, IInv, TypeOK,
     WorkTypeOK, DiskTypeOK, HoldInv, Holding
<1>3. ASSUME NEW s \in Slots, EncodeRaise(s) \/ FixRaise(s) PROVE MissingInv'
  <2>1. Holding(s) /\ enc[wchunk[s]] = "none"
    BY <1>3 DEF EncodeRaise, FixRaise, IInv, DiskInv, Holding
  <2> QED BY <1>3, <2>1, RecordsFailure
      DEF EncodeRaise, FixRaise, RecordException, Holding
<1>4. ASSUME NEW s \in Slots, JudgeRecord(s) PROVE MissingInv'
  <2>1. /\ wpc[s] = "judge" /\ Holding(s)
        /\ MyProc(s) = <<wchunk[s], "encode">> /\ UNCHANGED enc
    BY <1>4 DEF JudgeRecord, Holding, MyProc, Fixing
  <2>2. CASE ps[MyProc(s)] = "ok"
    BY <1>4, <2>1, <2>2, RecordsSuccess DEF JudgeRecord, PartInv
  <2>3. CASE ps[MyProc(s)] # "ok"
    <3>1. enc[wchunk[s]] = "none"
      BY <2>1, <2>3 DEF IInv, DiskInv
    <3> QED BY <1>4, <2>1, <2>3, <3>1, RecordsFailure DEF JudgeRecord
  <2> QED BY <2>2, <2>3
<1>5. ASSUME NEW s \in Slots, FixEncoded(s) \/ FixBroken(s) PROVE MissingInv'
  <2>1. Holding(s) /\ enc[wchunk[s]] = "none" /\ UNCHANGED enc
    BY <1>5 DEF FixEncoded, FixBroken, Quarantine, IInv, DiskInv, Holding
  <2>2. Record(s, 1) \/ UNCHANGED <<todo, wchunk, results>>
    BY <1>5 DEF FixEncoded, FixBroken
  <2>3. CASE Record(s, 1)
    BY <2>1, <2>3, RecordsFailure
  <2>4. CASE UNCHANGED <<todo, wchunk, results>>
    BY <2>1, <2>4 DEF MissingInv, Remaining
  <2> QED BY <2>2, <2>3, <2>4
<1>6. ASSUME NEW s \in Slots, FixPromote(s) PROVE MissingInv'
  <2>1. Holding(s) /\ wchunk[s] \in Chunks /\ part[wchunk[s]] # "none"
    BY <1>6 DEF FixPromote, Holding, HoldInv, PartInv, IInv, TypeOK, WorkTypeOK
  <2>2. enc' = [enc EXCEPT ![wchunk[s]] = part[wchunk[s]]]
    BY <1>6 DEF FixPromote, PromotePart
  <2>3. /\ enc'[wchunk[s]] # "none"
        /\ \A c \in Chunks : c # wchunk[s] => enc'[c] = enc[c]
    BY <2>1, <2>2 DEF IInv, TypeOK, DiskTypeOK
  <2> QED BY <1>6, <2>1, <2>3, RecordsSuccess DEF FixPromote
<1>7. CASE UNCHANGED <<enc, todo, wchunk, results>>
  BY <1>7 DEF MissingInv, Remaining
<1> QED BY <1>1, <1>2, <1>3, <1>4, <1>5, <1>6, <1>7, Actions, Frames
    DEF LoopCheck, Prepare, Quarantine, Spawn, Launch, Register, Reap,
       JudgeFix,
        Exit

(***************************************************************************)
(* What an encoder has written.                                            *)
(***************************************************************************)
LEMMA PartSteps ==
  ASSUME IInv, PartInv, LeaveInv, [Next]_vars PROVE PartInv'
<1> USE DEF PartInv, IInv, TypeOK, WorkTypeOK, diskVars
<1>1. ASSUME NEW s \in Slots, LoopCheck(s) \/ JudgeFix(s) PROVE PartInv'
  BY <1>1 DEF LoopCheck, JudgeFix, Goto
<1>2. ASSUME NEW s \in Slots, Take(s) PROVE PartInv'
  BY <1>2 DEF Take, Goto
<1>3. ASSUME NEW s \in Slots, Prepare(s) PROVE PartInv'
  BY <1>3 DEF Prepare, Quarantine, Goto, Fixing, HoldInv, Holding, DiskTypeOK
<1>4. ASSUME NEW s \in Slots, Spawn(s) PROVE PartInv'
  BY <1>4 DEF Spawn, Launch, Goto, Fixing, HoldInv, Holding, DiskTypeOK,
     ProcTypeOK, Procs
<1>5. ASSUME NEW s \in Slots, Register(s) PROVE PartInv'
  BY <1>5 DEF Register, Terminate, Goto, Fixing, ProcTypeOK, HoldInv, Holding,
     Procs
<1>6. ASSUME NEW s \in Slots, Reap(s) PROVE PartInv'
  BY <1>6 DEF Reap, Goto, Fixing
<1>7. ASSUME NEW s \in Slots, Promote(s) PROVE PartInv'
  BY <1>7 DEF Promote, PromotePart, Goto, Fixing, MyProc, HoldInv, Holding,
     DiskTypeOK, Procs
<1>8. ASSUME NEW s \in Slots, EncodeRaise(s) PROVE PartInv'
  BY <1>8 DEF EncodeRaise, RecordException, Record, Goto, ProcTypeOK, Running,
     HoldInv, Holding, Procs
<1>9. ASSUME NEW s \in Slots, JudgeRecord(s) PROVE PartInv'
  BY <1>9 DEF JudgeRecord, Record, Goto
<1>10. ASSUME NEW s \in Slots, FixEncoded(s) PROVE PartInv'
  BY <1>10 DEF FixEncoded, Quarantine, Record, Goto, HoldInv, Holding,
     DiskTypeOK
<1>11. ASSUME NEW s \in Slots, FixBroken(s) PROVE PartInv'
  BY <1>11 DEF FixBroken, Quarantine, Record, Goto, HoldInv, Holding,
     DiskTypeOK
<1>12. ASSUME NEW s \in Slots, FixPromote(s) PROVE PartInv'
  BY <1>12 DEF FixPromote, PromotePart, Record, Goto, HoldInv, Holding,
     DiskTypeOK
<1>13. ASSUME NEW s \in Slots, FixRaise(s) PROVE PartInv'
  BY <1>13 DEF FixRaise, Record, Goto
<1>14. ASSUME NEW p \in Procs, Exit(p) PROVE PartInv'
  BY <1>14 DEF Exit, workVars, ProcTypeOK, Running, ReapedInv, Exited, Procs,
     HoldInv, Holding
<1>15. CASE SizeSweep \/ ChokeKill \/ OnAbortSweep
  BY <1>15 DEF SizeSweep, ChokeKill, OnAbortSweep, Terminate, RenderRest,
     EncodeRest, workVars, ProcTypeOK, Procs, HoldInv, Holding
<1>16. CASE MainCollect
  BY <1>16 DEF MainCollect, MainRest, workVars, LeaveInv
<1>17. CASE UNCHANGED <<todo, wrote, ps, wpc, wchunk, part, enc>>
  BY <1>17
<1> QED BY <1>1, <1>2, <1>3, <1>4, <1>5, <1>6, <1>7, <1>8, <1>9, <1>10,
    <1>11, <1>12, <1>13, <1>14, <1>15, <1>16, <1>17, Actions
    DEF SizeOver, SizeAbort, ChokeSnapshot, GuardWork, OnAbortInfo,
       OnAbortFlag, UserFinish, MainJoin,
     MainGuardDone, MainGuardTimeout, MainQuality, MainSize,
     MainFinish, vars, RenderRest, EncodeRest, MainRest, workVars

(***************************************************************************)
(* Who has left.                                                           *)
(***************************************************************************)
\* A worker that is past its loop head stays in the loop.
LEMMA WorkersStay ==
  ASSUME TypeOK, NEW s \in Slots,
         \/ Prepare(s) \/ Spawn(s) \/ Register(s) \/ Reap(s) \/ Promote(s)
         \/ EncodeRaise(s) \/ JudgeFix(s) \/ JudgeRecord(s) \/ FixEncoded(s)
         \/ FixBroken(s) \/ FixPromote(s) \/ FixRaise(s)
  PROVE  /\ wpc[s] # "gone"
         /\ UNCHANGED <<todo, abort, finish, mpc, rpc, outcome>>
         /\ \A t \in Slots : wpc'[t] = "gone" <=> wpc[t] = "gone"
<1>1. PICK pc \in WorkerPCs \ {"gone"} : Goto(s, pc)
  BY DEF Prepare, Spawn, Register, Reap, Promote, EncodeRaise, RecordException,
     JudgeFix, JudgeRecord, FixEncoded, FixBroken, FixPromote, FixRaise,
     Record,
     WorkerPCs
<1>2. wpc[s] # "gone" /\ UNCHANGED <<todo, abort, finish, mpc, rpc, outcome>>
  BY DEF Prepare, Spawn, Register, Reap, Promote, EncodeRaise, RecordException,
     JudgeFix, JudgeRecord, FixEncoded, FixBroken, FixPromote, FixRaise,
     Record,
     mainVars, rendVars, abortVars
<1> QED BY <1>1, <1>2 DEF Goto, TypeOK, WorkTypeOK

\* LeaveInv is kept: a worker leaves unasked only at an empty queue.
LEMMA LeaveSteps ==
  ASSUME TypeOK, LeaveInv, [Next]_vars PROVE LeaveInv'
<1> USE DEF LeaveInv, mainVars, rendVars, abortVars
<1>1. ASSUME NEW s \in Slots, LoopCheck(s) \/ Take(s) PROVE LeaveInv'
  BY <1>1 DEF LoopCheck, Take, Goto, TypeOK, WorkTypeOK
<1>2. ASSUME NEW s \in Slots,
             \/ Prepare(s) \/ Spawn(s) \/ Register(s) \/ Reap(s) \/ Promote(s)
             \/ EncodeRaise(s) \/ JudgeFix(s) \/ JudgeRecord(s) \/ FixEncoded(s)
             \/ FixBroken(s) \/ FixPromote(s) \/ FixRaise(s)
      PROVE  LeaveInv'
  <2>1. /\ wpc[s] # "gone"
        /\ UNCHANGED <<todo, abort, finish, mpc, rpc, outcome>>
        /\ \A t \in Slots : wpc'[t] = "gone" <=> wpc[t] = "gone"
    BY <1>2, WorkersStay
  <2> QED BY <2>1
<1>3. ASSUME NEW p \in Procs, Exit(p) PROVE LeaveInv'
  BY <1>3 DEF Exit, workVars
<1>4. CASE SizeOver \/ SizeAbort \/ SizeSweep \/ ChokeKill
  BY <1>4 DEF SizeOver, SizeAbort, SizeSweep, ChokeKill, RenderRest, workVars
<1>5. ASSUME NEW s \in Slots, ChokeSnapshot(s) PROVE LeaveInv'
  BY <1>5 DEF ChokeSnapshot, RenderRest, workVars
<1>6. CASE GuardWork \/ OnAbortInfo \/ OnAbortFlag \/ OnAbortSweep \/ UserFinish
  BY <1>6 DEF GuardWork, OnAbortInfo, OnAbortFlag, OnAbortSweep, UserFinish,
     EncodeRest, workVars, TypeOK, ControlTypeOK
<1>7. CASE MainJoin \/ MainGuardDone \/ MainGuardTimeout
  BY <1>7 DEF MainJoin, MainGuardDone, MainGuardTimeout, MainRest, workVars
<1>8. CASE MainCollect \/ MainQuality \/ MainFinish
  BY <1>8 DEF MainCollect, MainQuality, MainFinish, ExitWith, MainRest,
     workVars
<1>9. CASE MainSize
  BY <1>9, EncodeAssumption DEF MainSize, ExitWith, MainRest, workVars
<1>10. CASE UNCHANGED vars
  BY <1>10 DEF vars, workVars
<1> QED BY <1>1, <1>2, <1>3, <1>4, <1>5, <1>6, <1>7, <1>8, <1>9, <1>10, Actions

(***************************************************************************)
(* What was skipped.                                                       *)
(***************************************************************************)
LEMMA SkipSteps ==
  ASSUME TypeOK, LeaveInv, SkipInv, [Next]_vars PROVE SkipInv'
<1> USE DEF SkipInv, mainVars, diskVars
<1>1. ASSUME NEW s \in Slots,
             \/ LoopCheck(s) \/ Take(s)
             \/ Prepare(s) \/ Spawn(s) \/ Register(s) \/ Reap(s) \/ Promote(s)
             \/ EncodeRaise(s) \/ JudgeFix(s) \/ JudgeRecord(s) \/ FixEncoded(s)
             \/ FixBroken(s) \/ FixPromote(s) \/ FixRaise(s)
      PROVE  SkipInv'
  <2>1. mpc = "join"
    BY <1>1, WorkersStay DEF LoopCheck, Take, LeaveInv
  <2>2. UNCHANGED <<mpc, skipped>>
    BY <1>1 DEF LoopCheck, Take, Prepare, Spawn, Register, Reap, Promote,
       EncodeRaise, JudgeFix, JudgeRecord, FixEncoded, FixBroken, FixPromote,
       FixRaise
  <2> QED BY <2>1, <2>2
<1>2. CASE ChokeKill
  BY <1>2 DEF ChokeKill, RenderRest, LeaveInv
<1>3. CASE MainJoin \/ MainGuardDone \/ MainGuardTimeout
  BY <1>3 DEF MainJoin, MainGuardDone, MainGuardTimeout, MainRest
<1>4. CASE MainCollect
  BY <1>4 DEF MainCollect, MainRest, TypeOK, WorkTypeOK
<1>5. CASE MainQuality \/ MainSize \/ MainFinish
  BY <1>5 DEF MainQuality, MainSize, MainFinish, ExitWith, MainRest
<1>6. CASE UNCHANGED <<mpc, skipped, choked, enc, part>>
  BY <1>6
<1> QED BY <1>1, <1>2, <1>3, <1>4, <1>5, <1>6, Actions
    DEF Exit, SizeOver, SizeAbort, SizeSweep, ChokeSnapshot, GuardWork,
        OnAbortInfo, OnAbortFlag, OnAbortSweep, UserFinish, vars, RenderRest,
        EncodeRest

(***************************************************************************)
(* Why a call was aborted.                                                 *)
(***************************************************************************)
LEMMA CauseSteps ==
  ASSUME TypeOK, GuardInv, LeaveInv, CauseInv, [Next]_vars PROVE CauseInv'
<1> USE DEF CauseInv, Cause, TypeOK, guardVars, mainVars, rendVars, abortVars
<1>1. ASSUME NEW s \in Slots,
             \/ LoopCheck(s) \/ Take(s)
             \/ Prepare(s) \/ Spawn(s) \/ Register(s) \/ Reap(s) \/ Promote(s)
             \/ EncodeRaise(s) \/ JudgeFix(s) \/ JudgeRecord(s) \/ FixEncoded(s)
             \/ FixBroken(s) \/ FixPromote(s) \/ FixRaise(s) \/ ChokeSnapshot(s)
      PROVE  CauseInv'
  <2>1. /\ UNCHANGED <<gpc, gcur, infra, gaborted, decision, abortVars, mpc>>
        /\ rpc' = "sweep" => rpc = "sweep"
    BY <1>1 DEF LoopCheck, Take, Prepare, Spawn, Register, Reap, Promote,
       EncodeRaise, JudgeFix, JudgeRecord, Submit, FixEncoded, FixBroken,
       FixPromote, FixRaise, ChokeSnapshot, RenderRest
  <2> QED BY <2>1
<1>2. CASE GuardWork
  <2>1. CASE GuardTake
    BY <1>2, <2>1 DEF GuardWork, GuardTake, EncodeRest
  <2>2. CASE GuardInfraFail
    BY <1>2, <2>2, GuardAssumption
    DEF GuardWork, GuardInfraFail, NoScore, EncodeRest, GuardInv, GuardTypeOK
  <2>3. CASE GuardPass
    BY <1>2, <2>3 DEF GuardWork, GuardPass, Score, EncodeRest, GuardInv,
       GuardTypeOK
  <2>4. CASE GuardFail
    BY <1>2, <2>4 DEF GuardWork, GuardFail, Score, EncodeRest, GuardInv,
       GuardTypeOK
  <2> QED BY <1>2, <2>1, <2>2, <2>3, <2>4 DEF GuardWork, GuardStep
<1>3. CASE OnAbortInfo \/ OnAbortFlag \/ OnAbortSweep
  BY <1>3 DEF OnAbortInfo, OnAbortFlag, OnAbortSweep, EncodeRest, GuardInv
<1>4. CASE SizeOver \/ SizeAbort \/ SizeSweep \/ ChokeKill
  BY <1>4 DEF SizeOver, SizeAbort, SizeSweep, ChokeKill, RenderRest, LeaveInv
<1>5. CASE MainJoin \/ MainGuardDone \/ MainGuardTimeout
  BY <1>5 DEF MainJoin, PutSentinel, MainGuardDone, MainGuardTimeout,
     ReapInflight, MainRest
<1>6. CASE MainCollect \/ MainQuality \/ MainSize \/ MainFinish
  BY <1>6 DEF MainCollect, MainQuality, MainSize, MainFinish, ExitWith,
     MainRest
<1>7. CASE UNCHANGED <<guardVars, abortVars, rendVars, mpc>>
  BY <1>7
<1> QED BY <1>1, <1>2, <1>3, <1>4, <1>5, <1>6, <1>7, Actions
    DEF Exit, UserFinish, vars

(***************************************************************************)
(* What the VMAF guard has judged.                                         *)
(***************************************************************************)
Queued(c) == \E i \in 1..Len(gq) : gq[i] = c

\* What Append and Tail do to the positions of a queue.
LEMMA AppendKeeps ==
  ASSUME NEW S, NEW q \in Seq(S), NEW e \in S
  PROVE  /\ Append(q, e) \in Seq(S) /\ Len(Append(q, e)) = Len(q) + 1
         /\ \A i \in 1..Len(q) : Append(q, e)[i] = q[i]
         /\ Append(q, e)[Len(q) + 1] = e
  BY AppendProperties

\* Tail moves every position down by one.
LEMMA TailShifts ==
  ASSUME NEW S, NEW q \in Seq(S), q # << >>
  PROVE  /\ Len(q) \in Nat \ {0}
         /\ Tail(q) \in Seq(S) /\ Len(Tail(q)) = Len(q) - 1
         /\ \A i \in 1..Len(q) - 1 : Tail(q)[i] = q[i + 1]
         /\ Head(q) = q[1] /\ Head(q) \in S
  BY HeadTailProperties, EmptySeq, LenProperties

\* Submitting a chunk puts it in the queue, unless the guard has aborted.
LEMMA SubmitQueues ==
  ASSUME GuardTypeOK, GuardOn, NEW c \in Chunks, Submit(c),
         \A i \in 1..Len(gq) : gq[i] # Sentinel
  PROVE  /\ UNCHANGED <<gpc, gcur, infra, gaborted, decision>>
         /\ gaborted \/ Queued(c)'
         /\ \A d \in Chunks : Queued(d) => Queued(d)'
         /\ gq' = << >> => gq = << >>
         /\ \A i \in 1..Len(gq') : gq'[i] # Sentinel
<1> USE GuardAssumption DEF GuardTypeOK, Submit, Queued
<1>1. CASE gaborted
  BY <1>1
<1>2. CASE ~gaborted
  <2> DEFINE n == Len(gq)
  <2>1. gq' = Append(gq, c)
    BY <1>2
  <2>2. /\ n \in Nat /\ Len(gq') = n + 1 /\ gq'[n + 1] = c
        /\ \A i \in 1..n : gq'[i] = gq[i]
    BY <2>1, AppendKeeps, LenProperties
  <2> HIDE DEF n
  <2>3. Queued(c)' /\ \A d \in Chunks : Queued(d) => Queued(d)'
    BY <2>2 DEF n
  <2>4. \A i \in 1..Len(gq') : gq'[i] # Sentinel
    <3> TAKE i \in 1..Len(gq')
    <3> QED BY <2>2 DEF n
  <2>5. gq' # << >>
    <3>1. Len(gq') # 0
      BY <2>2
    <3>2. Len(<< >>) = 0
      BY EmptySeq
    <3> QED BY <3>1, <3>2
  <2> QED BY <2>3, <2>4, <2>5
<1> QED BY <1>1, <1>2

\* JudgedInv is kept: a chunk leaves one stage of the guard for the next.
LEMMA JudgedSteps ==
  ASSUME GuardOn, IInv, LeaveInv, JudgedInv, [Next]_vars PROVE JudgedInv'
<1> DEFINE Judging(c) == \E s \in Slots : wpc[s] = "judge" /\ wchunk[s] = c
           Sound(c) == gaborted \/ decision[c] # "none" \/ gcur = c
                       \/ Queued(c) \/ Judging(c)
<1> USE DEF JudgedInv, Queued, IInv, TypeOK, mainVars, rendVars, diskVars
\* Worker steps that neither finish a chunk nor leave "judge".
<1>1. ASSUME NEW s \in Slots,
             \/ LoopCheck(s) \/ Take(s) \/ Prepare(s) \/ Spawn(s) \/ Register(s)
             \/ Reap(s) \/ EncodeRaise(s) \/ FixEncoded(s)
             \/ FixBroken(s) \/ FixRaise(s)
      PROVE  JudgedInv'
  <2>1. /\ UNCHANGED <<guardVars, enc, mpc>> /\ wpc[s] # "judge"
        /\ \A t \in Slots \ {s} : wpc'[t] = wpc[t] /\ wchunk'[t] = wchunk[t]
    BY <1>1 DEF LoopCheck, Take, Prepare, Quarantine, Spawn, Launch, Register,
       Reap, EncodeRaise, RecordException, FixEncoded, FixBroken, FixRaise,
       Record, Goto, WorkTypeOK
  <2>2. \A c \in Chunks : Judging(c) => Judging(c)'
    BY <2>1
  <2> QED BY <2>1, <2>2 DEF guardVars
<1>2. ASSUME NEW s \in Slots, JudgeFix(s) PROVE JudgedInv'
  <2>1. enc[wchunk[s]] = "none"
    BY <1>2 DEF JudgeFix, MyProc, Fixing, DiskInv, Holding
  <2>2. /\ UNCHANGED <<guardVars, enc, mpc>>
        /\ \A t \in Slots \ {s} : wpc'[t] = wpc[t] /\ wchunk'[t] = wchunk[t]
    BY <1>2 DEF JudgeFix, Goto, WorkTypeOK
  <2>3. \A c \in Chunks : Judging(c) => Judging(c)' \/ c = wchunk[s]
    BY <2>2
  <2> QED BY <2>1, <2>2, <2>3 DEF guardVars
<1>3. ASSUME NEW s \in Slots, Promote(s) PROVE JudgedInv'
  <2>1. /\ UNCHANGED <<guardVars, mpc, wchunk>> /\ wpc[s] # "judge"
        /\ wpc' = [wpc EXCEPT ![s] = "judge"]
        /\ \A c \in Chunks : c # wchunk[s] => enc'[c] = enc[c]
    BY <1>3 DEF Promote, PromotePart, Goto, DiskTypeOK
  <2>2. Judging(wchunk[s])' /\ \A c \in Chunks : Judging(c) => Judging(c)'
    BY <2>1 DEF WorkTypeOK
  <2> QED BY <2>1, <2>2 DEF guardVars
<1>4. ASSUME NEW s \in Slots, JudgeRecord(s) \/ FixPromote(s) PROVE JudgedInv'
  <2>1. /\ Holding(s) /\ wchunk[s] \in Chunks /\ wpc[s] # "gone"
        /\ \A t \in Slots \ {s} : wpc'[t] = wpc[t] /\ wchunk'[t] = wchunk[t]
        /\ \A c \in Chunks : c # wchunk[s] => enc'[c] = enc[c]
        /\ mpc = "join" /\ UNCHANGED mpc
    BY <1>4 DEF JudgeRecord, FixPromote, PromotePart, Record, Goto, WorkTypeOK,
       DiskTypeOK, HoldInv, Holding, LeaveInv
  <2>2. \A c \in Chunks : Judging(c) => Judging(c)' \/ c = wchunk[s]
    BY <2>1
  <2>3. CASE Submit(wchunk[s])
    BY <2>1, <2>2, <2>3, SubmitQueues
  <2>4. CASE UNCHANGED guardVars /\ UNCHANGED enc /\ enc[wchunk[s]] = "none"
    BY <2>1, <2>2, <2>4 DEF guardVars
  <2>5. JudgeRecord(s) /\ ps[MyProc(s)] # "ok" => enc[wchunk[s]] = "none"
    BY DEF JudgeRecord, MyProc, Fixing, DiskInv, Holding
  <2> QED BY <1>4, <2>3, <2>4, <2>5 DEF JudgeRecord, FixPromote
<1>5. CASE GuardWork
  <2>1. UNCHANGED <<mpc, enc, wpc, wchunk>>
    BY <1>5 DEF GuardWork, EncodeRest, workVars
  <2>2. \A c : Judging(c)' <=> Judging(c)
    BY <2>1
  <2>3. CASE GuardTake
    <3> DEFINE n == Len(gq)
    <3>1. /\ gq' = Tail(gq) /\ n \in Nat \ {0} /\ Len(gq') = n - 1
          /\ \A i \in 1..n - 1 : gq'[i] = gq[i + 1]
          /\ Head(gq) = gq[1] /\ gq' \in Seq(Chunks \cup {Sentinel})
      BY <2>3, TailShifts DEF GuardTake, GuardTypeOK
    <3>n. n = Len(gq)
      OBVIOUS
    <3> HIDE DEF n
    <3>2. \A c \in Chunks : Queued(c) => Queued(c)' \/ c = Head(gq)
      <4> SUFFICES ASSUME NEW c \in Chunks, NEW i \in 1..n, gq[i] = c, i # 1
                   PROVE  \E j \in 1..n - 1 : gq'[j] = c
        BY <3>1, <3>n
      <4> DEFINE j == i - 1
      <4>1. j \in 1..n - 1 /\ j + 1 = i
        BY <3>1
      <4> HIDE DEF j
      <4> QED BY <3>1, <4>1
    <3>3. ASSUME NEW i \in 1..Len(gq'), gq'[i] = Sentinel
          PROVE  mpc' # "join" /\ i = Len(gq')
      <4>1. i \in 1..n - 1 /\ i + 1 \in 1..n
        BY <3>1
      <4>2. gq[i + 1] = Sentinel
        BY <3>1, <3>3, <4>1
      <4>3. mpc # "join" /\ i + 1 = n
        BY <3>n, <4>1, <4>2
      <4> QED BY <2>1, <3>1, <4>1, <4>3
    <3>4. CASE Head(gq) = Sentinel
      <4>1. 1 \in 1..n
        BY <3>1
      <4>2. n = 1 /\ mpc # "join"
        BY <3>1, <3>4, <3>n, <4>1
      <4>3. gq' = << >>
        BY <3>1, <4>2, EmptySeq
      <4> QED BY <2>1, <2>2, <2>3, <3>2, <3>3, <3>4, <4>2, <4>3, GuardAssumption
          DEF GuardTake
    <3>5. CASE Head(gq) # Sentinel /\ gaborted
      BY <2>1, <2>3, <3>3, <3>5 DEF GuardTake
    <3>6. CASE Head(gq) # Sentinel /\ ~gaborted
      <4>1. gpc' = "measuring" /\ gcur' = Head(gq) /\ gcur = NoChunk
            /\ UNCHANGED <<gaborted, decision>>
        BY <2>3, <3>6 DEF GuardTake
      <4>2. \A c \in Chunks : gcur # c
        BY <4>1, GuardAssumption
      <4> QED BY <2>1, <2>2, <3>2, <3>3, <4>1, <4>2
    <3> QED BY <3>4, <3>5, <3>6
  <2>4. CASE GuardInfraFail \/ GuardPass \/ GuardFail
    <3>1. /\ UNCHANGED gq /\ gpc' \in {"idle", "notify"}
          /\ gpc' = "idle" => gcur' = NoChunk
          /\ \A c \in Chunks : gcur = c => decision'[c] # "none"
          /\ \A c \in Chunks : decision[c] # "none" => decision'[c] # "none"
          /\ gaborted => gaborted'
      BY <2>4 DEF GuardInfraFail, GuardPass, GuardFail, NoScore, Score,
         GuardTypeOK
    <3> QED BY <2>1, <2>2, <3>1
  <2> QED BY <1>5, <2>3, <2>4 DEF GuardWork, GuardStep
<1>6. CASE OnAbortInfo \/ OnAbortFlag \/ OnAbortSweep
  BY <1>6 DEF OnAbortInfo, OnAbortFlag, OnAbortSweep, EncodeRest, workVars,
     GuardInv
<1>7. CASE MainJoin
  <2> DEFINE n == Len(gq)
  <2>1. /\ gq' = Append(gq, Sentinel) /\ mpc = "join" /\ mpc' = "guard"
        /\ UNCHANGED <<gpc, gcur, gaborted, decision, enc, wpc, wchunk>>
    BY <1>7 DEF MainJoin, PutSentinel, MainRest, workVars
  <2>2. /\ n \in Nat /\ Len(gq') = n + 1
        /\ \A i \in 1..n : gq'[i] = gq[i] /\ gq[i] # Sentinel
    BY <2>1, AppendKeeps, LenProperties DEF GuardTypeOK
  <2>3. \A c \in Chunks : Queued(c) => Queued(c)'
    BY <2>2
  <2>4. \A i \in 1..Len(gq') : gq'[i] = Sentinel => i = Len(gq')
    BY <2>2
  <2>5. \A c \in Chunks : Judging(c) => Judging(c)'
    BY <2>1
  <2> QED BY <2>1, <2>3, <2>4, <2>5
<1>8. CASE MainGuardTimeout
  BY <1>8 DEF MainGuardTimeout, ReapInflight, MainRest, workVars
<1>9. CASE MainGuardDone \/ MainCollect \/ MainQuality \/ MainSize \/ MainFinish
  BY <1>9 DEF MainGuardDone, MainCollect, MainQuality, MainSize, MainFinish,
     ExitWith, MainRest, workVars, guardVars
<1>10. CASE UNCHANGED <<guardVars, enc, wpc, wchunk, mpc>>
  BY <1>10 DEF guardVars
<1> QED BY <1>1, <1>2, <1>3, <1>4, <1>5, <1>6, <1>7, <1>8, <1>9, <1>10, Actions
    DEF Exit, ChokeSnapshot, SizeOver, SizeAbort, SizeSweep, ChokeKill,
        UserFinish, vars, RenderRest, workVars

(***************************************************************************)
(* The ending.                                                             *)
(***************************************************************************)
\* After the call nothing changes that its ending was decided on; the guard
\* may only go on when its drain timed out.
LEMMA EndedStays ==
  ASSUME TypeOK, LeaveInv, CauseInv, outcome # "none", [Next]_vars
  PROVE  /\ UNCHANGED <<outcome, enc, part, skipped, results, sized>>
         /\ ~StopTimesOut => UNCHANGED <<qinfo, decision, infra, abort>>
<1> USE DEF LeaveInv, mainVars, rendVars, diskVars, workVars, abortVars,
   guardVars
<1>1. mpc = "exited" /\ rpc = "gone" /\ \A s \in Slots : wpc[s] = "gone"
  OBVIOUS
<1>2. \A s \in Slots : ~(LoopCheck(s) \/ Take(s) \/ ChokeSnapshot(s))
  BY <1>1 DEF LoopCheck, Take, ChokeSnapshot
<1>3. CASE GuardWork \/ OnAbortInfo \/ OnAbortFlag \/ OnAbortSweep
  <2>1. UNCHANGED <<outcome, enc, part, skipped, results, sized>>
    BY <1>3 DEF GuardWork, OnAbortInfo, OnAbortFlag, OnAbortSweep, EncodeRest
  <2>2. gpc # "gone"
    BY <1>3 DEF GuardWork, GuardStep, GuardTake, GuardInfraFail, GuardPass,
       GuardFail, NoScore, Score, OnAbortInfo, OnAbortFlag, OnAbortSweep
  <2> QED BY <1>1, <2>1, <2>2 DEF CauseInv
<1>4. CASE (\E p \in Procs : Exit(p)) \/ UNCHANGED vars
  BY <1>4 DEF Exit, vars
<1> QED BY <1>1, <1>2, <1>3, <1>4, Actions, WorkersStay
    DEF SizeOver, SizeAbort, SizeSweep, ChokeKill, UserFinish, MainJoin,
        MainGuardDone, MainGuardTimeout, MainCollect, MainQuality, MainSize,
        MainFinish

\* Only three steps end the call.
LEMMA Ends ==
  ASSUME TypeOK, LeaveInv, outcome = "none", outcome' # "none", [Next]_vars
  PROVE  MainQuality \/ MainSize \/ MainFinish
<1> USE DEF mainVars
<1> QED BY Actions, WorkersStay
    DEF LoopCheck, Take, Exit, ChokeSnapshot, SizeOver, SizeAbort, SizeSweep,
        ChokeKill, GuardWork, OnAbortInfo, OnAbortFlag, OnAbortSweep,
        UserFinish, MainJoin, MainGuardDone, MainGuardTimeout, MainCollect,
        vars, RenderRest, EncodeRest

\* With the queue empty and the workers gone, what is missing has failed.
LEMMA MissingHasFailed ==
  ASSUME IInv, MissingInv, LeaveInv, mpc = "finish", todo = {}
  PROVE  Remaining \subseteq skipped \cup Failures
<1> SUFFICES ASSUME NEW c \in Remaining PROVE <<c, 1>> \in results
  BY DEF Failures, Remaining
<1>1. \A s \in Slots : wchunk[s] = NoChunk
  BY DEF LeaveInv, IInv, HoldInv, Holding
<1> QED BY <1>1, GuardAssumption DEF MissingInv, Remaining

\* MainFinish returns nothing only when nothing is missing.
LEMMA EmptySteps ==
  ASSUME ~FinishCancels, IInv, MissingInv, LeaveInv, CauseInv,
         EmptyReturnIsComplete, [Next]_vars
  PROVE  EmptyReturnIsComplete'
<1> USE DEF EmptyReturnIsComplete, Remaining
<1>1. CASE outcome # "none"
  BY <1>1, EndedStays DEF IInv
<1>2. CASE outcome = "none" /\ outcome' = "done"
  <2>1. MainFinish
    BY <1>2, Ends DEF IInv, MainQuality, MainSize, ExitWith
  <2>2. /\ mpc = "finish" /\ UNCHANGED enc /\ Failures = {} /\ skipped = {}
        /\ finish => Remaining = {}
    BY <1>2, <2>1 DEF MainFinish, ExitWith, diskVars
  <2>3. todo = {} => Remaining = {}
    BY <2>2, MissingHasFailed
  <2> QED BY <2>2, <2>3 DEF LeaveInv
<1> QED BY <1>1, <1>2

\* MainFinish returns the skips only when they are all that is missing.
LEMMA SkipsSteps ==
  ASSUME ~FinishCancels, ~RenameFails, IInv, MissingInv, LeaveInv, SkipInv,
         CauseInv, SkipsAreDocumented, [Next]_vars
  PROVE  SkipsAreDocumented'
<1> USE DEF SkipsAreDocumented, Remaining
<1>1. CASE outcome # "none"
  BY <1>1, EndedStays DEF IInv
<1>2. CASE outcome = "none" /\ outcome' = "skipped"
  <2>1. MainFinish
    BY <1>2, Ends DEF IInv, MainQuality, MainSize, ExitWith
  <2>2. /\ mpc = "finish" /\ UNCHANGED <<enc, part, skipped>>
        /\ Failures = {} /\ skipped # {}
        /\ finish => Remaining = {}
    BY <1>2, <2>1 DEF MainFinish, ExitWith, diskVars
  <2>3. skipped \subseteq Remaining
    BY <2>2 DEF SkipInv, IInv, TypeOK, WorkTypeOK
  <2>4. Remaining \subseteq skipped
    <3>1. todo = {}
      BY <2>2, <2>3 DEF LeaveInv
    <3> QED BY <2>2, <3>1, MissingHasFailed
  <2> QED BY <2>2, <2>3, <2>4 DEF SkipInv
<1> QED BY <1>1, <1>2

\* Each way out of the call carries the cause CauseInv recorded.
LEMMA ExitSteps ==
  ASSUME ~StopTimesOut, IInv, LeaveInv, CauseInv, ExitMatchesCause, [Next]_vars
  PROVE  ExitMatchesCause'
<1> USE DEF ExitMatchesCause
<1>1. CASE outcome # "none"
  BY <1>1, EndedStays DEF IInv
<1>2. CASE outcome = "none" /\ outcome' # "none"
  <2>1. MainQuality \/ MainSize \/ MainFinish
    BY <1>2, Ends DEF IInv
  <2>2. /\ mpc \in {"quality", "size", "finish"} /\ gpc = "gone"
        /\ UNCHANGED <<guardVars, abortVars>>
    BY <2>1 DEF MainQuality, MainSize, MainFinish, MainRest, CauseInv
  <2>3. qinfo = NoChunk => \A c \in Chunks : decision[c] # "abort"
    BY <2>2 DEF CauseInv
  <2>4. CASE MainQuality
    BY <1>2, <2>2, <2>4 DEF MainQuality, ExitWith, CauseInv, Cause, guardVars,
       abortVars
  <2>5. CASE MainSize
    BY <1>2, <2>2, <2>3, <2>5 DEF MainSize, ExitWith, CauseInv, guardVars,
       abortVars
  <2>6. CASE MainFinish
    <3>1. outcome' \in {"user", "failed", "skipped", "done"}
      BY <2>6 DEF MainFinish, ExitWith
    <3>2. qinfo = NoChunk /\ ~abort
      <4>1. mpc = "finish"
        BY <2>6 DEF MainFinish
      <4> QED BY <4>1 DEF CauseInv
    <3> QED BY <2>2, <2>3, <3>1, <3>2 DEF guardVars, abortVars
  <2> QED BY <2>1, <2>4, <2>5, <2>6
<1> QED BY <1>1, <1>2

\* At MainFinish the guard has gone with an empty queue, so all is judged.
LEMMA ReturnedSteps ==
  ASSUME ~StopTimesOut, IInv, LeaveInv, CauseInv, JudgedInv,
         ReturnedChunksAreJudged, [Next]_vars
  PROVE  ReturnedChunksAreJudged'
<1> USE DEF ReturnedChunksAreJudged
<1>1. CASE outcome # "none"
  BY <1>1, EndedStays DEF IInv
<1>2. CASE GuardOn /\ outcome = "none" /\ outcome' = "done"
  <2>1. MainFinish
    BY <1>2, Ends DEF IInv, MainQuality, MainSize, ExitWith
  <2>2. mpc = "finish" /\ UNCHANGED <<enc, decision>>
    BY <2>1 DEF MainFinish, diskVars, guardVars
  <2>3. gpc = "gone" /\ ~gaborted
    BY <2>2 DEF CauseInv
  <2>4. gq = << >> /\ gcur = NoChunk
    BY <1>2, <2>3 DEF JudgedInv
  <2>5. \A c \in Chunks : gcur # c /\ ~(\E i \in 1..Len(gq) : gq[i] = c)
    BY <2>4, EmptySeq, GuardAssumption
  <2>6. \A s \in Slots : wpc[s] # "judge"
    BY <2>2 DEF LeaveInv
  <2> QED BY <1>2, <2>2, <2>3, <2>5, <2>6 DEF JudgedInv
<1> QED BY <1>1, <1>2

(***************************************************************************)
(* The theorems.                                                           *)
(***************************************************************************)
\* ReturnInv holds at the start, whatever an earlier run left on disk.
LEMMA InitReturn == Init => ReturnInv
<1> SUFFICES ASSUME Init PROVE ReturnInv
  OBVIOUS
<1>1. PICK done \in SUBSET Chunks, stale \in SUBSET Chunks :
        /\ todo = Chunks \ done
        /\ enc = [c \in Chunks |-> IF c \in done THEN "prior" ELSE "none"]
        /\ wrote = (done \X {"prior"}) \cup (stale \X {"old"})
  BY DEF Init
<1>2. /\ outcome = "none" /\ mpc = "join" /\ rpc = "tick" /\ results = {}
      /\ skipped = {} /\ abort = FALSE /\ sized = FALSE /\ qinfo = NoChunk
      /\ \A s \in Slots : wpc[s] = "loop"
      /\ \A p \in Procs : ps[p] = "unborn"
  BY DEF Init
<1>3. /\ gq = << >> /\ gcur = NoChunk /\ gaborted = FALSE
      /\ gpc \in {"idle", "gone"} /\ (GuardOn => gpc = "idle")
      /\ \A c \in Chunks : decision[c] = "none"
  BY DEF Init, GuardInit
<1>4. MissingInv
  BY <1>1, <1>2 DEF MissingInv, Remaining
<1>5. PartInv
  BY <1>1, <1>2 DEF PartInv
<1>6. LeaveInv /\ SkipInv
  BY <1>2 DEF LeaveInv, SkipInv
<1>7. CauseInv
  BY <1>2, <1>3 DEF CauseInv
<1>8. JudgedInv
  <2>1. \A i \in 1..Len(gq) : FALSE
    BY <1>3, EmptySeq
  <2>2. \A c \in Chunks : enc[c] \notin {"encode", "fix"}
    BY <1>1
  <2> QED BY <1>3, <2>1, <2>2 DEF JudgedInv
<1>9. /\ ExitMatchesCause /\ ReturnedChunksAreJudged /\ EmptyReturnIsComplete
      /\ SkipsAreDocumented
  BY <1>2 DEF ExitMatchesCause, ReturnedChunksAreJudged,
     EmptyReturnIsComplete, SkipsAreDocumented
<1> QED BY <1>4, <1>5, <1>6, <1>7, <1>8, <1>9 DEF ReturnInv

\* ReturnInv is kept by every step, given IInv.
LEMMA NextReturn == IInv /\ ReturnInv /\ [Next]_vars => ReturnInv'
<1> SUFFICES ASSUME IInv, ReturnInv, [Next]_vars PROVE ReturnInv'
  OBVIOUS
<1>1. /\ MissingInv /\ PartInv /\ LeaveInv /\ SkipInv /\ CauseInv /\ JudgedInv
      /\ TypeOK /\ GuardInv
  BY DEF ReturnInv, IInv
<1>2. MissingInv' /\ PartInv' /\ LeaveInv' /\ SkipInv' /\ CauseInv'
  BY <1>1, MissingSteps, PartSteps, LeaveSteps, SkipSteps, CauseSteps
<1>3. JudgedInv'
  <2>1. CASE GuardOn
    BY <1>1, <2>1, JudgedSteps
  <2>2. CASE ~GuardOn
    BY <2>2 DEF JudgedInv
  <2> QED BY <2>1, <2>2
<1>4. ~StopTimesOut => ExitMatchesCause'
  BY <1>1, ExitSteps DEF ReturnInv
<1>5. ~StopTimesOut => ReturnedChunksAreJudged'
  BY <1>1, ReturnedSteps DEF ReturnInv
<1>6. ~FinishCancels => EmptyReturnIsComplete'
  BY <1>1, EmptySteps DEF ReturnInv
<1>7. ~FinishCancels /\ ~RenameFails => SkipsAreDocumented'
  BY <1>1, SkipsSteps DEF ReturnInv
<1> QED BY <1>2, <1>3, <1>4, <1>5, <1>6, <1>7 DEF ReturnInv

(***************************************************************************)
(* One step as a step of ChunkEncoding.                                    *)
(***************************************************************************)
LEMMA MissingAreRemaining == Contract!Missing = Remaining
<1>1. ASSUME NEW c \in Chunks
      PROVE  (\A p \in InUse : p[1] # c) <=> enc[c] = "none"
  <2>1. ASSUME enc[c] # "none" PROVE \E p \in InUse : p[1] = c
    <3>1. <<c, enc[c]>> \in InUse /\ <<c, enc[c]>>[1] = c
      BY <2>1 DEF InUse
    <3> QED BY <3>1
  <2>2. ASSUME NEW p \in InUse, p[1] = c PROVE enc[c] # "none"
    BY <2>2 DEF InUse
  <2> QED BY <2>1, <2>2
<1> QED BY <1>1 DEF Contract!Missing, Remaining

\* A quarantine, and the collection of the skips, only rename.
LEMMA SettingAsideKeeps ==
  ASSUME DiskTypeOK, NEW moved \in SUBSET Chunks, UNCHANGED <<enc, outcome>>,
         aside' = aside \cup {<<c, part[c]>> :
                                c \in {d \in moved : part[d] # "none"}},
         part' = [c \in Chunks |-> IF c \in moved THEN "none" ELSE part[c]]
  PROVE  UNCHANGED Contract!vars
<1>1. InUse' = InUse
  BY DEF InUse
<1>2. OnDisk' = OnDisk
  <2>1. \A c \in moved : part[c] # "none" => <<c, part[c]>> \in aside'
    OBVIOUS
  <2>2. \A c \in Chunks : part'[c] # "none" => c \notin moved /\ part'[c] = part[c]
    OBVIOUS
  <2>3. \A c \in Chunks \ moved : part'[c] = part[c]
    OBVIOUS
  <2>4. OnDisk \subseteq OnDisk'
    BY <1>1, <2>1, <2>3 DEF OnDisk
  <2>5. OnDisk' \subseteq OnDisk
    BY <1>1, <2>2 DEF OnDisk
  <2> QED BY <2>4, <2>5
<1> QED BY <1>1, <1>2 DEF Contract!vars

LEMMA QuarantineKeeps ==
  ASSUME DiskTypeOK, NEW c \in Chunks, Quarantine(c), UNCHANGED outcome
  PROVE  UNCHANGED Contract!vars
<1>1. CASE UNCHANGED <<aside, part>>
  BY <1>1 DEF Quarantine, Contract!vars, OnDisk, InUse
<1>2. CASE /\ aside' = aside \cup ({<<c, part[c]>>} \ {<<c, "none">>})
           /\ part' = [part EXCEPT ![c] = "none"]
  <2> DEFINE gone == {<<d, part[d]>> : d \in {e \in {c} : part[e] # "none"}}
  <2>1. gone = {<<c, part[c]>>} \ {<<c, "none">>}
    OBVIOUS
  <2>2. part' = [d \in Chunks |-> IF d \in {c} THEN "none" ELSE part[d]]
    BY <1>2 DEF DiskTypeOK
  <2>3. {c} \in SUBSET Chunks /\ UNCHANGED <<enc, outcome>>
    BY DEF Quarantine
  <2> QED BY <1>2, <2>1, <2>2, <2>3, SettingAsideKeeps
<1> QED BY <1>1, <1>2 DEF Quarantine

\* ffmpeg starts on a free .part name: nothing is overwritten.
LEMMA LaunchWrites ==
  ASSUME DiskTypeOK, NEW s \in Slots, NEW kind \in {"encode", "fix"},
         wchunk[s] \in Chunks, part[wchunk[s]] = "none", Launch(s, kind),
         outcome = "none", UNCHANGED outcome
  PROVE  Contract!Write \/ UNCHANGED Contract!vars
<1>1. InUse' = InUse /\ UNCHANGED aside
  BY DEF Launch, InUse
<1>2. CASE UNCHANGED part
  BY <1>1, <1>2 DEF OnDisk, Contract!vars
<1>3. CASE part' = [part EXCEPT ![wchunk[s]] = kind]
  <2> DEFINE c == wchunk[s]
  <2>1. part'[c] = kind /\ \A d \in Chunks \ {c} : part'[d] = part[d]
    BY <1>3 DEF DiskTypeOK
  <2>2. OnDisk' = OnDisk \cup {<<c, kind>>}
    BY <1>1, <2>1 DEF OnDisk
  <2>3. <<c, kind>> \in Chunks \X Writers
    BY DEF Writers
  <2> QED BY <1>1, <2>2, <2>3 DEF Contract!Write
<1> QED BY <1>2, <1>3 DEF Launch

\* A rename makes a .part the encode of a chunk that has none.
LEMMA PromoteUses ==
  ASSUME DiskTypeOK, NEW c \in Chunks, part[c] # "none", enc[c] = "none",
         PromotePart(c), outcome = "none", UNCHANGED outcome
  PROVE  Contract!Use
<1> DEFINE p == <<c, part[c]>>
<1>1. /\ enc'[c] = part[c] /\ \A d \in Chunks \ {c} : enc'[d] = enc[d]
      /\ part'[c] = "none" /\ \A d \in Chunks \ {c} : part'[d] = part[d]
      /\ UNCHANGED aside
  BY DEF PromotePart, DiskTypeOK
<1>2. InUse' = InUse \cup {p}
  BY <1>1 DEF InUse
<1>3. p \in OnDisk /\ p[1] \in Contract!Missing
  BY MissingAreRemaining DEF OnDisk, Remaining
<1>4. OnDisk' = OnDisk
  BY <1>1, <1>2 DEF OnDisk
<1> QED BY <1>2, <1>3, <1>4 DEF Contract!Use

LEMMA ContractSteps ==
  ASSUME ~RenameFails, ~FinishCancels, EncodeInv, EncodeInv', [Next]_vars
  PROVE  [Contract!Next]_(Contract!vars)
<1> USE DEF mainVars
<1>1. /\ TypeOK /\ WorkTypeOK /\ DiskTypeOK /\ HoldInv /\ DiskInv /\ PartInv
      /\ FreePartInv /\ LeaveInv /\ ReapedInv
  BY DEF EncodeInv, IInv, ReturnInv, TypeOK
<1>2. \A s \in Slots : wpc[s] # "gone" => outcome = "none"
  BY <1>1 DEF LeaveInv
<1>3. ASSUME NEW s \in Slots, Prepare(s) \/ FixBroken(s)
      PROVE  UNCHANGED Contract!vars
  <2>1. wchunk[s] \in Chunks /\ Quarantine(wchunk[s]) /\ UNCHANGED outcome
    BY <1>1, <1>3, HeldChunk DEF Prepare, FixBroken, Holding
  <2> QED BY <1>1, <2>1, QuarantineKeeps
<1>4. ASSUME NEW s \in Slots, Spawn(s)
      PROVE  Contract!Write \/ UNCHANGED Contract!vars
  <2>1. wchunk[s] \in Chunks /\ part[wchunk[s]] = "none"
    BY <1>1, <1>4, HeldChunk DEF Spawn, Holding, FreePartInv
  <2>2. PICK kind \in {"encode", "fix"} : Launch(s, kind)
    BY <1>4 DEF Spawn
  <2>3. outcome = "none" /\ UNCHANGED outcome
    BY <1>2, <1>4 DEF Spawn
  <2> QED BY <1>1, <2>1, <2>2, <2>3, LaunchWrites
<1>5. ASSUME NEW s \in Slots, Promote(s)
      PROVE  Contract!Use \/ UNCHANGED Contract!vars
  <2>1. CASE ps[MyProc(s)] = "ok"
    <3> DEFINE c == wchunk[s]
    <3>1. c \in Chunks /\ MyProc(s) = <<c, "encode">> /\ <<c, "encode">> \in Procs
      BY <1>1, <1>5, HeldChunk DEF Promote, Holding, MyProc, Fixing
    <3>2. part[c] # "none"
      BY <1>1, <1>5, <2>1, <3>1 DEF Promote, PartInv
    <3>3. enc[c] = "none" /\ PromotePart(c) /\ outcome = "none"
          /\ UNCHANGED outcome
      BY <1>1, <1>2, <1>5, <2>1 DEF Promote, DiskInv, Holding
    <3> QED BY <1>1, <3>1, <3>2, <3>3, PromoteUses
  <2>2. CASE ps[MyProc(s)] # "ok"
    BY <1>5, <2>2 DEF Promote, diskVars, Contract!vars, OnDisk, InUse
  <2> QED BY <2>1, <2>2
<1>6. ASSUME NEW s \in Slots, FixPromote(s) PROVE Contract!Use
  <2>1. wchunk[s] \in Chunks
    BY <1>1, <1>6, HeldChunk DEF FixPromote, Holding
  <2>2. part[wchunk[s]] # "none" /\ enc[wchunk[s]] = "none"
    BY <1>1, <1>6 DEF FixPromote, PartInv, DiskInv, Holding
  <2>3. PromotePart(wchunk[s]) /\ outcome = "none" /\ UNCHANGED outcome
    BY <1>2, <1>6 DEF FixPromote
  <2> QED BY <1>1, <2>1, <2>2, <2>3, PromoteUses
<1>7. ASSUME NEW s \in Slots, FixEncoded(s) PROVE UNCHANGED Contract!vars
  <2>1. CASE Quarantine(wchunk[s])
    <3>1. wchunk[s] \in Chunks /\ UNCHANGED outcome
      BY <1>1, <1>7, HeldChunk DEF FixEncoded, Holding
    <3> QED BY <1>1, <2>1, <3>1, QuarantineKeeps
  <2>2. CASE UNCHANGED diskVars
    BY <1>7, <2>2 DEF FixEncoded, diskVars, Contract!vars, OnDisk, InUse
  <2> QED BY <1>7, <2>1, <2>2 DEF FixEncoded
<1>8. CASE MainCollect
  <2>1. PICK moved \in SUBSET skipped' :
          /\ aside' = aside \cup {<<c, part[c]>> :
                                   c \in {d \in moved : part[d] # "none"}}
          /\ part' = [c \in Chunks |-> IF c \in moved THEN "none" ELSE part[c]]
    BY <1>8 DEF MainCollect
  <2>2. moved \in SUBSET Chunks /\ UNCHANGED <<enc, outcome>>
    BY <1>1, <1>8 DEF MainCollect, WorkTypeOK
  <2> QED BY <1>1, <2>1, <2>2, SettingAsideKeeps
<1>9. CASE outcome = "none" /\ outcome' # "none"
  <2>1. UNCHANGED <<enc, part, aside>>
    BY <1>1, <1>9, Ends DEF MainQuality, MainSize, MainFinish, diskVars
  <2>2. UNCHANGED <<OnDisk, InUse>>
    BY <2>1 DEF OnDisk, InUse
  <2>3. \/ outcome' \in {"quality", "size"}
        \/ outcome' = "user" /\ Remaining # {}
        \/ outcome' = "failed" /\ Failures # {}
        \/ outcome' = "skipped" /\ skipped # {}
        \/ outcome' = "done"
    BY <1>1, <1>9, Ends DEF MainQuality, MainSize, MainFinish, ExitWith
  <2>4. outcome' = "failed" => Remaining # {}
    BY <2>3 DEF EncodeInv, ReturnInv, MissingInv, Failures
  <2>5. outcome' = "skipped" => Remaining # {}
    <3>1. CASE MainFinish
      <4>1. outcome' = "skipped" => skipped # {}
        BY <3>1 DEF MainFinish, ExitWith
      <4>2. skipped = {c \in choked : enc[c] = "none"}
        BY <1>1, <3>1 DEF EncodeInv, ReturnInv, SkipInv, MainFinish
      <4>3. choked \in SUBSET Chunks
        BY <1>1 DEF EncodeInv, IInv, TypeOK, WorkTypeOK
      <4> QED BY <4>1, <4>2, <4>3 DEF Remaining
    <3>2. CASE MainQuality \/ MainSize
      BY <1>9, <3>2 DEF MainQuality, MainSize, ExitWith
    <3> QED BY <1>1, <1>9, <3>1, <3>2, Ends DEF EncodeInv, IInv, ReturnInv
  <2>6. outcome' = "done" => Remaining = {}
    BY <2>1 DEF EncodeInv, ReturnInv, EmptyReturnIsComplete, Remaining
  <2> QED BY <1>9, <2>2, <2>3, <2>4, <2>5, <2>6, MissingAreRemaining
      DEF Contract!Return, Contract!Next
<1>10. CASE UNCHANGED <<enc, part, aside, outcome>>
  BY <1>10 DEF Contract!vars, OnDisk, InUse
<1>11. CASE outcome # "none" \/ outcome' = "none"
  <2>1. CASE \/ \E s \in Slots : \/ Prepare(s) \/ Spawn(s) \/ Promote(s)
                                 \/ FixEncoded(s) \/ FixBroken(s)
                                 \/ FixPromote(s)
             \/ MainCollect
    BY <1>3, <1>4, <1>5, <1>6, <1>7, <1>8, <2>1 DEF Contract!Next
  <2>2. CASE UNCHANGED <<enc, part, aside>>
    <3>1. UNCHANGED outcome
      BY <1>1, <1>11, EndedStays DEF EncodeInv, ReturnInv
    <3> QED BY <1>10, <2>2, <3>1
  <2> QED BY <2>1, <2>2, Actions
      DEF LoopCheck, Take, Register, Reap, EncodeRaise, JudgeFix, JudgeRecord,
          FixRaise, Exit, ChokeSnapshot, SizeOver, SizeAbort, SizeSweep,
          ChokeKill, GuardWork, OnAbortInfo, OnAbortFlag, OnAbortSweep,
          UserFinish, MainJoin, MainGuardDone, MainGuardTimeout, MainQuality,
          MainSize, MainFinish, vars, RenderRest, EncodeRest, MainRest,
          diskVars
<1> QED BY <1>9, <1>11

\* Why each ending says what it says: what is missing, who has left, what an
\* abort was for, and which chunks are still on their way to the guard.
THEOREM ReturnInvariant == Spec => []ReturnInv
<1>1. Spec => []IInv
  BY Invariant
<1>2. IInv /\ ReturnInv /\ [Next]_vars => ReturnInv'
  BY NextReturn
<1> QED BY <1>1, <1>2, InitReturn, PTL DEF Spec

\* The whole invariant of the encoder, under every fault of the module.
THEOREM EncodeInvariant == Spec => []EncodeInv
<1>1. IInv /\ ReturnInv => EncodeInv
  BY DEF EncodeInv
<1> QED BY <1>1, Invariant, ReturnInvariant, PTL

\* "empty = success": unless a finish request can be cancelled, an empty return
\* means that every chunk has its enc file, whatever failed on the way.
THEOREM EmptyReturnComplete ==
  ASSUME FinishCancels = FALSE PROVE Spec => []EmptyReturnIsComplete
<1>1. ReturnInv => EmptyReturnIsComplete
  BY DEF ReturnInv
<1> QED BY <1>1, ReturnInvariant, PTL

\* The needs_fix contract: when skips are returned they are all that is
\* missing, and none has a .part left.
THEOREM SkipsDocumented ==
  ASSUME FinishCancels = FALSE, RenameFails = FALSE
  PROVE  Spec => []SkipsAreDocumented
<1>1. ReturnInv => SkipsAreDocumented
  BY DEF ReturnInv
<1> QED BY <1>1, ReturnInvariant, PTL

\* Exit codes: as long as the guard thread stops in time, the exit taken is the
\* one of the abort that happened.
THEOREM ExitMatches ==
  ASSUME StopTimesOut = FALSE PROVE Spec => []ExitMatchesCause
<1>1. ReturnInv => ExitMatchesCause
  BY DEF ReturnInv
<1> QED BY <1>1, ReturnInvariant, PTL

\* The drain before the exit decision: nothing this run encoded is merged
\* unjudged, as long as the guard thread stops in time.
THEOREM ReturnedJudged ==
  ASSUME StopTimesOut = FALSE PROVE Spec => []ReturnedChunksAreJudged
<1>1. ReturnInv => ReturnedChunksAreJudged
  BY DEF ReturnInv
<1> QED BY <1>1, ReturnInvariant, PTL

\* The message of exit 1 is true under every fault: what it calls failed has no
\* enc file, so a re-run encodes it again.
THEOREM FailedAreRetried == Spec => []FailuresAreRetried
<1>1. ReturnInv => FailuresAreRetried
  BY DEF ReturnInv, MissingInv, FailuresAreRetried, Failures
<1> QED BY <1>1, ReturnInvariant, PTL

\* The call implements ChunkEncoding: whatever its threads, guards and ffmpegs
\* do, no encode is lost or replaced, nothing is written after the call has
\* ended, and how it ended is true of the chunks.
THEOREM CallKeepsContract ==
  ASSUME RenameFails = FALSE, FinishCancels = FALSE
  PROVE  Spec => KeepsContract
<1>1. Init => Contract!Init
  <2> SUFFICES ASSUME Init PROVE Contract!Init
    OBVIOUS
  <2>1. DiskTypeOK
    BY InitIInv DEF IInv, TypeOK
  <2>2. OnDisk \in SUBSET (Chunks \X Writers)
    BY <2>1 DEF OnDisk, InUse, DiskTypeOK
  <2>3. InUse \in SUBSET OnDisk /\ outcome = "none"
    BY DEF OnDisk, Init
  <2> QED BY <2>2, <2>3 DEF Contract!Init
<1>2. EncodeInv /\ EncodeInv' /\ [Next]_vars => [Contract!Next]_(Contract!vars)
  BY ContractSteps
<1> QED BY <1>1, <1>2, EncodeInvariant, PTL
        DEF Spec, KeepsContract, Contract!Spec
=============================================================================
