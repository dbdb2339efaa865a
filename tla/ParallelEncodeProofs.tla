------------------------ MODULE ParallelEncodeProofs ------------------------
(***************************************************************************)
(* Proofs about ParallelEncode for any number of workers and chunks.  IInv *)
(* is inductive; the safety properties are conjuncts or consequences of    *)
(* it.                                                                     *)
(***************************************************************************)
EXTENDS ParallelEncode, SequenceTheorems, TLAPS

\* Next, one disjunct per action.
LEMMA Actions ==
  ASSUME [Next]_vars
  PROVE
    \/ \E s \in Slots : LoopCheck(s)
    \/ \E s \in Slots : Take(s)
    \/ \E s \in Slots : Prepare(s)
    \/ \E s \in Slots : Spawn(s)
    \/ \E s \in Slots : Register(s)
    \/ \E s \in Slots : Reap(s)
    \/ \E s \in Slots : Promote(s)
    \/ \E s \in Slots : EncodeRaise(s)
    \/ \E s \in Slots : JudgeFix(s)
    \/ \E s \in Slots : JudgeRecord(s)
    \/ \E s \in Slots : FixEncoded(s)
    \/ \E s \in Slots : FixBroken(s)
    \/ \E s \in Slots : FixPromote(s)
    \/ \E s \in Slots : FixRaise(s)
    \/ \E p \in Procs : Exit(p)
    \/ \E s \in Slots : ChokeSnapshot(s)
    \/ SizeOver \/ SizeAbort \/ SizeSweep \/ ChokeKill
    \/ GuardWork \/ OnAbortInfo \/ OnAbortFlag \/ OnAbortSweep
    \/ UserFinish \/ MainJoin \/ MainGuardDone \/ MainGuardTimeout
    \/ MainCollect \/ MainQuality \/ MainSize \/ MainFinish
    \/ UNCHANGED vars
  BY DEF Next, Worker, Proceed, Render, Guard, Main, Returned

\* The types of the guard's state, whose counter stays within its limit.
LEMMA GuardTypes ==
  ASSUME GuardTypeOK, GuardInv, WorkTypeOK, HoldInv, [Next]_vars
  PROVE  GuardTypeOK'
<1>1. ASSUME NEW s \in Slots, JudgeRecord(s) PROVE GuardTypeOK'
  <2>1. wchunk[s] \in Chunks
    BY <1>1 DEF JudgeRecord, HoldInv, Holding, WorkTypeOK
  <2>2. Append(gq, wchunk[s]) \in Seq(Chunks \cup {Sentinel})
    BY <2>1, AppendProperties DEF GuardTypeOK
  <2>3. gq' \in Seq(Chunks \cup {Sentinel})
    BY <1>1, <2>2 DEF JudgeRecord, Submit, guardVars, GuardTypeOK
  <2>4. UNCHANGED <<gpc, gcur, infra, gaborted, decision>>
    BY <1>1 DEF JudgeRecord, Submit, guardVars
  <2>q. QED
    BY <2>3, <2>4 DEF GuardTypeOK
<1>2. ASSUME NEW s \in Slots, FixPromote(s) PROVE GuardTypeOK'
  <2>1. wchunk[s] \in Chunks
    BY <1>2 DEF FixPromote, HoldInv, Holding, WorkTypeOK
  <2>2. Append(gq, wchunk[s]) \in Seq(Chunks \cup {Sentinel})
    BY <2>1, AppendProperties DEF GuardTypeOK
  <2>3. gq' \in Seq(Chunks \cup {Sentinel})
    BY <1>2, <2>2 DEF FixPromote, Submit, guardVars, GuardTypeOK
  <2>4. UNCHANGED <<gpc, gcur, infra, gaborted, decision>>
    BY <1>2 DEF FixPromote, Submit, guardVars
  <2>q. QED
    BY <2>3, <2>4 DEF GuardTypeOK
<1>3. CASE GuardWork
  <2> USE <1>3 DEF GuardWork, GuardTypeOK, GuardInv, GuardPCs, Decisions
  <2>1. CASE GuardTake
    <3>1. gq # <<>> /\ gq \in Seq(Chunks \cup {Sentinel})
      BY <2>1 DEF GuardTake
    <3>2. /\ Head(gq) \in Chunks \cup {Sentinel}
          /\ Tail(gq) \in Seq(Chunks \cup {Sentinel})
      BY <3>1, HeadTailProperties
    <3>q. QED
      BY <2>1, <3>2 DEF GuardTake
  <2>2. CASE GuardInfraFail
    <3>1. infra + 1 \in 0..InfraLimit
      BY <2>2, GuardAssumption DEF GuardInfraFail, NoScore
    <3>2. /\ decision' \in [Chunks -> Decisions]
          /\ gq' = gq /\ gpc' \in GuardPCs /\ infra' = infra + 1
      BY <2>2 DEF GuardInfraFail, NoScore
    <3>3. gcur' \in Chunks \cup {NoChunk} /\ gaborted' \in BOOLEAN
      BY <2>2 DEF GuardInfraFail, NoScore
    <3>q. QED
      BY <3>1, <3>2, <3>3
  <2>3. CASE GuardPass
    BY <2>3, GuardAssumption DEF GuardPass, Score
  <2>4. CASE GuardFail
    BY <2>4, GuardAssumption DEF GuardFail, Score
  <2>q. QED
    BY <2>1, <2>2, <2>3, <2>4 DEF GuardStep
<1>4. CASE OnAbortInfo
  BY <1>4 DEF OnAbortInfo, GuardTypeOK, GuardPCs
<1>5. CASE OnAbortFlag
  BY <1>5 DEF OnAbortFlag, GuardTypeOK, GuardPCs
<1>6. CASE OnAbortSweep
  BY <1>6 DEF OnAbortSweep, Terminate, GuardTypeOK, GuardPCs
<1>7. CASE MainJoin
  <2>1. Append(gq, Sentinel) \in Seq(Chunks \cup {Sentinel})
    BY AppendProperties DEF GuardTypeOK
  <2>q. QED
    BY <1>7, <2>1 DEF MainJoin, PutSentinel, GuardTypeOK
<1>8. CASE MainGuardTimeout
  BY <1>8 DEF MainGuardTimeout, ReapInflight, GuardTypeOK, GuardPCs
<1>9. CASE UNCHANGED guardVars
  BY <1>9 DEF GuardTypeOK, guardVars
<1>q. QED
  BY Actions, <1>1, <1>2, <1>3, <1>4, <1>5, <1>6, <1>7, <1>8, <1>9 DEF
     LoopCheck, Take, Prepare, Spawn, Register, Reap, Promote, EncodeRaise,
     JudgeFix, FixEncoded, FixBroken, FixRaise, Exit, ChokeSnapshot, SizeOver,
     SizeAbort, SizeSweep, ChokeKill, UserFinish, MainGuardDone, MainCollect,
     MainQuality, MainSize, MainFinish, vars, RenderRest, EncodeRest,
     MainRest, Goto, guardVars, diskVars, workVars, mainVars, rendVars,
     abortVars, Quarantine, Launch, Terminate, PromotePart, RecordException,
     Record, ExitWith

\* A worker past the queue holds a chunk, and with it one of the processes.
LEMMA HeldChunk ==
  ASSUME WorkTypeOK, HoldInv, NEW s \in Slots, Holding(s)
  PROVE  wchunk[s] \in Chunks /\ MyProc(s) \in Procs
  BY DEF WorkTypeOK, HoldInv, MyProc, Procs

\* The types of the queue, the workers and what they record.
LEMMA WorkTypes ==
  ASSUME WorkTypeOK, HoldInv, ViewInv, ControlTypeOK, [Next]_vars
  PROVE  WorkTypeOK'
<1>1. ASSUME NEW s \in Slots, LoopCheck(s) PROVE WorkTypeOK'
  BY <1>1 DEF LoopCheck, WorkTypeOK, WorkerPCs, Goto
<1>2. ASSUME NEW s \in Slots, Take(s) PROVE WorkTypeOK'
  BY <1>2 DEF Take, WorkTypeOK, WorkerPCs, Goto
<1>3. ASSUME NEW s \in Slots, Prepare(s) PROVE WorkTypeOK'
  BY <1>3 DEF Prepare, Quarantine, WorkTypeOK, WorkerPCs, Goto, Fixing
<1>4. ASSUME NEW s \in Slots, Spawn(s) PROVE WorkTypeOK'
  BY <1>4 DEF Spawn, Launch, WorkTypeOK, WorkerPCs, Goto, Fixing
<1>5. ASSUME NEW s \in Slots, Register(s) PROVE WorkTypeOK'
  BY <1>5 DEF Register, Terminate, WorkTypeOK, WorkerPCs, Goto, Fixing
<1>6. ASSUME NEW s \in Slots, Reap(s) PROVE WorkTypeOK'
  BY <1>6 DEF Reap, WorkTypeOK, WorkerPCs, Goto, Fixing
<1>7. ASSUME NEW s \in Slots, Promote(s) PROVE WorkTypeOK'
  BY <1>7 DEF Promote, PromotePart, WorkTypeOK, WorkerPCs, Goto, Fixing
<1>8. ASSUME NEW s \in Slots, EncodeRaise(s) PROVE WorkTypeOK'
  <2>1. wchunk[s] \in Chunks
    BY <1>8, HeldChunk DEF EncodeRaise, Holding, Fixing
  <2>q. QED
    BY <1>8, <2>1 DEF EncodeRaise, RecordException, Record, WorkTypeOK, WorkerPCs, Goto, workVars
<1>9. ASSUME NEW s \in Slots, JudgeFix(s) PROVE WorkTypeOK'
  BY <1>9 DEF JudgeFix, WorkTypeOK, WorkerPCs, Goto, Fixing
<1>10. ASSUME NEW s \in Slots, JudgeRecord(s) PROVE WorkTypeOK'
  <2>1. wchunk[s] \in Chunks
    BY <1>10, HeldChunk DEF JudgeRecord, Holding, Fixing
  <2>q. QED
    BY <1>10, <2>1 DEF JudgeRecord, Record, Submit, WorkTypeOK, WorkerPCs, Goto, workVars
<1>11. ASSUME NEW s \in Slots, FixEncoded(s) PROVE WorkTypeOK'
  <2>1. wchunk[s] \in Chunks
    BY <1>11, HeldChunk DEF FixEncoded, Holding, Fixing
  <2>q. QED
    BY <1>11, <2>1 DEF FixEncoded, Quarantine, Record, WorkTypeOK, WorkerPCs, Goto, workVars
<1>12. ASSUME NEW s \in Slots, FixBroken(s) PROVE WorkTypeOK'
  <2>1. wchunk[s] \in Chunks
    BY <1>12, HeldChunk DEF FixBroken, Holding, Fixing
  <2>q. QED
    BY <1>12, <2>1 DEF FixBroken, Quarantine, Record, WorkTypeOK, WorkerPCs, Goto, workVars
<1>13. ASSUME NEW s \in Slots, FixPromote(s) PROVE WorkTypeOK'
  <2>1. wchunk[s] \in Chunks
    BY <1>13, HeldChunk DEF FixPromote, Holding, Fixing
  <2>q. QED
    BY <1>13, <2>1 DEF FixPromote, PromotePart, Record, Submit, WorkTypeOK, WorkerPCs, Goto, workVars
<1>14. ASSUME NEW s \in Slots, FixRaise(s) PROVE WorkTypeOK'
  <2>1. wchunk[s] \in Chunks
    BY <1>14, HeldChunk DEF FixRaise, Holding, Fixing
  <2>q. QED
    BY <1>14, <2>1 DEF FixRaise, Record, WorkTypeOK, WorkerPCs, Goto, workVars
<1>15. CASE ChokeKill
  BY <1>15 DEF ChokeKill, Terminate, RenderRest, ViewInv, ControlTypeOK, WorkTypeOK, workVars
<1>16. CASE UNCHANGED <<workVars, choked>>
  BY <1>16 DEF WorkTypeOK, workVars
<1>q. QED
  BY Actions, <1>1, <1>2, <1>3, <1>4, <1>5, <1>6, <1>7, <1>8, <1>9, <1>10,
     <1>11, <1>12, <1>13, <1>14, <1>15, <1>16 DEF Exit, ChokeSnapshot,
     SizeOver, SizeAbort, SizeSweep, GuardWork, OnAbortInfo, OnAbortFlag,
     OnAbortSweep, UserFinish, MainJoin, MainGuardDone, MainGuardTimeout,
     MainCollect, MainQuality, MainSize, MainFinish, vars, RenderRest,
     EncodeRest, MainRest, Goto, guardVars, diskVars, workVars, mainVars,
     rendVars, abortVars, Terminate, GuardStep, GuardTake, GuardInfraFail,
     GuardPass, GuardFail, NoScore, Score, PutSentinel, ReapInflight, ExitWith

\* The types of the ffmpeg processes and their registration.
LEMMA ProcTypes ==
  ASSUME ProcTypeOK, WorkTypeOK, HoldInv, [Next]_vars
  PROVE  ProcTypeOK'
<1>1. ASSUME NEW s \in Slots, Spawn(s) PROVE ProcTypeOK'
  BY <1>1 DEF Spawn, Launch, ProcTypeOK, Running, Exited
<1>2. ASSUME NEW s \in Slots, Register(s) PROVE ProcTypeOK'
  <2>1. MyProc(s) \in Procs
    BY <1>2, HeldChunk DEF Register, Holding
  <2>q. QED
    BY <1>2, <2>1 DEF Register, Terminate, ProcTypeOK, Running, Exited
<1>3. ASSUME NEW s \in Slots, Reap(s) PROVE ProcTypeOK'
  BY <1>3 DEF Reap, ProcTypeOK, Running, Exited
<1>4. ASSUME NEW s \in Slots, EncodeRaise(s) PROVE ProcTypeOK'
  <2>1. MyProc(s) \in Procs
    BY <1>4, HeldChunk DEF EncodeRaise, Holding
  <2>q. QED
    BY <1>4, <2>1 DEF EncodeRaise, Terminate, ProcTypeOK, Running, Exited
<1>5. ASSUME NEW p \in Procs, Exit(p) PROVE ProcTypeOK'
  BY <1>5 DEF Exit, ProcTypeOK, Running, Exited
<1>6. CASE SizeSweep
  BY <1>6 DEF SizeSweep, Terminate, RenderRest, ProcTypeOK, Running, Exited
<1>7. CASE ChokeKill
  BY <1>7 DEF ChokeKill, Terminate, RenderRest, ProcTypeOK, Running, Exited
<1>8. CASE OnAbortSweep
  BY <1>8 DEF OnAbortSweep, Terminate, EncodeRest, ProcTypeOK, Running, Exited
<1>9. CASE UNCHANGED <<ps, active>>
  BY <1>9 DEF ProcTypeOK
<1>q. QED
  BY Actions, <1>1, <1>2, <1>3, <1>4, <1>5, <1>6, <1>7, <1>8, <1>9 DEF
     LoopCheck, Take, Prepare, Promote, JudgeFix, JudgeRecord, FixEncoded,
     FixBroken, FixPromote, FixRaise, ChokeSnapshot, SizeOver, SizeAbort,
     GuardWork, OnAbortInfo, OnAbortFlag, UserFinish, MainJoin, MainGuardDone,
     MainGuardTimeout, MainCollect, MainQuality, MainSize, MainFinish, vars,
     RenderRest, EncodeRest, MainRest, Goto, guardVars, diskVars, workVars,
     mainVars, rendVars, abortVars, Quarantine, PromotePart, Record, Submit,
     GuardStep, GuardTake, GuardInfraFail, GuardPass, GuardFail,
     NoScore, Score, PutSentinel,
     ReapInflight, ExitWith

\* The types of what is on disk.
LEMMA DiskTypes ==
  ASSUME DiskTypeOK, WorkTypeOK, HoldInv, [Next]_vars
  PROVE  DiskTypeOK'
<1>1. ASSUME NEW s \in Slots, Prepare(s) PROVE DiskTypeOK'
  <2>1. wchunk[s] \in Chunks
    BY <1>1, HeldChunk DEF Prepare, Holding
  <2>q. QED
    BY <1>1, <2>1 DEF Prepare, Quarantine, DiskTypeOK, Writers, diskVars
<1>2. ASSUME NEW s \in Slots, Spawn(s) PROVE DiskTypeOK'
  <2>1. wchunk[s] \in Chunks
    BY <1>2, HeldChunk DEF Spawn, Holding
  <2>q. QED
    BY <1>2, <2>1 DEF Spawn, Launch, DiskTypeOK, Writers, diskVars
<1>3. ASSUME NEW s \in Slots, Promote(s) PROVE DiskTypeOK'
  <2>1. wchunk[s] \in Chunks
    BY <1>3, HeldChunk DEF Promote, Holding
  <2>q. QED
    BY <1>3, <2>1 DEF Promote, PromotePart, DiskTypeOK, Writers, diskVars
<1>4. ASSUME NEW s \in Slots, FixEncoded(s) PROVE DiskTypeOK'
  <2>1. wchunk[s] \in Chunks
    BY <1>4, HeldChunk DEF FixEncoded, Holding
  <2>q. QED
    BY <1>4, <2>1 DEF FixEncoded, Quarantine, Record, DiskTypeOK, Writers, diskVars
<1>5. ASSUME NEW s \in Slots, FixBroken(s) PROVE DiskTypeOK'
  <2>1. wchunk[s] \in Chunks
    BY <1>5, HeldChunk DEF FixBroken, Holding
  <2>q. QED
    BY <1>5, <2>1 DEF FixBroken, Quarantine, Record, DiskTypeOK, Writers, diskVars
<1>6. ASSUME NEW s \in Slots, FixPromote(s) PROVE DiskTypeOK'
  <2>1. wchunk[s] \in Chunks
    BY <1>6, HeldChunk DEF FixPromote, Holding
  <2>q. QED
    BY <1>6, <2>1 DEF FixPromote, PromotePart, Record, Submit, DiskTypeOK, Writers, diskVars
<1>7. CASE MainCollect
  <2>1. choked \subseteq Chunks
    BY DEF WorkTypeOK
  <2>2. PICK moved \in SUBSET Chunks :
          /\ aside' = aside \cup {<<c, part[c]>> : c \in {d \in moved : part[d] # "none"}}
          /\ part' = [c \in Chunks |-> IF c \in moved THEN "none" ELSE part[c]]
    BY <1>7, <2>1 DEF MainCollect
  <2>3. aside' \subseteq Chunks \X Writers
    BY <2>2 DEF DiskTypeOK
  <2>4. part' \in [Chunks -> Writers \cup {"none"}]
    BY <2>2 DEF DiskTypeOK
  <2>q. QED
    BY <1>7, <2>3, <2>4 DEF MainCollect, DiskTypeOK
<1>8. CASE UNCHANGED diskVars
  BY <1>8 DEF DiskTypeOK, diskVars
<1>q. QED
  BY Actions, <1>1, <1>2, <1>3, <1>4, <1>5, <1>6, <1>7, <1>8 DEF LoopCheck,
     Take, Register, Reap, EncodeRaise, JudgeFix, JudgeRecord, FixRaise, Exit,
     ChokeSnapshot, SizeOver, SizeAbort, SizeSweep, ChokeKill, GuardWork,
     OnAbortInfo, OnAbortFlag, OnAbortSweep, UserFinish, MainJoin,
     MainGuardDone, MainGuardTimeout, MainQuality, MainSize, MainFinish, vars,
     RenderRest, EncodeRest, MainRest, Goto, guardVars, diskVars, workVars,
     mainVars, rendVars, abortVars, Terminate, RecordException, Record,
     Submit, GuardStep, GuardTake, GuardInfraFail, GuardPass, GuardFail,
     NoScore, Score,
     PutSentinel, ReapInflight, ExitWith

\* The types of the flags and of the render and main threads.
LEMMA ControlTypes ==
  ASSUME ControlTypeOK, GuardTypeOK, WorkTypeOK, ProcTypeOK, HoldInv, [Next]_vars
  PROVE  ControlTypeOK'
<1>1. ASSUME NEW s \in Slots, ChokeSnapshot(s) PROVE ControlTypeOK'
  <2>1. wchunk[s] \in Chunks
    BY <1>1, HeldChunk DEF ChokeSnapshot, Holding
  <2>2. active[s] \in Procs \cup {NoProc}
    BY DEF ProcTypeOK
  <2>q. QED
    BY <1>1, <2>1, <2>2 DEF ChokeSnapshot, ControlTypeOK, abortVars, mainVars, RenderRest
<1>2. CASE SizeOver
  BY <1>2 DEF SizeOver, ControlTypeOK, MainPCs, Outcomes, abortVars, mainVars,
     RenderRest
<1>3. CASE SizeAbort
  BY <1>3 DEF SizeAbort, ControlTypeOK, MainPCs, Outcomes, mainVars,
     RenderRest
<1>4. CASE SizeSweep
  BY <1>4 DEF SizeSweep, Terminate, ControlTypeOK, MainPCs, Outcomes,
     abortVars, mainVars, RenderRest
<1>5. CASE ChokeKill
  BY <1>5 DEF ChokeKill, Terminate, ControlTypeOK, MainPCs, Outcomes,
     abortVars, mainVars, RenderRest
<1>6. CASE OnAbortInfo
  BY <1>6 DEF OnAbortInfo, GuardTypeOK, ControlTypeOK, mainVars, rendVars, EncodeRest
<1>7. CASE OnAbortFlag
  BY <1>7 DEF OnAbortFlag, ControlTypeOK, MainPCs, Outcomes, rendVars,
     mainVars, EncodeRest
<1>8. CASE UserFinish
  BY <1>8 DEF UserFinish, ControlTypeOK, MainPCs, Outcomes, abortVars,
     rendVars, mainVars
<1>9. CASE MainJoin
  BY <1>9 DEF MainJoin, PutSentinel, ControlTypeOK, MainPCs, Outcomes,
     abortVars, MainRest
<1>10. CASE MainGuardDone
  BY <1>10 DEF MainGuardDone, ControlTypeOK, MainPCs, Outcomes, abortVars,
     rendVars, MainRest
<1>11. CASE MainGuardTimeout
  BY <1>11 DEF MainGuardTimeout, ReapInflight, ControlTypeOK, MainPCs,
     Outcomes, abortVars, rendVars, MainRest
<1>12. CASE MainCollect
  BY <1>12 DEF MainCollect, WorkTypeOK, ControlTypeOK, MainPCs, rendVars, MainRest, abortVars
<1>13. CASE MainQuality
  BY <1>13 DEF MainQuality, ExitWith, ControlTypeOK, MainPCs, Outcomes,
     abortVars, rendVars, MainRest
<1>14. CASE MainSize
  BY <1>14 DEF MainSize, ExitWith, ControlTypeOK, MainPCs, Outcomes,
     abortVars, rendVars, MainRest
<1>15. CASE MainFinish
  BY <1>15 DEF MainFinish, ExitWith, ControlTypeOK, MainPCs, Outcomes,
     abortVars, rendVars, MainRest
<1>16. CASE UNCHANGED <<mainVars, rendVars, abortVars, finish>>
  BY <1>16 DEF ControlTypeOK, abortVars, rendVars, mainVars
<1>q. QED
  BY Actions, <1>1, <1>2, <1>3, <1>4, <1>5, <1>6, <1>7, <1>8, <1>9, <1>10,
     <1>11, <1>12, <1>13, <1>14, <1>15, <1>16 DEF LoopCheck, Take, Prepare,
     Spawn, Register, Reap, Promote, EncodeRaise, JudgeFix, JudgeRecord,
     FixEncoded, FixBroken, FixPromote, FixRaise, Exit, GuardWork,
     OnAbortSweep, vars, RenderRest, EncodeRest, MainRest, Goto, guardVars,
     diskVars, workVars, mainVars, rendVars, abortVars, Quarantine, Launch,
     Terminate, PromotePart, RecordException, Record, Submit, GuardStep,
     GuardTake, GuardInfraFail, GuardPass, GuardFail, NoScore, Score

\* The guard thread measures only before an abort, within its limit.
LEMMA GuardSteps ==
  ASSUME GuardInv, GuardTypeOK, [Next]_vars
  PROVE  GuardInv'
<1>1. ASSUME NEW s \in Slots, JudgeRecord(s) PROVE GuardInv'
  BY <1>1 DEF JudgeRecord, Record, Submit, GuardInv, guardVars
<1>2. ASSUME NEW s \in Slots, FixPromote(s) PROVE GuardInv'
  BY <1>2 DEF FixPromote, PromotePart, Record, Submit, GuardInv
<1>3. CASE GuardWork
  <2> USE <1>3, GuardAssumption DEF GuardWork, GuardTypeOK, GuardInv
  <2>1. CASE GuardTake
    <3>1. Head(gq) \in Chunks \cup {Sentinel}
      BY <2>1, HeadTailProperties DEF GuardTake
    <3>q. QED
      BY <2>1, <3>1 DEF GuardTake
  <2>2. CASE GuardInfraFail
    BY <2>2 DEF GuardInfraFail, NoScore
  <2>3. CASE GuardPass
    BY <2>3 DEF GuardPass, Score
  <2>4. CASE GuardFail
    BY <2>4 DEF GuardFail, Score
  <2>q. QED
    BY <2>1, <2>2, <2>3, <2>4 DEF GuardStep
<1>4. CASE OnAbortInfo
  BY <1>4 DEF OnAbortInfo, GuardInv
<1>5. CASE OnAbortFlag
  BY <1>5 DEF OnAbortFlag, GuardInv
<1>6. CASE OnAbortSweep
  BY <1>6 DEF OnAbortSweep, Terminate, GuardInv
<1>7. CASE MainJoin
  BY <1>7 DEF MainJoin, PutSentinel, GuardInv
<1>8. CASE MainGuardTimeout
  BY <1>8 DEF MainGuardTimeout, ReapInflight, GuardInv
<1>9. CASE UNCHANGED guardVars
  BY <1>9 DEF GuardInv, guardVars
<1>q. QED
  BY Actions, <1>1, <1>2, <1>3, <1>4, <1>5, <1>6, <1>7, <1>8, <1>9 DEF
     LoopCheck, Take, Prepare, Spawn, Register, Reap, Promote, EncodeRaise,
     JudgeFix, FixEncoded, FixBroken, FixRaise, Exit, ChokeSnapshot, SizeOver,
     SizeAbort, SizeSweep, ChokeKill, UserFinish, MainGuardDone, MainCollect,
     MainQuality, MainSize, MainFinish, vars, RenderRest, EncodeRest,
     MainRest, Goto, guardVars, diskVars, workVars, mainVars, rendVars,
     abortVars, Quarantine, Launch, Terminate, PromotePart, RecordException,
     Record, ExitWith

\* A choke verdict always has a snapshot to act on.
LEMMA ViewSteps ==
  ASSUME ViewInv, WorkTypeOK, ProcTypeOK, HoldInv, [Next]_vars
  PROVE  ViewInv'
<1>1. ASSUME NEW s \in Slots, ChokeSnapshot(s) PROVE ViewInv'
  <2>1. view' = <<wchunk[s], active[s]>>
    BY <1>1 DEF ChokeSnapshot
  <2>2. wchunk[s] \in Chunks /\ active[s] \in Procs \cup {NoProc}
    BY <1>1, HeldChunk DEF ChokeSnapshot, Holding, ProcTypeOK
  <2>q. QED
    BY <2>1, <2>2, EncodeAssumption DEF ViewInv, Procs
<1>2. CASE SizeOver
  BY <1>2 DEF SizeOver, ViewInv
<1>3. CASE SizeAbort
  BY <1>3 DEF SizeAbort, ViewInv
<1>4. CASE SizeSweep
  BY <1>4 DEF SizeSweep, Terminate, ViewInv
<1>5. CASE ChokeKill
  BY <1>5 DEF ChokeKill, Terminate, ViewInv
<1>6. CASE MainJoin
  BY <1>6 DEF MainJoin, PutSentinel, ViewInv
<1>7. CASE UNCHANGED rendVars
  BY <1>7 DEF ViewInv, rendVars
<1>q. QED
  BY Actions, <1>1, <1>2, <1>3, <1>4, <1>5, <1>6, <1>7 DEF LoopCheck, Take,
     Prepare, Spawn, Register, Reap, Promote, EncodeRaise, JudgeFix,
     JudgeRecord, FixEncoded, FixBroken, FixPromote, FixRaise, Exit,
     GuardWork, OnAbortInfo, OnAbortFlag, OnAbortSweep, UserFinish,
     MainGuardDone, MainGuardTimeout, MainCollect, MainQuality, MainSize,
     MainFinish, vars, RenderRest, EncodeRest, MainRest, Goto, guardVars,
     diskVars, workVars, mainVars, rendVars, abortVars, Quarantine, Launch,
     Terminate, PromotePart, RecordException, Record, Submit, GuardStep,
     GuardTake, GuardInfraFail, GuardPass, GuardFail,
     NoScore, Score, ReapInflight, ExitWith

\* Ending an attempt leaves the worker without a chunk.
LEMMA RecordHolds ==
  ASSUME HoldInv, WorkTypeOK, NEW s \in Slots, NEW rc, Record(s, rc)
  PROVE  HoldInv'
<1>1. NoChunk \notin todo
  BY GuardAssumption DEF WorkTypeOK
<1>q. QED
  BY <1>1 DEF Record, HoldInv, Holding, WorkTypeOK, Goto

\* A chunk is queued or with one worker, never both.
LEMMA HoldSteps ==
  ASSUME HoldInv, WorkTypeOK, [Next]_vars
  PROVE  HoldInv'
<1>1. ASSUME NEW s \in Slots, LoopCheck(s) PROVE HoldInv'
  BY <1>1 DEF LoopCheck, HoldInv, Holding, WorkTypeOK, Goto
<1>2. ASSUME NEW s \in Slots, Take(s) PROVE HoldInv'
  BY <1>2 DEF Take, HoldInv, Holding, WorkTypeOK, Goto
<1>3. ASSUME NEW s \in Slots, Prepare(s) PROVE HoldInv'
  BY <1>3 DEF Prepare, Quarantine, HoldInv, Holding, WorkTypeOK, Goto, Fixing
<1>4. ASSUME NEW s \in Slots, Spawn(s) PROVE HoldInv'
  BY <1>4 DEF Spawn, Launch, HoldInv, Holding, WorkTypeOK, Goto, Fixing
<1>5. ASSUME NEW s \in Slots, Register(s) PROVE HoldInv'
  BY <1>5 DEF Register, Terminate, HoldInv, Holding, WorkTypeOK, Goto, Fixing
<1>6. ASSUME NEW s \in Slots, Reap(s) PROVE HoldInv'
  BY <1>6 DEF Reap, HoldInv, Holding, WorkTypeOK, Goto, Fixing
<1>7. ASSUME NEW s \in Slots, Promote(s) PROVE HoldInv'
  BY <1>7 DEF Promote, PromotePart, HoldInv, Holding, WorkTypeOK, Goto, Fixing
<1>8. ASSUME NEW s \in Slots, EncodeRaise(s) PROVE HoldInv'
  BY <1>8, RecordHolds DEF EncodeRaise, RecordException
<1>9. ASSUME NEW s \in Slots, JudgeFix(s) PROVE HoldInv'
  BY <1>9 DEF JudgeFix, HoldInv, Holding, WorkTypeOK, Goto, Fixing
<1>10. ASSUME NEW s \in Slots, JudgeRecord(s) PROVE HoldInv'
  BY <1>10, RecordHolds DEF JudgeRecord
<1>11. ASSUME NEW s \in Slots, FixEncoded(s) PROVE HoldInv'
  BY <1>11, RecordHolds DEF FixEncoded, HoldInv, Holding, WorkTypeOK, Goto
<1>12. ASSUME NEW s \in Slots, FixBroken(s) PROVE HoldInv'
  BY <1>12, RecordHolds DEF FixBroken
<1>13. ASSUME NEW s \in Slots, FixPromote(s) PROVE HoldInv'
  BY <1>13, RecordHolds DEF FixPromote
<1>14. ASSUME NEW s \in Slots, FixRaise(s) PROVE HoldInv'
  BY <1>14, RecordHolds DEF FixRaise
<1>15. CASE UNCHANGED <<todo, wpc, wchunk>>
  BY <1>15 DEF HoldInv, Holding
<1>q. QED
  BY Actions, <1>1, <1>2, <1>3, <1>4, <1>5, <1>6, <1>7, <1>8, <1>9, <1>10,
     <1>11, <1>12, <1>13, <1>14, <1>15 DEF Exit, ChokeSnapshot, SizeOver,
     SizeAbort, SizeSweep, ChokeKill, GuardWork, OnAbortInfo, OnAbortFlag,
     OnAbortSweep, UserFinish, MainJoin, MainGuardDone, MainGuardTimeout,
     MainCollect, MainQuality, MainSize, MainFinish, vars, RenderRest,
     EncodeRest, MainRest, Goto, guardVars, diskVars, workVars, mainVars,
     rendVars, abortVars, Terminate, GuardStep, GuardTake, GuardInfraFail,
     GuardPass, GuardFail, NoScore, Score, PutSentinel, ReapInflight, ExitWith

\* A reaped ffmpeg stays reaped: nobody starts another one under its worker.
LEMMA ReapedSteps ==
  ASSUME ReapedInv, WorkTypeOK, ProcTypeOK, HoldInv, [Next]_vars
  PROVE  ReapedInv'
<1>1. ASSUME NEW s \in Slots, LoopCheck(s) PROVE ReapedInv'
  BY <1>1 DEF LoopCheck, ReapedInv, HoldInv, Holding, WorkTypeOK, ProcTypeOK,
     Goto, Exited, Running, Procs
<1>2. ASSUME NEW s \in Slots, Take(s) PROVE ReapedInv'
  BY <1>2 DEF Take, ReapedInv, HoldInv, Holding, WorkTypeOK, ProcTypeOK, Goto,
     Exited, Running, Procs
<1>3. ASSUME NEW s \in Slots, Prepare(s) PROVE ReapedInv'
  BY <1>3 DEF Prepare, Quarantine, ReapedInv, HoldInv, Holding, WorkTypeOK,
     ProcTypeOK, Goto, Fixing, Exited, Running, Procs
<1>4. ASSUME NEW s \in Slots, Spawn(s) PROVE ReapedInv'
  BY <1>4 DEF Spawn, Launch, ReapedInv, HoldInv, Holding, WorkTypeOK,
     ProcTypeOK, Goto, Fixing, Exited, Running, Procs
<1>5. ASSUME NEW s \in Slots, Register(s) PROVE ReapedInv'
  BY <1>5 DEF Register, Terminate, ReapedInv, HoldInv, Holding, WorkTypeOK,
     ProcTypeOK, Goto, Fixing, MyProc, Exited, Running, Procs
<1>6. ASSUME NEW s \in Slots, Reap(s) PROVE ReapedInv'
  BY <1>6 DEF Reap, ReapedInv, HoldInv, Holding, WorkTypeOK, ProcTypeOK, Goto,
     Fixing, MyProc, Exited, Running, Procs
<1>7. ASSUME NEW s \in Slots, Promote(s) PROVE ReapedInv'
  BY <1>7 DEF Promote, PromotePart, ReapedInv, HoldInv, Holding, WorkTypeOK,
     ProcTypeOK, Goto, Fixing, MyProc, Exited, Running, Procs
<1>8. ASSUME NEW s \in Slots, EncodeRaise(s) PROVE ReapedInv'
  BY <1>8 DEF EncodeRaise, RecordException, Record, ReapedInv, HoldInv,
     Holding, WorkTypeOK, ProcTypeOK, Goto, Fixing, MyProc, Exited, Running,
     Procs
<1>9. ASSUME NEW s \in Slots, JudgeFix(s) PROVE ReapedInv'
  BY <1>9 DEF JudgeFix, ReapedInv, HoldInv, Holding, WorkTypeOK, ProcTypeOK,
     Goto, Fixing, MyProc, Exited, Running, Procs
<1>10. ASSUME NEW s \in Slots, JudgeRecord(s) PROVE ReapedInv'
  BY <1>10 DEF JudgeRecord, Record, Submit, ReapedInv, HoldInv, Holding,
     WorkTypeOK, ProcTypeOK, Goto, Fixing, MyProc, Exited, Running, Procs
<1>11. ASSUME NEW s \in Slots, FixEncoded(s) PROVE ReapedInv'
  BY <1>11 DEF FixEncoded, Quarantine, Record, ReapedInv, HoldInv, Holding,
     WorkTypeOK, ProcTypeOK, Goto, Fixing, MyProc, Exited, Running, Procs
<1>12. ASSUME NEW s \in Slots, FixBroken(s) PROVE ReapedInv'
  BY <1>12 DEF FixBroken, Quarantine, Record, ReapedInv, HoldInv, Holding,
     WorkTypeOK, ProcTypeOK, Goto, Exited, Running, Procs
<1>13. ASSUME NEW s \in Slots, FixPromote(s) PROVE ReapedInv'
  BY <1>13 DEF FixPromote, PromotePart, Record, Submit, ReapedInv, HoldInv,
     Holding, WorkTypeOK, ProcTypeOK, Goto, Exited, Running, Procs
<1>14. ASSUME NEW s \in Slots, FixRaise(s) PROVE ReapedInv'
  BY <1>14 DEF FixRaise, Record, ReapedInv, HoldInv, Holding, WorkTypeOK,
     ProcTypeOK, Goto, Exited, Running, Procs
<1>15. ASSUME NEW p \in Procs, Exit(p) PROVE ReapedInv'
  BY <1>15 DEF Exit, ReapedInv, HoldInv, Holding, WorkTypeOK, ProcTypeOK,
     Exited, Running, Procs, RenderRest, EncodeRest, workVars
<1>16. CASE SizeSweep
  BY <1>16 DEF SizeSweep, Terminate, ReapedInv, HoldInv, Holding, WorkTypeOK,
     ProcTypeOK, Exited, Running, Procs, RenderRest, workVars
<1>17. CASE ChokeKill
  BY <1>17 DEF ChokeKill, Terminate, ReapedInv, HoldInv, Holding, WorkTypeOK,
     ProcTypeOK, Exited, Running, Procs, RenderRest, workVars
<1>18. CASE OnAbortSweep
  BY <1>18 DEF OnAbortSweep, Terminate, ReapedInv, HoldInv, Holding,
     WorkTypeOK, ProcTypeOK, Exited, Running, Procs, EncodeRest, workVars
<1>19. CASE UNCHANGED <<wpc, wchunk, ps>>
  BY <1>19 DEF ReapedInv
<1>q. QED
  BY Actions, <1>1, <1>2, <1>3, <1>4, <1>5, <1>6, <1>7, <1>8, <1>9, <1>10,
     <1>11, <1>12, <1>13, <1>14, <1>15, <1>16, <1>17, <1>18, <1>19 DEF
     ChokeSnapshot, SizeOver, SizeAbort, GuardWork, OnAbortInfo, OnAbortFlag,
     UserFinish, MainJoin, MainGuardDone, MainGuardTimeout, MainCollect,
     MainQuality, MainSize, MainFinish, vars, RenderRest, EncodeRest,
     MainRest, Goto, guardVars, diskVars, workVars, mainVars, rendVars,
     abortVars, GuardStep, GuardTake, GuardInfraFail, GuardPass, GuardFail,
     NoScore, Score,
     PutSentinel, ReapInflight, ExitWith

\* An encoder that nobody has signalled is registered while its worker waits.
LEMMA RegisteredSteps ==
  ASSUME RegisteredInv, WorkTypeOK, ProcTypeOK, HoldInv, [Next]_vars
  PROVE  RegisteredInv'
<1>1. ASSUME NEW s \in Slots, LoopCheck(s) PROVE RegisteredInv'
  BY <1>1 DEF LoopCheck, RegisteredInv, Waiting, HoldInv, Holding, WorkTypeOK,
     ProcTypeOK, Goto, Fixing, MyProc, Exited, Running, Procs
<1>2. ASSUME NEW s \in Slots, Take(s) PROVE RegisteredInv'
  BY <1>2 DEF Take, RegisteredInv, Waiting, HoldInv, Holding, WorkTypeOK,
     ProcTypeOK, Goto, Fixing, MyProc, Exited, Running, Procs
<1>3. ASSUME NEW s \in Slots, Prepare(s) PROVE RegisteredInv'
  BY <1>3 DEF Prepare, Quarantine, RegisteredInv, Waiting, HoldInv, Holding,
     WorkTypeOK, ProcTypeOK, Goto, Fixing, MyProc, Exited, Running, Procs
<1>4. ASSUME NEW s \in Slots, Spawn(s) PROVE RegisteredInv'
  BY <1>4 DEF Spawn, Launch, RegisteredInv, Waiting, HoldInv, Holding,
     WorkTypeOK, ProcTypeOK, Goto, Fixing, MyProc, Exited, Running, Procs
<1>5. ASSUME NEW s \in Slots, Register(s) PROVE RegisteredInv'
  BY <1>5 DEF Register, Terminate, RegisteredInv, Waiting, HoldInv, Holding,
     WorkTypeOK, ProcTypeOK, Goto, Fixing, MyProc, Exited, Running, Procs
<1>6. ASSUME NEW s \in Slots, Reap(s) PROVE RegisteredInv'
  BY <1>6 DEF Reap, RegisteredInv, Waiting, HoldInv, Holding, WorkTypeOK,
     ProcTypeOK, Goto, Fixing, MyProc, Exited, Running, Procs
<1>7. ASSUME NEW s \in Slots, Promote(s) PROVE RegisteredInv'
  BY <1>7 DEF Promote, PromotePart, RegisteredInv, Waiting, HoldInv, Holding,
     WorkTypeOK, ProcTypeOK, Goto, Fixing, MyProc, Exited, Running, Procs
<1>8. ASSUME NEW s \in Slots, EncodeRaise(s) PROVE RegisteredInv'
  BY <1>8 DEF EncodeRaise, RecordException, Record, RegisteredInv, Waiting,
     HoldInv, Holding, WorkTypeOK, ProcTypeOK, Goto, Fixing, MyProc, Exited,
     Running, Procs
<1>9. ASSUME NEW s \in Slots, JudgeFix(s) PROVE RegisteredInv'
  BY <1>9 DEF JudgeFix, RegisteredInv, Waiting, HoldInv, Holding, WorkTypeOK,
     ProcTypeOK, Goto, Fixing, MyProc, Exited, Running, Procs
<1>10. ASSUME NEW s \in Slots, JudgeRecord(s) PROVE RegisteredInv'
  BY <1>10 DEF JudgeRecord, Record, Submit, RegisteredInv, Waiting, HoldInv,
     Holding, WorkTypeOK, ProcTypeOK, Goto, Fixing, MyProc, Exited, Running,
     Procs
<1>11. ASSUME NEW s \in Slots, FixEncoded(s) PROVE RegisteredInv'
  BY <1>11 DEF FixEncoded, Quarantine, Record, RegisteredInv, Waiting,
     HoldInv, Holding, WorkTypeOK, ProcTypeOK, Goto, Fixing, MyProc, Exited,
     Running, Procs
<1>12. ASSUME NEW s \in Slots, FixBroken(s) PROVE RegisteredInv'
  BY <1>12 DEF FixBroken, Quarantine, Record, RegisteredInv, Waiting, HoldInv,
     Holding, WorkTypeOK, ProcTypeOK, Goto, Fixing, MyProc, Exited, Running,
     Procs
<1>13. ASSUME NEW s \in Slots, FixPromote(s) PROVE RegisteredInv'
  BY <1>13 DEF FixPromote, PromotePart, Record, Submit, RegisteredInv,
     Waiting, HoldInv, Holding, WorkTypeOK, ProcTypeOK, Goto, Fixing, MyProc,
     Exited, Running, Procs
<1>14. ASSUME NEW s \in Slots, FixRaise(s) PROVE RegisteredInv'
  BY <1>14 DEF FixRaise, Record, RegisteredInv, Waiting, HoldInv, Holding,
     WorkTypeOK, ProcTypeOK, Goto, Fixing, MyProc, Exited, Running, Procs
<1>15. ASSUME NEW p \in Procs, Exit(p) PROVE RegisteredInv'
  BY <1>15 DEF Exit, RegisteredInv, Waiting, HoldInv, Holding, WorkTypeOK,
     ProcTypeOK, Fixing, MyProc, Exited, Running, Procs, RenderRest,
     EncodeRest, workVars
<1>16. CASE SizeSweep
  BY <1>16 DEF SizeSweep, Terminate, RegisteredInv, Waiting, HoldInv, Holding,
     WorkTypeOK, ProcTypeOK, Fixing, MyProc, Exited, Running, Procs,
     RenderRest, workVars
<1>17. CASE ChokeKill
  BY <1>17 DEF ChokeKill, Terminate, RegisteredInv, Waiting, HoldInv, Holding,
     WorkTypeOK, ProcTypeOK, Fixing, MyProc, Exited, Running, Procs,
     RenderRest, workVars
<1>18. CASE OnAbortSweep
  BY <1>18 DEF OnAbortSweep, Terminate, RegisteredInv, Waiting, HoldInv,
     Holding, WorkTypeOK, ProcTypeOK, Fixing, MyProc, Exited, Running, Procs,
     EncodeRest, workVars
<1>19. CASE UNCHANGED <<wpc, wchunk, ps, active>>
  BY <1>19 DEF RegisteredInv, Waiting, MyProc, Fixing
<1>q. QED
  BY Actions, <1>1, <1>2, <1>3, <1>4, <1>5, <1>6, <1>7, <1>8, <1>9, <1>10,
     <1>11, <1>12, <1>13, <1>14, <1>15, <1>16, <1>17, <1>18, <1>19 DEF
     ChokeSnapshot, SizeOver, SizeAbort, GuardWork, OnAbortInfo, OnAbortFlag,
     UserFinish, MainJoin, MainGuardDone, MainGuardTimeout, MainCollect,
     MainQuality, MainSize, MainFinish, vars, RenderRest, EncodeRest,
     MainRest, Goto, guardVars, diskVars, workVars, mainVars, rendVars,
     abortVars, GuardStep, GuardTake, GuardInfraFail, GuardPass, GuardFail,
     NoScore, Score,
     PutSentinel, ReapInflight, ExitWith

\* The disk names a worker writes to are free.
LEMMA DiskSteps ==
  ASSUME DiskInv, ReapedInv, WorkTypeOK, ProcTypeOK, DiskTypeOK, HoldInv, [Next]_vars
  PROVE  DiskInv'
<1>1. ASSUME NEW s \in Slots, LoopCheck(s) PROVE DiskInv'
  BY <1>1 DEF LoopCheck, DiskInv, ReapedInv, HoldInv, Holding, WorkTypeOK,
     ProcTypeOK, DiskTypeOK, Goto, Exited, Running, Procs, diskVars
<1>2. ASSUME NEW s \in Slots, Take(s) PROVE DiskInv'
  BY <1>2 DEF Take, DiskInv, ReapedInv, HoldInv, Holding, WorkTypeOK,
     ProcTypeOK, DiskTypeOK, Goto, Exited, Running, Procs, diskVars
<1>3. ASSUME NEW s \in Slots, Prepare(s) PROVE DiskInv'
  BY <1>3 DEF Prepare, Quarantine, DiskInv, ReapedInv, HoldInv, Holding,
     WorkTypeOK, ProcTypeOK, DiskTypeOK, Goto, Fixing, Exited, Running, Procs
<1>4. ASSUME NEW s \in Slots, Spawn(s) PROVE DiskInv'
  BY <1>4 DEF Spawn, Launch, DiskInv, ReapedInv, HoldInv, Holding, WorkTypeOK,
     ProcTypeOK, DiskTypeOK, Goto, Fixing, Exited, Running, Procs
<1>5. ASSUME NEW s \in Slots, Register(s) PROVE DiskInv'
  BY <1>5 DEF Register, Terminate, DiskInv, ReapedInv, HoldInv, Holding,
     WorkTypeOK, ProcTypeOK, DiskTypeOK, Goto, Fixing, MyProc, Exited,
     Running, Procs, diskVars
<1>6. ASSUME NEW s \in Slots, Reap(s) PROVE DiskInv'
  BY <1>6 DEF Reap, DiskInv, ReapedInv, HoldInv, Holding, WorkTypeOK,
     ProcTypeOK, DiskTypeOK, Goto, Fixing, MyProc, Exited, Running, Procs,
     diskVars
<1>7. ASSUME NEW s \in Slots, Promote(s) PROVE DiskInv'
  <2>1. /\ wpc[s] = "reaped" /\ wpc' = [wpc EXCEPT ![s] = "judge"]
        /\ UNCHANGED <<todo, wchunk, ps>>
    BY <1>7 DEF Promote, Goto
  <2>2. MyProc(s) = <<wchunk[s], "encode">>
    BY <2>1 DEF MyProc, Fixing
  <2>3. \/ ps[MyProc(s)] = "ok" /\ enc' = [enc EXCEPT ![wchunk[s]] = part[wchunk[s]]]
        \/ enc' = enc /\ ps[MyProc(s)] # "ok"
    BY <1>7 DEF Promote, PromotePart, diskVars
  <2>4. Holding(s) /\ wchunk[s] # NoChunk /\ wchunk[s] \notin todo
    BY <2>1 DEF Holding, HoldInv
  <2>5. \A c \in Chunks : c # wchunk[s] => enc'[c] = enc[c]
    BY <2>3 DEF DiskTypeOK
  <2>6. \A c \in todo' : enc'[c] = "none"
    BY <2>1, <2>4, <2>5 DEF DiskInv, WorkTypeOK
  <2>7. ASSUME NEW t \in Slots, Holding(t)',
               ~(wpc[t] = "judge" /\ ps[<<wchunk[t], "encode">>] = "ok")'
        PROVE  (enc[wchunk[t]] = "none")'
    <3>1. CASE t = s
      <4>1. wpc'[s] = "judge"
        BY <2>1 DEF WorkTypeOK
      <4>2. ps[MyProc(s)] # "ok"
        BY <2>1, <2>2, <2>7, <3>1, <4>1
      <4>3. enc[wchunk[s]] = "none"
        BY <2>1, <2>4 DEF DiskInv
      <4>q. QED
        BY <2>1, <2>3, <3>1, <4>2, <4>3
    <3>2. CASE t # s
      <4>1. wpc'[t] = wpc[t]
        BY <2>1, <3>2 DEF WorkTypeOK
      <4>2. Holding(t) /\ wchunk[t] \in Chunks /\ wchunk[t] # wchunk[s]
        BY <2>4, <2>7, <3>2, <4>1 DEF Holding, HoldInv, WorkTypeOK
      <4>3. enc[wchunk[t]] = "none"
        BY <2>1, <2>7, <4>1, <4>2 DEF DiskInv
      <4>q. QED
        BY <2>1, <2>5, <4>2, <4>3
    <3>q. QED
      BY <3>1, <3>2
  <2>q. QED
    BY <2>6, <2>7 DEF DiskInv
<1>8. ASSUME NEW s \in Slots, EncodeRaise(s) PROVE DiskInv'
  BY <1>8 DEF EncodeRaise, RecordException, Record, DiskInv, ReapedInv,
     HoldInv, Holding, WorkTypeOK, ProcTypeOK, DiskTypeOK, Goto, Fixing,
     MyProc, Exited, Running, Procs, diskVars
<1>9. ASSUME NEW s \in Slots, JudgeFix(s) PROVE DiskInv'
  BY <1>9 DEF JudgeFix, DiskInv, ReapedInv, HoldInv, Holding, WorkTypeOK,
     ProcTypeOK, DiskTypeOK, Goto, Fixing, MyProc, Exited, Running, Procs,
     diskVars
<1>10. ASSUME NEW s \in Slots, JudgeRecord(s) PROVE DiskInv'
  <2>1. PICK rc \in {0, 1} : Record(s, rc)
    BY <1>10 DEF JudgeRecord
  <2>2. UNCHANGED <<todo, ps, diskVars>>
    BY <1>10, <2>1 DEF JudgeRecord, Record
  <2>3. wpc' = [wpc EXCEPT ![s] = "loop"] /\ wchunk' = [wchunk EXCEPT ![s] = NoChunk]
    BY <2>1 DEF Record, Goto
  <2>q. QED
    BY <2>2, <2>3 DEF DiskInv, Holding, WorkTypeOK, diskVars
<1>11. ASSUME NEW s \in Slots, FixEncoded(s) PROVE DiskInv'
  BY <1>11 DEF FixEncoded, Quarantine, Record, DiskInv, ReapedInv, HoldInv,
     Holding, WorkTypeOK, ProcTypeOK, DiskTypeOK, Goto, Fixing, MyProc,
     Exited, Running, Procs, diskVars
<1>12. ASSUME NEW s \in Slots, FixBroken(s) PROVE DiskInv'
  BY <1>12 DEF FixBroken, Quarantine, Record, DiskInv, ReapedInv, HoldInv,
     Holding, WorkTypeOK, ProcTypeOK, DiskTypeOK, Goto, Exited, Running, Procs
<1>13. ASSUME NEW s \in Slots, FixPromote(s) PROVE DiskInv'
  BY <1>13 DEF FixPromote, PromotePart, Record, Submit, DiskInv, ReapedInv,
     HoldInv, Holding, WorkTypeOK, ProcTypeOK, DiskTypeOK, Goto, Exited,
     Running, Procs
<1>14. ASSUME NEW s \in Slots, FixRaise(s) PROVE DiskInv'
  BY <1>14 DEF FixRaise, Record, DiskInv, ReapedInv, HoldInv, Holding,
     WorkTypeOK, ProcTypeOK, DiskTypeOK, Goto, Exited, Running, Procs,
     diskVars
<1>15. ASSUME NEW p \in Procs, Exit(p) PROVE DiskInv'
  BY <1>15 DEF Exit, DiskInv, ReapedInv, HoldInv, Holding, WorkTypeOK,
     ProcTypeOK, DiskTypeOK, Exited, Running, Procs, RenderRest, EncodeRest,
     workVars, diskVars
<1>16. CASE SizeSweep
  BY <1>16 DEF SizeSweep, Terminate, DiskInv, ReapedInv, HoldInv, Holding,
     WorkTypeOK, ProcTypeOK, DiskTypeOK, Exited, Running, Procs, RenderRest,
     workVars, diskVars
<1>17. CASE ChokeKill
  BY <1>17 DEF ChokeKill, Terminate, DiskInv, ReapedInv, HoldInv, Holding,
     WorkTypeOK, ProcTypeOK, DiskTypeOK, Exited, Running, Procs, RenderRest,
     workVars, diskVars
<1>18. CASE OnAbortSweep
  BY <1>18 DEF OnAbortSweep, Terminate, DiskInv, ReapedInv, HoldInv, Holding,
     WorkTypeOK, ProcTypeOK, DiskTypeOK, Exited, Running, Procs, EncodeRest,
     workVars, diskVars
<1>19. CASE MainCollect
  BY <1>19 DEF MainCollect, DiskInv, ReapedInv, HoldInv, Holding, WorkTypeOK,
     ProcTypeOK, DiskTypeOK, Exited, Running, Procs, MainRest, workVars
<1>20. CASE UNCHANGED <<todo, wpc, wchunk, ps, diskVars>>
  BY <1>20 DEF DiskInv, diskVars, Holding
<1>q. QED
  BY Actions, <1>1, <1>2, <1>3, <1>4, <1>5, <1>6, <1>7, <1>8, <1>9, <1>10,
     <1>11, <1>12, <1>13, <1>14, <1>15, <1>16, <1>17, <1>18, <1>19, <1>20 DEF
     ChokeSnapshot, SizeOver, SizeAbort, GuardWork, OnAbortInfo, OnAbortFlag,
     UserFinish, MainJoin, MainGuardDone, MainGuardTimeout, MainQuality,
     MainSize, MainFinish, vars, RenderRest, EncodeRest, MainRest, Goto,
     guardVars, diskVars, workVars, mainVars, rendVars, abortVars, GuardStep,
     GuardTake, GuardInfraFail, GuardPass, GuardFail,
     NoScore, Score, PutSentinel,
     ReapInflight, ExitWith

\* ffmpeg starts on a free .part name when quarantine renames work.
LEMMA FreePartSteps ==
  ASSUME ~RenameFails, FreePartInv, WorkTypeOK, DiskTypeOK, HoldInv, [Next]_vars
  PROVE  FreePartInv'
<1>1. ASSUME NEW s \in Slots, LoopCheck(s) PROVE FreePartInv'
  BY <1>1 DEF LoopCheck, FreePartInv, HoldInv, Holding, WorkTypeOK,
     DiskTypeOK, Goto, diskVars
<1>2. ASSUME NEW s \in Slots, Take(s) PROVE FreePartInv'
  BY <1>2 DEF Take, FreePartInv, HoldInv, Holding, WorkTypeOK, DiskTypeOK,
     Goto, diskVars
<1>3. ASSUME NEW s \in Slots, Prepare(s) PROVE FreePartInv'
  BY <1>3 DEF Prepare, Quarantine, FreePartInv, HoldInv, Holding, WorkTypeOK,
     DiskTypeOK, Goto, Fixing
<1>4. ASSUME NEW s \in Slots, Spawn(s) PROVE FreePartInv'
  BY <1>4 DEF Spawn, Launch, FreePartInv, HoldInv, Holding, WorkTypeOK,
     DiskTypeOK, Goto, Fixing
<1>5. ASSUME NEW s \in Slots, Register(s) PROVE FreePartInv'
  BY <1>5 DEF Register, Terminate, FreePartInv, HoldInv, Holding, WorkTypeOK,
     DiskTypeOK, Goto, Fixing, diskVars
<1>6. ASSUME NEW s \in Slots, Reap(s) PROVE FreePartInv'
  BY <1>6 DEF Reap, FreePartInv, HoldInv, Holding, WorkTypeOK, DiskTypeOK,
     Goto, Fixing, diskVars
<1>7. ASSUME NEW s \in Slots, Promote(s) PROVE FreePartInv'
  BY <1>7 DEF Promote, PromotePart, FreePartInv, HoldInv, Holding, WorkTypeOK,
     DiskTypeOK, Goto, Fixing, diskVars
<1>8. ASSUME NEW s \in Slots, EncodeRaise(s) PROVE FreePartInv'
  BY <1>8 DEF EncodeRaise, RecordException, Record, FreePartInv, HoldInv,
     Holding, WorkTypeOK, DiskTypeOK, Goto, Fixing, diskVars
<1>9. ASSUME NEW s \in Slots, JudgeFix(s) PROVE FreePartInv'
  BY <1>9 DEF JudgeFix, FreePartInv, HoldInv, Holding, WorkTypeOK, DiskTypeOK,
     Goto, Fixing, diskVars
<1>10. ASSUME NEW s \in Slots, JudgeRecord(s) PROVE FreePartInv'
  BY <1>10 DEF JudgeRecord, Record, Submit, FreePartInv, HoldInv, Holding,
     WorkTypeOK, DiskTypeOK, Goto, Fixing, diskVars
<1>11. ASSUME NEW s \in Slots, FixEncoded(s) PROVE FreePartInv'
  BY <1>11 DEF FixEncoded, Quarantine, Record, FreePartInv, HoldInv, Holding,
     WorkTypeOK, DiskTypeOK, Goto, Fixing, diskVars
<1>12. ASSUME NEW s \in Slots, FixBroken(s) PROVE FreePartInv'
  BY <1>12 DEF FixBroken, Quarantine, Record, FreePartInv, HoldInv, Holding,
     WorkTypeOK, DiskTypeOK, Goto
<1>13. ASSUME NEW s \in Slots, FixPromote(s) PROVE FreePartInv'
  BY <1>13 DEF FixPromote, PromotePart, Record, Submit, FreePartInv, HoldInv,
     Holding, WorkTypeOK, DiskTypeOK, Goto
<1>14. ASSUME NEW s \in Slots, FixRaise(s) PROVE FreePartInv'
  BY <1>14 DEF FixRaise, Record, FreePartInv, HoldInv, Holding, WorkTypeOK,
     DiskTypeOK, Goto, diskVars
<1>15. CASE MainCollect
  BY <1>15 DEF MainCollect, FreePartInv, HoldInv, Holding, WorkTypeOK,
     DiskTypeOK, MainRest, workVars
<1>16. CASE UNCHANGED <<wpc, wchunk, diskVars>>
  BY <1>16 DEF FreePartInv, diskVars
<1>q. QED
  BY Actions, <1>1, <1>2, <1>3, <1>4, <1>5, <1>6, <1>7, <1>8, <1>9, <1>10,
     <1>11, <1>12, <1>13, <1>14, <1>15, <1>16 DEF Exit, ChokeSnapshot,
     SizeOver, SizeAbort, SizeSweep, ChokeKill, GuardWork, OnAbortInfo,
     OnAbortFlag, OnAbortSweep, UserFinish, MainJoin, MainGuardDone,
     MainGuardTimeout, MainQuality, MainSize, MainFinish, vars, RenderRest,
     EncodeRest, MainRest, Goto, guardVars, diskVars, workVars, mainVars,
     rendVars, abortVars, Terminate, GuardStep, GuardTake, GuardInfraFail,
     GuardPass, GuardFail, NoScore, Score, PutSentinel, ReapInflight, ExitWith

\* No step loses encoded video when quarantine renames work.
LEMMA BytesSteps ==
  ASSUME ~RenameFails, BytesPreserved, FreePartInv, DiskInv, WorkTypeOK, DiskTypeOK, ReapedInv, HoldInv, [Next]_vars
  PROVE  BytesPreserved'
<1>1. ASSUME NEW s \in Slots, Prepare(s) PROVE BytesPreserved'
  BY <1>1 DEF Prepare, Quarantine, BytesPreserved, DiskInv, ReapedInv,
     DiskTypeOK, WorkTypeOK, HoldInv, Holding, Fixing, Exited
<1>2. ASSUME NEW s \in Slots, Spawn(s) PROVE BytesPreserved'
  <2>1. wchunk[s] \in Chunks /\ part[wchunk[s]] = "none"
    BY <1>2, HeldChunk DEF Spawn, Holding, FreePartInv
  <2>2. PICK kind \in {"encode", "fix"} : Launch(s, kind)
    BY <1>2 DEF Spawn
  <2>q. QED
    BY <2>1, <2>2 DEF Launch, BytesPreserved, DiskTypeOK, Writers
<1>3. ASSUME NEW s \in Slots, Promote(s) PROVE BytesPreserved'
  BY <1>3 DEF Promote, PromotePart, BytesPreserved, DiskInv, ReapedInv,
     DiskTypeOK, WorkTypeOK, HoldInv, Holding, Fixing, MyProc, diskVars,
     Exited
<1>4. ASSUME NEW s \in Slots, FixEncoded(s) PROVE BytesPreserved'
  BY <1>4 DEF FixEncoded, Quarantine, Record, BytesPreserved, DiskInv,
     ReapedInv, DiskTypeOK, WorkTypeOK, HoldInv, Holding, Fixing, MyProc,
     diskVars, Exited
<1>5. ASSUME NEW s \in Slots, FixBroken(s) PROVE BytesPreserved'
  BY <1>5 DEF FixBroken, Quarantine, Record, BytesPreserved, DiskInv,
     ReapedInv, DiskTypeOK, WorkTypeOK, HoldInv, Holding, Exited
<1>6. ASSUME NEW s \in Slots, FixPromote(s) PROVE BytesPreserved'
  <2>1. wchunk[s] \in Chunks /\ enc[wchunk[s]] = "none"
    BY <1>6, HeldChunk DEF FixPromote, Holding, DiskInv
  <2>2. PromotePart(wchunk[s])
    BY <1>6 DEF FixPromote
  <2>q. QED
    BY <2>1, <2>2 DEF PromotePart, BytesPreserved, DiskTypeOK, Writers
<1>7. CASE MainCollect
  BY <1>7 DEF MainCollect, BytesPreserved, DiskInv, ReapedInv, DiskTypeOK,
     WorkTypeOK, HoldInv, Holding, Exited
<1>8. CASE UNCHANGED diskVars
  BY <1>8 DEF BytesPreserved, diskVars
<1>q. QED
  BY Actions, <1>1, <1>2, <1>3, <1>4, <1>5, <1>6, <1>7, <1>8 DEF LoopCheck,
     Take, Register, Reap, EncodeRaise, JudgeFix, JudgeRecord, FixRaise, Exit,
     ChokeSnapshot, SizeOver, SizeAbort, SizeSweep, ChokeKill, GuardWork,
     OnAbortInfo, OnAbortFlag, OnAbortSweep, UserFinish, MainJoin,
     MainGuardDone, MainGuardTimeout, MainQuality, MainSize, MainFinish, vars,
     RenderRest, EncodeRest, MainRest, Goto, guardVars, diskVars, workVars,
     mainVars, rendVars, abortVars, Terminate, RecordException, Record,
     Submit, GuardStep, GuardTake, GuardInfraFail, GuardPass, GuardFail,
     NoScore, Score,
     PutSentinel, ReapInflight, ExitWith

\* Once an abort is swept, register_proc keeps later encoders from escaping it.
LEMMA SweptSteps ==
  ASSUME SweptInv, RegisteredInv, WorkTypeOK, ProcTypeOK, HoldInv, [Next]_vars
  PROVE  SweptInv'
<1>1. ASSUME NEW s \in Slots, LoopCheck(s) PROVE SweptInv'
  BY <1>1 DEF LoopCheck, SweptInv, Waiting, HoldInv, Holding, WorkTypeOK,
     ProcTypeOK, Goto, Fixing, MyProc, Exited, Running, Procs, guardVars,
     abortVars, rendVars
<1>2. ASSUME NEW s \in Slots, Take(s) PROVE SweptInv'
  BY <1>2 DEF Take, SweptInv, Waiting, HoldInv, Holding, WorkTypeOK,
     ProcTypeOK, Goto, Fixing, MyProc, Exited, Running, Procs, guardVars,
     abortVars, rendVars
<1>3. ASSUME NEW s \in Slots, Prepare(s) PROVE SweptInv'
  BY <1>3 DEF Prepare, Quarantine, SweptInv, Waiting, HoldInv, Holding,
     WorkTypeOK, ProcTypeOK, Goto, Fixing, MyProc, Exited, Running, Procs,
     guardVars, abortVars, rendVars
<1>4. ASSUME NEW s \in Slots, Spawn(s) PROVE SweptInv'
  BY <1>4 DEF Spawn, Launch, SweptInv, Waiting, HoldInv, Holding, WorkTypeOK,
     ProcTypeOK, Goto, Fixing, MyProc, Exited, Running, Procs, guardVars,
     abortVars, rendVars
<1>5. ASSUME NEW s \in Slots, Register(s) PROVE SweptInv'
  BY <1>5 DEF Register, Terminate, SweptInv, Waiting, HoldInv, Holding,
     WorkTypeOK, ProcTypeOK, Goto, Fixing, MyProc, Exited, Running, Procs,
     guardVars, abortVars, rendVars
<1>6. ASSUME NEW s \in Slots, Reap(s) PROVE SweptInv'
  BY <1>6 DEF Reap, SweptInv, Waiting, HoldInv, Holding, WorkTypeOK,
     ProcTypeOK, Goto, Fixing, MyProc, Exited, Running, Procs, guardVars,
     abortVars, rendVars
<1>7. ASSUME NEW s \in Slots, Promote(s) PROVE SweptInv'
  BY <1>7 DEF Promote, PromotePart, SweptInv, Waiting, HoldInv, Holding,
     WorkTypeOK, ProcTypeOK, Goto, Fixing, MyProc, Exited, Running, Procs,
     guardVars, abortVars, rendVars
<1>8. ASSUME NEW s \in Slots, EncodeRaise(s) PROVE SweptInv'
  BY <1>8 DEF EncodeRaise, RecordException, Record, SweptInv, Waiting,
     HoldInv, Holding, WorkTypeOK, ProcTypeOK, Goto, Fixing, MyProc, Exited,
     Running, Procs, guardVars, abortVars, rendVars
<1>9. ASSUME NEW s \in Slots, JudgeFix(s) PROVE SweptInv'
  BY <1>9 DEF JudgeFix, SweptInv, Waiting, HoldInv, Holding, WorkTypeOK,
     ProcTypeOK, Goto, Fixing, MyProc, Exited, Running, Procs, guardVars,
     abortVars, rendVars
<1>10. ASSUME NEW s \in Slots, JudgeRecord(s) PROVE SweptInv'
  BY <1>10 DEF JudgeRecord, Record, Submit, SweptInv, Waiting, HoldInv,
     Holding, WorkTypeOK, ProcTypeOK, Goto, Fixing, MyProc, Exited, Running,
     Procs, guardVars, abortVars, rendVars
<1>11. ASSUME NEW s \in Slots, FixEncoded(s) PROVE SweptInv'
  BY <1>11 DEF FixEncoded, Quarantine, Record, SweptInv, Waiting, HoldInv,
     Holding, WorkTypeOK, ProcTypeOK, Goto, Fixing, MyProc, Exited, Running,
     Procs, guardVars, abortVars, rendVars
<1>12. ASSUME NEW s \in Slots, FixBroken(s) PROVE SweptInv'
  BY <1>12 DEF FixBroken, Quarantine, Record, SweptInv, Waiting, HoldInv,
     Holding, WorkTypeOK, ProcTypeOK, Goto, Fixing, MyProc, Exited, Running,
     Procs, guardVars, abortVars, rendVars
<1>13. ASSUME NEW s \in Slots, FixPromote(s) PROVE SweptInv'
  BY <1>13 DEF FixPromote, PromotePart, Record, Submit, SweptInv, Waiting,
     HoldInv, Holding, WorkTypeOK, ProcTypeOK, Goto, Fixing, MyProc, Exited,
     Running, Procs, abortVars, rendVars
<1>14. ASSUME NEW s \in Slots, FixRaise(s) PROVE SweptInv'
  BY <1>14 DEF FixRaise, Record, SweptInv, Waiting, HoldInv, Holding,
     WorkTypeOK, ProcTypeOK, Goto, Fixing, MyProc, Exited, Running, Procs,
     guardVars, abortVars, rendVars
<1>15. ASSUME NEW p \in Procs, Exit(p) PROVE SweptInv'
  BY <1>15 DEF Exit, SweptInv, Waiting, HoldInv, Holding, WorkTypeOK,
     ProcTypeOK, Fixing, MyProc, Exited, Running, Procs, RenderRest,
     EncodeRest, workVars, guardVars, abortVars, rendVars
<1>16. CASE SizeSweep
  <2> SUFFICES ASSUME NEW s \in Slots, Waiting(s) PROVE ps'[MyProc(s)] # "live"
    BY <1>16 DEF SizeSweep, SweptInv, Waiting, MyProc, Fixing, RenderRest, EncodeRest, workVars
  <2>1. MyProc(s) \in Procs
    BY HeldChunk DEF Waiting, Holding
  <2>2. ps[MyProc(s)] = "live" => MyProc(s) \in Registered
    BY <2>1, EncodeAssumption DEF RegisteredInv, Registered, Procs
  <2>q. QED
    BY <1>16, <2>1, <2>2 DEF SizeSweep, Terminate
<1>17. CASE ChokeKill
  BY <1>17 DEF ChokeKill, Terminate, SweptInv, Waiting, HoldInv, Holding,
     WorkTypeOK, ProcTypeOK, Fixing, MyProc, Exited, Running, Procs,
     RenderRest, workVars, guardVars, abortVars
<1>18. CASE OnAbortSweep
  <2> SUFFICES ASSUME NEW s \in Slots, Waiting(s) PROVE ps'[MyProc(s)] # "live"
    BY <1>18 DEF OnAbortSweep, SweptInv, Waiting, MyProc, Fixing, RenderRest, EncodeRest, workVars
  <2>1. MyProc(s) \in Procs
    BY HeldChunk DEF Waiting, Holding
  <2>2. ps[MyProc(s)] = "live" => MyProc(s) \in Registered
    BY <2>1, EncodeAssumption DEF RegisteredInv, Registered, Procs
  <2>q. QED
    BY <1>18, <2>1, <2>2 DEF OnAbortSweep, Terminate
<1>19. ASSUME NEW s \in Slots, ChokeSnapshot(s) PROVE SweptInv'
  BY <1>19 DEF ChokeSnapshot, SweptInv, Waiting, HoldInv, Holding, WorkTypeOK,
     ProcTypeOK, Fixing, MyProc, Exited, Running, Procs, RenderRest, workVars,
     guardVars, abortVars
<1>20. CASE SizeOver
  BY <1>20 DEF SizeOver, SweptInv, Waiting, HoldInv, Holding, WorkTypeOK,
     ProcTypeOK, Fixing, MyProc, Exited, Running, Procs, RenderRest, workVars,
     guardVars, abortVars
<1>21. CASE SizeAbort
  BY <1>21 DEF SizeAbort, SweptInv, Waiting, HoldInv, Holding, WorkTypeOK,
     ProcTypeOK, Fixing, MyProc, Exited, Running, Procs, RenderRest, workVars,
     guardVars
<1>22. CASE GuardWork
  BY <1>22 DEF GuardWork, GuardStep, GuardTake, GuardInfraFail, GuardPass,
     GuardFail,
     NoScore, Score, SweptInv, Waiting, HoldInv, Holding, WorkTypeOK, ProcTypeOK,
     Fixing, MyProc, Exited, Running, Procs, EncodeRest, workVars, abortVars,
     rendVars
<1>23. CASE OnAbortInfo
  BY <1>23 DEF OnAbortInfo, SweptInv, Waiting, HoldInv, Holding, WorkTypeOK,
     ProcTypeOK, Fixing, MyProc, Exited, Running, Procs, EncodeRest, workVars,
     rendVars
<1>24. CASE OnAbortFlag
  BY <1>24 DEF OnAbortFlag, SweptInv, Waiting, HoldInv, Holding, WorkTypeOK,
     ProcTypeOK, Fixing, MyProc, Exited, Running, Procs, EncodeRest, workVars,
     rendVars
<1>25. CASE MainJoin
  BY <1>25 DEF MainJoin, PutSentinel, SweptInv, Waiting, HoldInv, Holding,
     WorkTypeOK, ProcTypeOK, Fixing, MyProc, Exited, Running, Procs, MainRest,
     workVars, abortVars
<1>26. CASE MainGuardTimeout
  BY <1>26 DEF MainGuardTimeout, ReapInflight, SweptInv, Waiting, HoldInv,
     Holding, WorkTypeOK, ProcTypeOK, Fixing, MyProc, Exited, Running, Procs,
     MainRest, workVars, abortVars, rendVars
<1>27. CASE UNCHANGED <<wpc, wchunk, ps, abort, rpc, gpc>>
  BY <1>27 DEF SweptInv, Waiting, MyProc, Fixing
<1>q. QED
  BY Actions, <1>1, <1>2, <1>3, <1>4, <1>5, <1>6, <1>7, <1>8, <1>9, <1>10,
     <1>11, <1>12, <1>13, <1>14, <1>15, <1>16, <1>17, <1>18, <1>19, <1>20,
     <1>21, <1>22, <1>23, <1>24, <1>25, <1>26, <1>27 DEF UserFinish,
     MainGuardDone, MainCollect, MainQuality, MainSize, MainFinish, vars,
     RenderRest, EncodeRest, MainRest, Goto, guardVars, diskVars, workVars,
     mainVars, rendVars, abortVars, ExitWith

\* Every running ffmpeg keeps a worker that will wait for it, as long as the auto-fix does not raise.
LEMMA SupervisedSteps ==
  ASSUME ~FixRaises, SupervisedEncoders, WorkTypeOK, ProcTypeOK, HoldInv, [Next]_vars
  PROVE  SupervisedEncoders'
<1>1. ASSUME NEW s \in Slots, LoopCheck(s) PROVE SupervisedEncoders'
  BY <1>1 DEF LoopCheck, SupervisedEncoders, HoldInv, Holding, WorkTypeOK,
     ProcTypeOK, Goto, Fixing, MyProc, Exited, Running, Procs
<1>2. ASSUME NEW s \in Slots, Take(s) PROVE SupervisedEncoders'
  BY <1>2 DEF Take, SupervisedEncoders, HoldInv, Holding, WorkTypeOK,
     ProcTypeOK, Goto, Fixing, MyProc, Exited, Running, Procs
<1>3. ASSUME NEW s \in Slots, Prepare(s) PROVE SupervisedEncoders'
  BY <1>3 DEF Prepare, Quarantine, SupervisedEncoders, HoldInv, Holding,
     WorkTypeOK, ProcTypeOK, Goto, Fixing, MyProc, Exited, Running, Procs
<1>4. ASSUME NEW s \in Slots, Spawn(s) PROVE SupervisedEncoders'
  BY <1>4 DEF Spawn, Launch, SupervisedEncoders, HoldInv, Holding, WorkTypeOK,
     ProcTypeOK, Goto, Fixing, MyProc, Exited, Running, Procs
<1>5. ASSUME NEW s \in Slots, Register(s) PROVE SupervisedEncoders'
  BY <1>5 DEF Register, Terminate, SupervisedEncoders, HoldInv, Holding,
     WorkTypeOK, ProcTypeOK, Goto, Fixing, MyProc, Exited, Running, Procs
<1>6. ASSUME NEW s \in Slots, Reap(s) PROVE SupervisedEncoders'
  BY <1>6 DEF Reap, SupervisedEncoders, HoldInv, Holding, WorkTypeOK,
     ProcTypeOK, Goto, Fixing, MyProc, Exited, Running, Procs
<1>7. ASSUME NEW s \in Slots, Promote(s) PROVE SupervisedEncoders'
  BY <1>7 DEF Promote, PromotePart, SupervisedEncoders, HoldInv, Holding,
     WorkTypeOK, ProcTypeOK, Goto, Fixing, MyProc, Exited, Running, Procs
<1>8. ASSUME NEW s \in Slots, EncodeRaise(s) PROVE SupervisedEncoders'
  <2>1. /\ wpc[s] \in {"spawn", "wait", "reaped"}
        /\ wpc' = [wpc EXCEPT ![s] = "loop"]
        /\ wchunk' = [wchunk EXCEPT ![s] = NoChunk]
    BY <1>8 DEF EncodeRaise, RecordException, Record, Goto
  <2>2. IF wpc[s] = "wait"
        THEN ps' = [ps EXCEPT ![MyProc(s)] = IF @ \in Running THEN "err" ELSE @]
        ELSE ps' = ps
    BY <1>8 DEF EncodeRaise
  <2> SUFFICES ASSUME NEW p \in Procs, ps'[p] \in Running
               PROVE  \E t \in Slots :
                        /\ wpc'[t] \in {"register", "wait", "fixregister", "fixwait"}
                        /\ MyProc(t)' = p
    BY DEF SupervisedEncoders
  <2>3. ps[p] \in Running /\ ~(wpc[s] = "wait" /\ MyProc(s) = p)
    BY <2>2 DEF ProcTypeOK, Running
  <2>4. PICK t \in Slots : /\ wpc[t] \in {"register", "wait", "fixregister", "fixwait"}
                           /\ MyProc(t) = p
    BY <2>3 DEF SupervisedEncoders
  <2>5. t # s
    BY <2>1, <2>3, <2>4
  <2>6. wpc'[t] = wpc[t] /\ wchunk'[t] = wchunk[t]
    BY <2>1, <2>5 DEF WorkTypeOK
  <2>q. QED
    BY <2>4, <2>6 DEF MyProc, Fixing
<1>9. ASSUME NEW s \in Slots, JudgeFix(s) PROVE SupervisedEncoders'
  BY <1>9 DEF JudgeFix, SupervisedEncoders, HoldInv, Holding, WorkTypeOK,
     ProcTypeOK, Goto, Fixing, MyProc, Exited, Running, Procs
<1>10. ASSUME NEW s \in Slots, JudgeRecord(s) PROVE SupervisedEncoders'
  <2>1. PICK rc \in {0, 1} : Record(s, rc)
    BY <1>10 DEF JudgeRecord
  <2>2. /\ wpc' = [wpc EXCEPT ![s] = "loop"] /\ wchunk' = [wchunk EXCEPT ![s] = NoChunk]
        /\ ps' = ps /\ wpc[s] = "judge"
    BY <1>10, <2>1 DEF JudgeRecord, Record, Goto
  <2>q. QED
    BY <2>2 DEF SupervisedEncoders, MyProc, Fixing, WorkTypeOK
<1>11. ASSUME NEW s \in Slots, FixEncoded(s) PROVE SupervisedEncoders'
  BY <1>11 DEF FixEncoded, Quarantine, Record, SupervisedEncoders, HoldInv,
     Holding, WorkTypeOK, ProcTypeOK, Goto, Fixing, MyProc, Exited, Running,
     Procs
<1>12. ASSUME NEW s \in Slots, FixBroken(s) PROVE SupervisedEncoders'
  BY <1>12 DEF FixBroken, Quarantine, Record, SupervisedEncoders, HoldInv,
     Holding, WorkTypeOK, ProcTypeOK, Goto, Fixing, MyProc, Exited, Running,
     Procs
<1>13. ASSUME NEW s \in Slots, FixPromote(s) PROVE SupervisedEncoders'
  BY <1>13 DEF FixPromote, PromotePart, Record, Submit, SupervisedEncoders,
     HoldInv, Holding, WorkTypeOK, ProcTypeOK, Goto, Fixing, MyProc, Exited,
     Running, Procs
<1>14. ASSUME NEW s \in Slots, FixRaise(s) PROVE SupervisedEncoders'
  BY <1>14 DEF FixRaise, Record, SupervisedEncoders, HoldInv, Holding,
     WorkTypeOK, ProcTypeOK, Goto, Fixing, MyProc, Exited, Running, Procs
<1>15. ASSUME NEW p \in Procs, Exit(p) PROVE SupervisedEncoders'
  BY <1>15 DEF Exit, SupervisedEncoders, HoldInv, Holding, WorkTypeOK,
     ProcTypeOK, Fixing, MyProc, Exited, Running, Procs, RenderRest,
     EncodeRest, workVars
<1>16. CASE SizeSweep
  BY <1>16 DEF SizeSweep, Terminate, SupervisedEncoders, HoldInv, Holding,
     WorkTypeOK, ProcTypeOK, Fixing, MyProc, Exited, Running, Procs,
     RenderRest, workVars
<1>17. CASE ChokeKill
  BY <1>17 DEF ChokeKill, Terminate, SupervisedEncoders, HoldInv, Holding,
     WorkTypeOK, ProcTypeOK, Fixing, MyProc, Exited, Running, Procs,
     RenderRest, workVars
<1>18. CASE OnAbortSweep
  BY <1>18 DEF OnAbortSweep, Terminate, SupervisedEncoders, HoldInv, Holding,
     WorkTypeOK, ProcTypeOK, Fixing, MyProc, Exited, Running, Procs,
     EncodeRest, workVars
<1>19. CASE UNCHANGED <<wpc, wchunk, ps>>
  BY <1>19 DEF SupervisedEncoders, MyProc, Fixing
<1>q. QED
  BY Actions, <1>1, <1>2, <1>3, <1>4, <1>5, <1>6, <1>7, <1>8, <1>9, <1>10,
     <1>11, <1>12, <1>13, <1>14, <1>15, <1>16, <1>17, <1>18, <1>19 DEF
     ChokeSnapshot, SizeOver, SizeAbort, GuardWork, OnAbortInfo, OnAbortFlag,
     UserFinish, MainJoin, MainGuardDone, MainGuardTimeout, MainCollect,
     MainQuality, MainSize, MainFinish, vars, RenderRest, EncodeRest,
     MainRest, Goto, guardVars, diskVars, workVars, mainVars, rendVars,
     abortVars, GuardStep, GuardTake, GuardInfraFail, GuardPass, GuardFail,
     NoScore, Score,
     PutSentinel, ReapInflight, ExitWith

\* The disk and the queue a run starts with satisfy the invariant.
LEMMA InitIInv == Init => IInv
<1> SUFFICES ASSUME Init PROVE IInv
  OBVIOUS
<1>1. PICK done \in SUBSET Chunks : \E stale \in SUBSET (Chunks \ done) :
        /\ todo = Chunks \ done
        /\ enc = [c \in Chunks |-> IF c \in done THEN "prior" ELSE "none"]
        /\ part = [c \in Chunks |-> IF c \in stale THEN "old" ELSE "none"]
        /\ wrote = (done \X {"prior"}) \cup (stale \X {"old"})
  BY DEF Init
<1>2. PICK stale \in SUBSET (Chunks \ done) :
        /\ todo = Chunks \ done
        /\ enc = [c \in Chunks |-> IF c \in done THEN "prior" ELSE "none"]
        /\ part = [c \in Chunks |-> IF c \in stale THEN "old" ELSE "none"]
        /\ wrote = (done \X {"prior"}) \cup (stale \X {"old"})
  BY <1>1
<1>3. GuardTypeOK /\ GuardInv
  <2>1. <<>> \in Seq(Chunks \cup {Sentinel})
    OBVIOUS
  <2>2. gpc \in {"idle", "gone"}
    BY DEF Init, GuardInit
  <2>3. 0 \in 0..InfraLimit /\ 0 < InfraLimit
    BY GuardAssumption
  <2>4. decision \in [Chunks -> Decisions]
    BY DEF Init, GuardInit, Decisions
  <2>5. gq = <<>> /\ gcur = NoChunk /\ infra = 0 /\ gaborted = FALSE
    BY DEF Init, GuardInit
  <2>q. QED
    BY <2>1, <2>2, <2>3, <2>4, <2>5 DEF GuardTypeOK, GuardInv, GuardPCs
<1>4. WorkTypeOK
  BY <1>2 DEF Init, WorkTypeOK, WorkerPCs
<1>5. ProcTypeOK /\ ControlTypeOK /\ ViewInv
  BY DEF Init, ProcTypeOK, ControlTypeOK, ViewInv, MainPCs, Outcomes
<1>6. DiskTypeOK
  BY <1>2 DEF Init, DiskTypeOK, Writers
<1>7. HoldInv
  BY <1>4, GuardAssumption DEF Init, HoldInv, Holding, WorkTypeOK
<1>8. ReapedInv /\ RegisteredInv /\ SweptInv
  BY DEF Init, ReapedInv, RegisteredInv, SweptInv, Waiting
<1>9. DiskInv /\ FreePartInv
  BY <1>2 DEF Init, DiskInv, FreePartInv, Holding
<1>10. BytesPreserved
  BY <1>2 DEF Init, BytesPreserved
<1>11. SupervisedEncoders
  BY DEF Init, SupervisedEncoders, Running
<1>q. QED
  BY <1>3, <1>4, <1>5, <1>6, <1>7, <1>8, <1>9, <1>10, <1>11 DEF IInv, TypeOK

\* Every step of every thread preserves the invariant.
LEMMA NextIInv == IInv /\ [Next]_vars => IInv'
<1> SUFFICES ASSUME IInv, [Next]_vars PROVE IInv'
  OBVIOUS
<1> USE DEF IInv, TypeOK
<1>1. TypeOK'
  BY GuardTypes, WorkTypes, ProcTypes, DiskTypes, ControlTypes
<1>2. GuardInv' /\ ViewInv' /\ HoldInv'
  BY GuardSteps, ViewSteps, HoldSteps
<1>3. ReapedInv' /\ RegisteredInv' /\ SweptInv'
  BY ReapedSteps, RegisteredSteps, SweptSteps
<1>4. DiskInv' /\ (~RenameFails => FreePartInv' /\ BytesPreserved')
  BY DiskSteps, FreePartSteps, BytesSteps
<1>5. ~FixRaises => SupervisedEncoders'
  BY SupervisedSteps
<1>q. QED
  BY <1>1, <1>2, <1>3, <1>4, <1>5

\* The invariant holds in every state of every run of encode_chunks_parallel.
THEOREM Invariant == Spec => []IInv
<1>q. QED
  BY InitIInv, NextIInv, PTL DEF Spec

\* Every variable keeps its type.
THEOREM TypeCorrect == Spec => []TypeOK
<1>1. IInv => TypeOK
  BY DEF IInv
<1>q. QED
  BY <1>1, Invariant, PTL

\* The never-delete rule (chunk_worker.py, chunk_recovery.py,
\* skipped_collector.py): no interleaving of encodes, auto-fixes, kills and
\* exceptions loses a file of encoded video, as long as quarantine renames work.
THEOREM EncodedVideoIsKept ==
  ASSUME RenameFails = FALSE PROVE Spec => []BytesPreserved
<1>1. IInv => BytesPreserved
  BY DEF IInv
<1>q. QED
  BY <1>1, Invariant, PTL

\* Popen teardown (chunk_worker.py): without an exception inside the auto-fix,
\* no ffmpeg outlives the worker that started it.
THEOREM EncodersAreSupervised ==
  ASSUME FixRaises = FALSE PROVE Spec => []SupervisedEncoders
<1>1. IInv => SupervisedEncoders
  BY DEF IInv
<1>q. QED
  BY <1>1, Invariant, PTL

\* register_proc and the terminate sweeps (display.py): an abort leaves no
\* encoder running that has not been signalled or is not about to be refused.
THEOREM AbortReachesEveryEncoder ==
  ASSUME FixRaises = FALSE PROVE Spec => []AbortReachesEncoders
<1>1. IInv => AbortReachesEncoders
  <2> SUFFICES ASSUME IInv, abort, rpc # "sweep", gpc # "sweep",
                      NEW p \in Procs, ps[p] = "live"
               PROVE  \E s \in Slots :
                        wpc[s] \in {"register", "fixregister"} /\ MyProc(s) = p
    BY DEF AbortReachesEncoders
  <2>1. PICK s \in Slots :
          /\ wpc[s] \in {"register", "wait", "fixregister", "fixwait"}
          /\ MyProc(s) = p
    BY DEF IInv, SupervisedEncoders, Running
  <2>2. ~Waiting(s)
    BY <2>1 DEF IInv, SweptInv
  <2>q. QED
    BY <2>1, <2>2 DEF Waiting
<1>q. QED
  BY <1>1, Invariant, PTL
=============================================================================
