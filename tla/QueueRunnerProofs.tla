------------------------- MODULE QueueRunnerProofs -------------------------
(***************************************************************************)
(* For any sources, queues, command lines, exit codes, edits, kills and    *)
(* restarts: QueueInv is inductive, so the completion records tell the     *)
(* truth, --status agrees with the next run, and the counters, markers and *)
(* exit code agree with the files.                                         *)
(***************************************************************************)
EXTENDS QueueRunner, FiniteSetTheorems, SequenceTheorems, TLAPS

\* Next, one disjunct per action.
LEMMA Actions ==
  ASSUME [Next]_vars
  PROVE
    \/ Start \/ Migrate \/ Load \/ Reload \/ SkipJob \/ StartEncoder
    \/ GenerateFails \/ EncoderEnds \/ SaveEscalation \/ ReportJob
    \/ RecordCompletion \/ SaveState \/ NotifyAndLoop \/ Finish \/ Kill
    \/ EditQueue \/ \E s \in Sources : DiscardSource(s)
    \/ UNCHANGED vars
  BY DEF Next, Runner, User

LEMMA ConstantsType ==
  /\ MaxRuns \in Nat /\ MaxEdits \in Nat
  /\ \A q \in Queues : q \in Seq(Sources)
  /\ WithDone \subseteq Sources
  BY QueueAssumption

LEMMA RecordsType ==
  /\ NoRecords \in [Sources -> Records]
  /\ \A s \in Sources : NoRecords[s] = "none"
  /\ Absent \notin [Sources -> Records]
  /\ \A file \in [Sources -> Records] \cup {Absent} :
       Read(file) \in [Sources -> Records]
  /\ \A records \in [Sources -> Records] : Read(records) = records
  /\ Read(Absent) = NoRecords
  BY QueueAssumption DEF NoRecords, Records, Read

LEMMA StatusType ==
  /\ \A rc : StatusesFor(rc) \subseteq Statuses
  /\ \A rc : \A status \in StatusesFor(rc) : status \in CleanStatuses => rc = 0
  /\ {"failed-gen", "failed-parse"} \subseteq Statuses \ CleanStatuses
  BY DEF StatusesFor, StatusForExit, Statuses, CleanStatuses, AttentionStatuses,
         FailedStatuses

\* A job that is skipped as clean has a record or an output.
LEMMA SkipType ==
  ASSUME NEW records, NEW noSkip, NEW s,
         SkipStatus(records, noSkip, s) # "none"
  PROVE  /\ SkipStatus(records, noSkip, s) \in Statuses
         /\ SkipStatus(records, noSkip, s) \in CleanStatuses =>
              records[s] # "none" \/ s \in outputs
  BY DEF SkipStatus, IsCompleted, Statuses, CleanStatuses, AttentionStatuses,
         FailedStatuses

\* A row added to the report.
LEMMA ReportType ==
  ASSUME TypeOK, cur \in Sources, NEW status \in Statuses, Report(status)
  PROVE  /\ reports' \in Seq(Reports)
         /\ Len(reports') = Len(reports) + 1
         /\ DOMAIN reports' = 1..(Len(reports) + 1)
         /\ DOMAIN reports = 1..Len(reports)
         /\ \A i \in DOMAIN reports : reports'[i] = reports[i]
         /\ reports'[Len(reports) + 1].source = cur
         /\ reports'[Len(reports) + 1].status = status
<1>1. [source |-> cur, status |-> status] \in Reports
  BY DEF Reports
<1>2. reports \in Seq(Reports)
  BY DEF TypeOK
<1> QED BY <1>1, <1>2, AppendProperties DEF Report

\* The rows of a report fall into finitely many sets.
LEMMA RowsFinite ==
  ASSUME TypeOK
  PROVE  /\ IsFiniteSet(DOMAIN reports)
         /\ Cardinality(DOMAIN reports) = Len(reports)
         /\ \A T \in SUBSET DOMAIN reports :
              IsFiniteSet(T) /\ Cardinality(T) \in Nat
<1>1. DOMAIN reports = 1..Len(reports) /\ Len(reports) \in Nat
  BY DEF TypeOK
<1>2. IsFiniteSet(DOMAIN reports) /\ Cardinality(DOMAIN reports) = Len(reports)
  <2>1. IsFiniteSet(1..Len(reports))
        /\ Cardinality(1..Len(reports)) = Len(reports)
    <3>1. 1 \in Int /\ Len(reports) \in Int
      BY <1>1
    <3>2. IsFiniteSet(1..Len(reports))
          /\ Cardinality(1..Len(reports)) =
               IF 1 > Len(reports) THEN 0 ELSE Len(reports) - 1 + 1
      BY <3>1, FS_Interval, Zenon
    <3> QED BY <1>1, <3>2
  <2> QED BY <1>1, <2>1
<1> QED BY <1>2, FS_Subset, FS_CardinalityType

LEMMA CountersType ==
  ASSUME TypeOK, RowsInv
  PROVE  /\ QueueCounters \in Counters
         /\ QueueCounters.index = Cardinality(attempted)
         /\ QueueCounters.index <= QueueCounters.total
<1> DEFINE count(set) == Cardinality({i \in DOMAIN reports :
                                        reports[i].status \in set})
           index == Cardinality(attempted)
           total == Cardinality(seen)
<1>1. \A set : count(set) \in Nat
  BY RowsFinite
<1>2. index \in Nat /\ total \in Nat /\ index <= total
  BY FS_Subset, FS_CardinalityType DEF RowsInv
<1>3. (IF total > index THEN total - index ELSE 0) \in Nat
  BY <1>2
<1>4. QueueCounters =
        [index |-> index, total |-> total,
         finished |-> count(FinishedStatuses),
         failed |-> count(FailedStatuses),
         stopped |-> count(StoppedStatuses),
         skipped |-> count(SkippedStatuses),
         remaining |-> IF total > index THEN total - index ELSE 0]
  BY DEF QueueCounters, TotalJobs
<1> HIDE DEF count, index, total
<1>5. QueueCounters \in Counters
  BY <1>1, <1>2, <1>3, <1>4 DEF Counters
<1>6. QueueCounters.index = index /\ QueueCounters.total = total
  BY <1>4
<1> QED BY <1>2, <1>5, <1>6 DEF index

LEMMA InitInv == Init => QueueInv
<1> SUFFICES ASSUME Init PROVE QueueInv
  OBVIOUS
<1>1. /\ queue \in Queues
      /\ outputs \subseteq inputs /\ inputs \subseteq Sources
      /\ doneIn = {} /\ doneOut = {} /\ discarded = {} /\ mem = NoRecords /\ saved = Absent
      /\ opts \in Options /\ pc = "idle"
      /\ jobs = << >> /\ seen = {} /\ attempted = {} /\ reports = << >>
      /\ cur = NoSource /\ doneDir = FALSE /\ code = NoExit /\ env = NoEnv
      /\ exit = NoExit /\ runs = 0 /\ edits = 0
  BY DEF Init
<1>2. /\ legacy \in [Sources -> Records] \cup {Absent}
      /\ \A s \in Sources : /\ Read(legacy)[s] \in {"none", "in place"}
                            /\ Read(legacy)[s] = "in place" => s \in outputs
  BY RecordsType DEF Init, Records, Read
<1>3. /\ saved \in [Sources -> Records] \cup {Absent}
      /\ mem \in [Sources -> Records]
      /\ \A s \in Sources : Read(saved)[s] = "none" /\ mem[s] = "none"
  BY <1>1, RecordsType
<1>4. TypeOK
  <2>1. env \in Counters
    BY <1>1 DEF NoEnv, Counters
  <2>2. reports \in Seq(Reports) /\ jobs \in Queues \cup {<< >>}
    BY <1>1
  <2>3. runs \in 0..MaxRuns /\ edits \in 0..MaxEdits
    BY <1>1, ConstantsType
  <2> QED BY <1>1, <1>2, <1>3, <2>1, <2>2, <2>3 DEF TypeOK
<1>5. DiskInv
  BY <1>1 DEF DiskInv, Underway
<1>6. RecordInv
  BY <1>1, <1>2, <1>3 DEF RecordInv, RecordsTellTruth, Stored
<1>7. KnownInv
  BY <1>1 DEF KnownInv
<1>8. RowsInv
  BY <1>1, FS_EmptySet DEF RowsInv
<1>9. CleanInv
  BY <1>1 DEF CleanInv, BooksAgree, NoEnv, NoExit
<1> QED BY <1>4, <1>5, <1>6, <1>7, <1>8, <1>9 DEF QueueInv

(***************************************************************************)
(* One step: types.                                                        *)
(***************************************************************************)
\* The encoder moves its own job's files only, and only for its done_dir.
LEMMA EncoderEffect ==
  ASSUME TypeOK, DiskInv, NEW s \in Sources,
         \/ \E rc : EncoderRuns(s, rc)
         \/ /\ s \in inputs
            /\ outputs' = outputs \cup {s}
            /\ UNCHANGED <<inputs, doneIn, doneOut>>
         \/ /\ s \in inputs \ outputs /\ doneDir /\ NameFree(s)
            /\ HalfMove(s),
         UNCHANGED discarded
  PROVE  /\ inputs' \subseteq inputs /\ inputs \ {s} \subseteq inputs'
         /\ outputs \ {s} \subseteq outputs' /\ outputs' \subseteq outputs \cup {s}
         /\ outputs' \subseteq inputs' \cup discarded'
         /\ doneIn \subseteq doneIn' /\ doneIn' \subseteq doneIn \cup {s}
         /\ doneOut \subseteq doneOut' /\ doneOut' \subseteq doneOut \cup {s}
         /\ doneDir \/ UNCHANGED <<doneIn, doneOut>>
         /\ s \in outputs =>
              s \in outputs' /\ (s \in inputs => s \in inputs')
<1>1. CASE /\ outputs' = outputs \cup {s} /\ s \in inputs
           /\ UNCHANGED <<inputs, doneIn, doneOut>>
  BY <1>1 DEF DiskInv
<1>2. CASE /\ inputs' = inputs \ {s} /\ s \in inputs \ outputs /\ doneDir
           /\ doneIn' = doneIn \cup {s} /\ doneOut' = doneOut \cup {s}
           /\ UNCHANGED outputs
  BY <1>2 DEF DiskInv
<1>3. CASE s \in inputs \ outputs /\ doneDir /\ HalfMove(s)
  BY <1>3 DEF DiskInv, HalfMove
<1>4. CASE UNCHANGED diskVars
  BY <1>4 DEF DiskInv, diskVars
<1> QED BY <1>1, <1>2, <1>3, <1>4 DEF EncoderRuns

LEMMA TypeSteps ==
  ASSUME TypeOK, DiskInv, RowsInv, [Next]_vars PROVE TypeOK'
<1> USE DEF TypeOK, userVars, diskVars, jobVars, loopVars
<1>1. CASE UNCHANGED vars
  BY <1>1 DEF vars
<1>2. CASE Start
  BY <1>2, RecordsType, ConstantsType DEF Start
<1>3. CASE Migrate
  BY <1>3 DEF Migrate, MoveIntoLogs
<1>4. CASE Load
  <2>1. saved' \in [Sources -> Records] \cup {Absent}
    BY <1>4 DEF Load
  <2>2. mem' \in [Sources -> Records]
    BY <1>4, <2>1, RecordsType DEF Load, LoadState
  <2> QED BY <1>4, <2>1, <2>2 DEF Load
<1>5. CASE Reload
  <2>1. CASE queue = Broken \/ queue = << >>
    BY <1>5, <2>1 DEF Reload, UnusableFile
  <2>2. CASE ~(queue = Broken \/ queue = << >>)
    <3>1. jobs' = queue /\ seen' = seen \cup ToSet(queue)
          /\ UNCHANGED <<reports, exit>>
      BY <1>5, <2>2 DEF Reload
    <3>2. queue \in Queues /\ queue \in Seq(Sources)
      BY <2>2, ConstantsType
    <3>3. ToSet(queue) \subseteq Sources
      BY <3>2 DEF ToSet
    <3>4. \/ pc' = "end" /\ UNCHANGED <<attempted, cur, doneDir>>
          \/ \E s \in Sources : /\ cur' = s /\ attempted' = attempted \cup {s}
                                /\ doneDir' \in BOOLEAN /\ pc' = "check"
      BY <1>5, <2>2 DEF Reload
    <3> QED BY <1>5, <3>1, <3>2, <3>3, <3>4 DEF Reload
  <2> QED BY <2>1, <2>2
<1>6. CASE SkipJob
  <2>1. reports' \in Seq(Reports)
    BY <1>6, SkipType, ReportType DEF SkipJob, DiskInv, Underway
  <2> QED BY <1>6, <2>1 DEF SkipJob
<1>7. CASE StartEncoder
  BY <1>7, CountersType DEF StartEncoder
<1>8. CASE GenerateFails
  <2>1. reports' \in Seq(Reports)
    BY <1>8, StatusType, ReportType DEF GenerateFails, DiskInv, Underway
  <2> QED BY <1>8, <2>1 DEF GenerateFails
<1>9. CASE EncoderEnds
  <2>1. PICK rc \in Codes : EncoderRuns(cur, rc) /\ code' = rc
    BY <1>9 DEF EncoderEnds
  <2>2. /\ inputs' \subseteq Sources /\ outputs' \subseteq Sources
        /\ doneIn' \subseteq Sources /\ doneOut' \subseteq Sources
    BY <1>9, <2>1, EncoderEffect DEF EncoderEnds, DiskInv, Underway
  <2> QED BY <1>9, <2>1, <2>2 DEF EncoderEnds
<1>10. CASE ReportJob
  <2>1. PICK status \in StatusesFor(code) : Report(status)
    BY <1>10 DEF ReportJob
  <2>2. reports' \in Seq(Reports)
    BY <1>10, <2>1, StatusType, ReportType DEF ReportJob, DiskInv, Underway
  <2> QED BY <1>10, <2>2 DEF ReportJob
<1>11. CASE RecordCompletion
  <2>1. MoveOutcome(cur) \in Records
    BY DEF MoveOutcome, Records
  <2> QED BY <1>11, <2>1 DEF RecordCompletion
<1>12. CASE SaveState
  BY <1>12 DEF SaveState
<1>13. CASE NotifyAndLoop \/ Finish
  <2>1. NoEnv \in Counters
    BY DEF NoEnv, Counters
  <2> QED BY <1>13, <2>1 DEF NotifyAndLoop, Finish, AggregateExitCode
<1>14. CASE Kill
  <2>1. NoEnv \in Counters
    BY DEF NoEnv, Counters
  <2>2. CASE pc # "encode"
    BY <1>14, <2>1, <2>2 DEF Kill
  <2>3. CASE pc = "encode"
    <3>1. /\ inputs' \subseteq Sources /\ outputs' \subseteq Sources
          /\ doneIn' \subseteq Sources /\ doneOut' \subseteq Sources
      BY <1>14, <2>3, EncoderEffect DEF Kill, DiskInv, Underway
    <3> QED BY <1>14, <2>1, <3>1 DEF Kill
  <2> QED BY <2>2, <2>3
<1>15. CASE EditQueue \/ \E s \in Sources : DiscardSource(s)
  BY <1>15, ConstantsType DEF EditQueue, DiscardSource
<1>16. CASE SaveEscalation
  BY <1>16 DEF SaveEscalation
<1> QED BY <1>1, <1>2, <1>3, <1>4, <1>5, <1>6, <1>7, <1>8, <1>9, <1>10,
           <1>11, <1>12, <1>13, <1>14, <1>15, <1>16, Actions

(***************************************************************************)
(* One step: the files and the records of them.                            *)
(***************************************************************************)
LEMMA DiskSteps ==
  ASSUME TypeOK, DiskInv, [Next]_vars PROVE DiskInv'
<1> USE DEF TypeOK, DiskInv, Underway, userVars, diskVars, jobVars, loopVars
<1>1. CASE UNCHANGED vars
  BY <1>1 DEF vars
<1>2. CASE Start \/ Migrate \/ Load
  BY <1>2 DEF Start, Migrate, Load
<1>3. CASE Reload
  <2>1. /\ pc' \in {"idle", "end"} /\ UNCHANGED <<cur, doneDir>>
        \/ \E s \in Sources : cur' = s /\ (doneDir' => s \in WithDone)
    BY <1>3 DEF Reload, UnusableFile
  <2>2. UNCHANGED <<discarded, diskVars>>
    BY <1>3 DEF Reload
  <2> QED BY <2>1, <2>2
<1>4. CASE SkipJob \/ StartEncoder \/ GenerateFails \/ SaveEscalation \/ ReportJob
  BY <1>4 DEF SkipJob, StartEncoder, GenerateFails, SaveEscalation, ReportJob
<1>5. CASE EncoderEnds
  <2>1. /\ outputs' \subseteq inputs' \cup discarded'
        /\ doneIn' \cup doneOut' \subseteq WithDone
    BY <1>5, EncoderEffect DEF EncoderEnds
  <2> QED BY <1>5, <2>1 DEF EncoderEnds
<1>6. CASE RecordCompletion \/ SaveState
  BY <1>6 DEF RecordCompletion, SaveState
<1>7. CASE NotifyAndLoop \/ Finish
  BY <1>7 DEF NotifyAndLoop, Finish
<1>8. CASE Kill
  <2>1. CASE pc # "encode"
    BY <1>8, <2>1 DEF Kill
  <2>2. CASE pc = "encode"
    <3>1. /\ outputs' \subseteq inputs' \cup discarded'
          /\ doneIn' \cup doneOut' \subseteq WithDone
      BY <1>8, <2>2, EncoderEffect DEF Kill
    <3> QED BY <1>8, <3>1 DEF Kill
  <2> QED BY <2>1, <2>2
<1>9. CASE EditQueue \/ \E s \in Sources : DiscardSource(s)
  BY <1>9 DEF EditQueue, DiscardSource
<1> QED BY <1>1, <1>2, <1>3, <1>4, <1>5, <1>6, <1>7, <1>8, <1>9, Actions

\* What the encoder does to its own job makes no record false.
LEMMA EncoderKeepsRecords ==
  ASSUME TypeOK, DiskInv, RecordInv, cur \in Sources,
         \/ \E rc : EncoderRuns(cur, rc)
         \/ /\ cur \in inputs
            /\ outputs' = outputs \cup {cur}
            /\ UNCHANGED <<inputs, doneIn, doneOut>>
         \/ /\ cur \in inputs \ outputs /\ doneDir /\ NameFree(cur)
            /\ HalfMove(cur),
         UNCHANGED <<discarded, saved, legacy, mem>>
  PROVE  /\ outputs \cup doneOut \subseteq outputs' \cup doneOut'
         /\ \A s \in Sources, records \in Stored' :
              records[s] # "none" => s \in outputs' \cup doneOut'
         /\ DistinctNames => RecordsTellTruth'
<1>1. /\ inputs \ {cur} \subseteq inputs' /\ outputs \subseteq outputs'
      /\ doneIn \subseteq doneIn' /\ doneOut \subseteq doneOut'
      /\ cur \in outputs /\ cur \in inputs => cur \in inputs'
  BY EncoderEffect
<1>2. Stored' = Stored
  BY DEF Stored
<1> QED BY <1>1, <1>2 DEF RecordInv, RecordsTellTruth, Stored

\* The sidecars only ever hold what was in a sidecar or in memory.
LEMMA StoredKept ==
  ASSUME TypeOK, RecordInv, UNCHANGED <<discarded, diskVars>>,
         \A records \in Stored' : records \in Stored \cup {NoRecords}
  PROVE  /\ \A s \in Sources, records \in Stored' :
              records[s] # "none" => s \in outputs' \cup doneOut'
         /\ DistinctNames => RecordsTellTruth'
<1>1. \A s \in Sources : NoRecords[s] = "none"
  BY RecordsType
<1> QED BY <1>1 DEF RecordInv, RecordsTellTruth, Stored, diskVars

LEMMA RecordSteps ==
  ASSUME TypeOK, DiskInv, RecordInv, [Next]_vars PROVE RecordInv'
<1> DEFINE Truth ==
      /\ \A s \in Sources, records \in Stored' :
           records[s] # "none" => s \in outputs' \cup doneOut'
      /\ DistinctNames => RecordsTellTruth'
<1> USE DEF userVars, jobVars, loopVars
<1>1. CASE UNCHANGED vars
  <2>1. Truth
    BY <1>1, StoredKept DEF vars, Stored
  <2> QED BY <1>1, <2>1 DEF RecordInv, Delivered, vars, diskVars
<1>2. CASE Start
  <2>1. Truth
    BY <1>2, StoredKept DEF Start, Stored
  <2> QED BY <1>2, <2>1 DEF RecordInv, Start
<1>3. CASE Migrate
  <2>1. Read(saved') \in Stored \cup {NoRecords}
        /\ Read(legacy') \in Stored \cup {NoRecords} /\ mem' \in Stored
    BY <1>3, RecordsType DEF Migrate, MoveIntoLogs, Stored, TypeOK
  <2>2. Truth
    BY <1>3, <2>1, StoredKept DEF Migrate, Stored
  <2> QED BY <1>3, <2>2 DEF RecordInv, Migrate
<1>4. CASE Load
  <2>1. Read(saved') \in Stored \cup {NoRecords}
        /\ Read(legacy') \in Stored /\ mem' \in Stored \cup {NoRecords}
    BY <1>4, RecordsType DEF Load, LoadState, Stored
  <2>2. Truth
    BY <1>4, <2>1, StoredKept DEF Load, Stored
  <2> QED BY <1>4, <2>2 DEF RecordInv, Load
<1>5. CASE Reload
  <2>1. UNCHANGED <<discarded, diskVars, saved, legacy, mem>>
        /\ pc' \in {"idle", "end", "check"}
    BY <1>5 DEF Reload, UnusableFile
  <2>2. Truth
    BY <2>1, StoredKept DEF Stored
  <2> QED BY <2>1, <2>2 DEF RecordInv
<1>6. CASE SkipJob \/ StartEncoder \/ GenerateFails \/ NotifyAndLoop
           \/ Finish \/ EditQueue
  <2>1. UNCHANGED <<discarded, diskVars, saved, legacy, mem>>
        /\ (pc' \in {"report", "record"} =>
              UNCHANGED <<pc, cur, code, doneDir>>)
    BY <1>6 DEF SkipJob, StartEncoder, GenerateFails, NotifyAndLoop, Finish,
       EditQueue
  <2>2. Truth
    BY <2>1, StoredKept DEF Stored
  <2> QED BY <2>1, <2>2 DEF RecordInv, Delivered, diskVars
<1>7. CASE EncoderEnds
  <2>1. /\ cur \in Sources
        /\ UNCHANGED <<discarded, saved, legacy, mem, cur, doneDir>>
        /\ pc' = "report"
    BY <1>7 DEF EncoderEnds, DiskInv, Underway
  <2>2. PICK rc \in Codes : EncoderRuns(cur, rc) /\ code' = rc
    BY <1>7 DEF EncoderEnds
  <2>3. Truth
    BY <2>1, <2>2, EncoderKeepsRecords
  <2>4. code' = 0 => Delivered(cur)'
    BY <2>1, <2>2 DEF EncoderRuns, Delivered
  <2> QED BY <2>1, <2>3, <2>4 DEF RecordInv
<1>8. CASE SaveEscalation \/ ReportJob
  <2>1. /\ UNCHANGED <<discarded, diskVars, legacy, mem, cur, code, doneDir>>
        /\ saved' \in {saved, mem}
        /\ pc' = "record" => pc = "report" /\ code = 0
        /\ pc' = "report" => pc = "report"
    BY <1>8 DEF SaveEscalation, ReportJob
  <2>2. Read(saved') \in Stored
    BY <2>1, RecordsType DEF Stored, TypeOK
  <2>3. Truth
    BY <2>1, <2>2, StoredKept DEF Stored
  <2> QED BY <2>1, <2>3 DEF RecordInv, Delivered, diskVars
<1>9. CASE RecordCompletion
  <2>1. /\ UNCHANGED <<discarded, diskVars, saved, legacy>> /\ pc' = "save"
        /\ mem' = [mem EXCEPT ![cur] = MoveOutcome(cur)]
        /\ Delivered(cur) /\ cur \in Sources
    BY <1>9 DEF RecordCompletion, RecordInv, DiskInv, Underway
  <2>2. MoveOutcome(cur) = "moved" =>
          doneDir /\ cur \in WithDone /\ doneIn \subseteq WithDone
          /\ doneOut \subseteq WithDone
          /\ (\E t \in doneIn : NameOf[t] = NameOf[cur])
          /\ (\E t \in doneOut : NameOf[t] = NameOf[cur])
    BY DEF MoveOutcome, DiskInv
  <2>3. DistinctNames /\ MoveOutcome(cur) = "moved" =>
          cur \in doneIn \cap doneOut
    BY <2>2 DEF DistinctNames
  <2>4. MoveOutcome(cur) # "moved" =>
          MoveOutcome(cur) = "in place"
          /\ cur \in outputs \cap (inputs \cup discarded)
    BY <2>1 DEF MoveOutcome, Delivered
  <2>5. \A s \in Sources : s # cur => mem'[s] = mem[s]
    BY <2>1 DEF TypeOK
  <2>6. mem'[cur] = MoveOutcome(cur)
    BY <2>1 DEF TypeOK
  <2>7. /\ cur \in outputs \cup doneOut
        /\ DistinctNames /\ mem'[cur] = "moved" => cur \in doneIn \cap doneOut
        /\ mem'[cur] = "in place" =>
             cur \in outputs \cap (inputs \cup discarded)
    BY <2>1, <2>3, <2>4, <2>6 DEF Delivered
  <2>8. Truth
    BY <2>1, <2>5, <2>7 DEF RecordInv, RecordsTellTruth, Stored, diskVars
  <2> QED BY <2>1, <2>8 DEF RecordInv
<1>10. CASE SaveState
  <2>1. UNCHANGED <<discarded, diskVars, legacy, mem>> /\ saved' \in {saved, mem}
        /\ pc' = "notify"
    BY <1>10 DEF SaveState
  <2>2. Read(saved') \in Stored
    BY <2>1, RecordsType DEF Stored, TypeOK
  <2>3. Truth
    BY <2>1, <2>2, StoredKept DEF Stored
  <2> QED BY <2>1, <2>3 DEF RecordInv
<1>11. CASE Kill
  <2>1. UNCHANGED <<discarded, saved, legacy, mem>> /\ pc' = "idle"
    BY <1>11 DEF Kill
  <2>2. CASE pc # "encode"
    <3>1. UNCHANGED diskVars
      BY <1>11, <2>2 DEF Kill
    <3> QED BY <2>1, <3>1, StoredKept DEF RecordInv, Stored
  <2>3. CASE pc = "encode"
    <3>1. cur \in Sources
      BY <2>3 DEF DiskInv, Underway
    <3>2. Truth
      BY <1>11, <2>1, <2>3, <3>1, EncoderKeepsRecords DEF Kill
    <3> QED BY <2>1, <3>2 DEF RecordInv
  <2> QED BY <2>2, <2>3
<1>12. ASSUME NEW s \in Sources, DiscardSource(s) PROVE RecordInv'
  <2>1. /\ inputs' \cup discarded' = inputs \cup discarded
        /\ UNCHANGED <<outputs, doneIn, doneOut, saved, legacy, mem, pc, cur,
                       code, doneDir>>
    BY <1>12 DEF DiscardSource
  <2>2. RecordsTellTruth => RecordsTellTruth'
    BY <2>1 DEF RecordsTellTruth
  <2> QED BY <2>1, <2>2 DEF RecordInv, Stored, Delivered
<1> QED BY <1>1, <1>2, <1>3, <1>4, <1>5, <1>6, <1>7, <1>8, <1>9, <1>10,
           <1>11, <1>12, Actions

LEMMA KnownSteps ==
  ASSUME TypeOK, KnownInv, [Next]_vars PROVE KnownInv'
<1> USE RecordsType DEF KnownInv
<1>1. CASE UNCHANGED vars
  BY <1>1 DEF vars
<1>2. CASE Start \/ Finish \/ Kill \/ EditQueue
           \/ \E s \in Sources : DiscardSource(s)
  BY <1>2 DEF Start, Finish, Kill, EditQueue, DiscardSource
<1>3. CASE Migrate
  BY <1>3 DEF Migrate, MoveIntoLogs
<1>4. CASE Load
  <2>1. ~StateUnreadable => mem' = Read(saved')
    BY <1>4 DEF Load, LoadState
  <2> QED BY <1>4, <2>1 DEF Load
<1>5. CASE Reload
  BY <1>5 DEF Reload, UnusableFile
<1>6. CASE SkipJob \/ StartEncoder \/ GenerateFails \/ EncoderEnds
           \/ NotifyAndLoop
  BY <1>6 DEF SkipJob, StartEncoder, GenerateFails, EncoderEnds, NotifyAndLoop
<1>7. CASE SaveEscalation \/ ReportJob \/ SaveState
  BY <1>7 DEF SaveEscalation, ReportJob, SaveState, TypeOK
<1>8. CASE RecordCompletion
  <2>1. MoveOutcome(cur) # "none"
    BY DEF MoveOutcome
  <2> QED BY <1>8, <2>1 DEF RecordCompletion, TypeOK
<1> QED BY <1>1, <1>2, <1>3, <1>4, <1>5, <1>6, <1>7, <1>8, Actions

(***************************************************************************)
(* One step: the rows of the report.                                       *)
(***************************************************************************)
\* A queue holds finitely many sources.
LEMMA QueueFinite ==
  ASSUME NEW q \in Seq(Sources) PROVE IsFiniteSet(ToSet(q))
<1>1. q \in Surjection(1..Len(q), ToSet(q))
  BY DEF Surjection, ToSet
<1>2. IsFiniteSet(1..Len(q))
  <2>1. 1 \in Int /\ Len(q) \in Int
    OBVIOUS
  <2> QED BY <2>1, FS_Interval, Zenon
<1> QED BY <1>1, <1>2, FS_Surjection, Zenon

\* The job under way gets its row, and it is the only one it has.
LEMMA RowAdded ==
  ASSUME TypeOK, DiskInv, RowsInv, pc \in {"check", "encode", "report"},
         NEW status \in Statuses, Report(status),
         UNCHANGED <<attempted, seen, jobs>>,
         pc' \in {"reload", "record", "notify"}
  PROVE  RowsInv'
<1>1. /\ DOMAIN reports' = 1..(Len(reports) + 1)
      /\ DOMAIN reports = 1..Len(reports) /\ Len(reports) \in Nat
      /\ Len(reports') = Len(reports) + 1
      /\ \A i \in DOMAIN reports : reports'[i] = reports[i]
      /\ reports'[Len(reports) + 1].source = cur
  BY ReportType DEF DiskInv, Underway, TypeOK
<1>2. /\ cur \notin Reported /\ attempted = Reported \cup {cur}
      /\ Cardinality(attempted) = Len(reports) + 1
  BY DEF RowsInv
<1>3. Reported' = Reported \cup {cur}
  BY <1>1 DEF Reported
<1>4. \A i, j \in DOMAIN reports' :
        reports'[i].source = reports'[j].source => i = j
  <2>1. \A i \in DOMAIN reports : reports[i].source # cur
    BY <1>2 DEF Reported
  <2>2. \A i \in DOMAIN reports' : i \in DOMAIN reports \/ i = Len(reports) + 1
    BY <1>1
  <2> QED BY <1>1, <2>1, <2>2 DEF RowsInv
<1> QED BY <1>1, <1>2, <1>3, <1>4 DEF RowsInv

LEMMA RowsSteps ==
  ASSUME TypeOK, DiskInv, RowsInv, [Next]_vars PROVE RowsInv'
<1> USE DEF userVars, diskVars, jobVars, loopVars
<1>1. CASE UNCHANGED <<loopVars, cur, pc>>
  BY <1>1 DEF RowsInv, Reported
<1>2. CASE Start
  BY <1>2, FS_EmptySet DEF Start, RowsInv, Reported
<1>3. CASE Migrate \/ Load \/ NotifyAndLoop \/ Finish \/ Kill
  <2>1. /\ UNCHANGED loopVars
        /\ pc # "idle"
        /\ pc' \notin {"check", "encode", "report"}
        /\ \/ pc' = "idle"
           \/ pc \in {"migrate", "load", "notify"}
    BY <1>3 DEF Migrate, Load, NotifyAndLoop, Finish, Kill
  <2> QED BY <2>1 DEF RowsInv, Reported
<1>4. CASE StartEncoder \/ EncoderEnds
  <2>1. /\ UNCHANGED <<loopVars, cur>>
        /\ pc \in {"check", "encode"} /\ pc' \in {"encode", "report"}
    BY <1>4 DEF StartEncoder, EncoderEnds
  <2> QED BY <2>1 DEF RowsInv, Reported
<1>5. CASE RecordCompletion \/ SaveState
  <2>1. /\ UNCHANGED loopVars
        /\ pc \in {"record", "save"} /\ pc' \in {"save", "notify"}
    BY <1>5 DEF RecordCompletion, SaveState
  <2> QED BY <2>1 DEF RowsInv, Reported
<1>6. CASE SkipJob
  BY <1>6, SkipType, RowAdded DEF SkipJob
<1>7. CASE GenerateFails
  BY <1>7, StatusType, RowAdded DEF GenerateFails
<1>8. CASE ReportJob
  BY <1>8, StatusType, RowAdded DEF ReportJob
<1>9. CASE Reload
  <2>1. CASE queue = Broken \/ queue = << >>
    <3>1. UNCHANGED loopVars /\ pc' \in {"idle", "end"} /\ pc = "reload"
      BY <1>9, <2>1 DEF Reload, UnusableFile
    <3> QED BY <3>1 DEF RowsInv, Reported
  <2>2. CASE ~(queue = Broken \/ queue = << >>)
    <3>1. /\ pc = "reload" /\ jobs' = queue /\ queue # << >>
          /\ seen' = seen \cup ToSet(queue) /\ UNCHANGED reports
      BY <1>9, <2>2 DEF Reload
    <3>2. queue \in Seq(Sources)
      BY <2>2, ConstantsType DEF TypeOK
    <3>3. IsFiniteSet(seen')
      BY <3>1, <3>2, QueueFinite, FS_Union DEF RowsInv
    <3>4. /\ attempted = Reported /\ Cardinality(attempted) = Len(reports)
          /\ Reported' = Reported
      BY <3>1 DEF RowsInv, Reported
    <3>5. IsFiniteSet(attempted)
      BY FS_Subset DEF RowsInv
    <3>6. CASE pc' = "end" /\ UNCHANGED attempted
      BY <3>1, <3>3, <3>4, <3>6 DEF RowsInv
    <3>7. CASE \E s \in Sources : /\ PickNextJob(queue, s) /\ cur' = s
                                  /\ attempted' = attempted \cup {s}
                                  /\ pc' = "check"
      <4>1. PICK s \in Sources : /\ PickNextJob(queue, s) /\ cur' = s
                                 /\ attempted' = attempted \cup {s}
                                 /\ pc' = "check"
        BY <3>7
      <4>2. s \in ToSet(queue) /\ s \notin attempted
        BY <4>1 DEF PickNextJob, ToSet
      <4>3. Cardinality(attempted') = Len(reports') + 1
        BY <3>1, <3>4, <3>5, <4>1, <4>2, FS_AddElement
      <4> QED BY <3>1, <3>3, <3>4, <4>1, <4>2, <4>3 DEF RowsInv
    <3> QED BY <1>9, <2>2, <3>6, <3>7 DEF Reload
  <2> QED BY <2>1, <2>2
<1> QED BY <1>1, <1>2, <1>3, <1>4, <1>5, <1>6, <1>7, <1>8, <1>9, Actions
        DEF SaveEscalation, EditQueue, DiscardSource, vars

(***************************************************************************)
(* One step: the counters, the clean rows and the exit code.               *)
(***************************************************************************)
\* Every status counts in exactly one category.
LEMMA CategoriesPartition ==
  /\ Statuses = FinishedStatuses \cup FailedStatuses \cup StoppedStatuses
                \cup SkippedStatuses
  /\ FinishedStatuses \cap FailedStatuses = {}
  /\ (FinishedStatuses \cup FailedStatuses) \cap StoppedStatuses = {}
  /\ (FinishedStatuses \cup FailedStatuses \cup StoppedStatuses)
       \cap SkippedStatuses = {}
  BY DEF Statuses, CleanStatuses, AttentionStatuses, FailedStatuses,
         FinishedStatuses, StoppedStatuses, SkippedStatuses

LEMMA DisjointCount ==
  ASSUME NEW A, NEW B, IsFiniteSet(A), IsFiniteSet(B), A \cap B = {}
  PROVE  /\ IsFiniteSet(A \cup B)
         /\ Cardinality(A \cup B) = Cardinality(A) + Cardinality(B)
<1>1. Cardinality(A) \in Nat /\ Cardinality(B) \in Nat
  BY FS_CardinalityType
<1>2. IsFiniteSet(A \cup B)
      /\ Cardinality(A \cup B) =
           Cardinality(A) + Cardinality(B) - Cardinality(A \cap B)
  BY FS_Union, Zenon
<1>3. Cardinality(A \cap B) = 0
  BY FS_EmptySet
<1> QED BY <1>1, <1>2, <1>3

\* The counters an encoder gets add up to the jobs before it.
LEMMA CountersSum ==
  ASSUME TypeOK, RowsInv, pc = "check"
  PROVE  QueueCounters.finished + QueueCounters.failed + QueueCounters.stopped
           + QueueCounters.skipped = QueueCounters.index - 1
<1> DEFINE rows(set) == {i \in DOMAIN reports : reports[i].status \in set}
           F == rows(FinishedStatuses)   X == rows(FailedStatuses)
           T == rows(StoppedStatuses)    K == rows(SkippedStatuses)
<1>1. \A i \in DOMAIN reports : reports[i].status \in Statuses
  <2>1. \A i \in DOMAIN reports : reports[i] \in Reports
    BY DEF TypeOK
  <2> QED BY <2>1 DEF Reports
<1>2. F \cap X = {} /\ (F \cup X) \cap T = {} /\ ((F \cup X) \cup T) \cap K = {}
  BY CategoriesPartition
<1>3. ((F \cup X) \cup T) \cup K = DOMAIN reports
  BY <1>1, CategoriesPartition
<1>4. /\ QueueCounters.finished = Cardinality(F)
      /\ QueueCounters.failed = Cardinality(X)
      /\ QueueCounters.stopped = Cardinality(T)
      /\ QueueCounters.skipped = Cardinality(K)
      /\ QueueCounters.index = Cardinality(attempted)
  BY DEF QueueCounters
<1>5. /\ IsFiniteSet(F) /\ IsFiniteSet(X) /\ IsFiniteSet(T) /\ IsFiniteSet(K)
      /\ Cardinality(F) \in Nat /\ Cardinality(X) \in Nat
      /\ Cardinality(T) \in Nat /\ Cardinality(K) \in Nat
      /\ Cardinality(DOMAIN reports) = Len(reports)
  BY RowsFinite
<1> HIDE DEF F, X, T, K
<1>6. /\ IsFiniteSet(F \cup X)
      /\ Cardinality(F \cup X) = Cardinality(F) + Cardinality(X)
  BY <1>2, <1>5, DisjointCount
<1>7. /\ IsFiniteSet((F \cup X) \cup T)
      /\ Cardinality((F \cup X) \cup T) =
           Cardinality(F) + Cardinality(X) + Cardinality(T)
  BY <1>2, <1>5, <1>6, DisjointCount
<1>8. Len(reports) = Cardinality(F) + Cardinality(X) + Cardinality(T)
                       + Cardinality(K)
  BY <1>2, <1>3, <1>5, <1>7, DisjointCount
<1>9. Cardinality(attempted) = Len(reports) + 1 /\ Len(reports) \in Nat
  BY DEF RowsInv, TypeOK
<1> QED BY <1>4, <1>5, <1>8, <1>9

\* A job's marker is [OK] exactly when its row is clean.
LEMMA MarkerTells ==
  ASSUME TypeOK, RowsInv, NEW i \in DOMAIN reports
  PROVE  Marker(reports[i].source) = "[OK]" <=>
           reports[i].status \in CleanStatuses
<1>1. {k \in DOMAIN reports : reports[k].source = reports[i].source} = {i}
  BY DEF RowsInv
<1>2. Max({i}) = i
  <2>1. i \in Nat
    BY DEF TypeOK
  <2> QED BY <2>1 DEF Max
<1> QED BY <1>1, <1>2 DEF Marker, OkStatuses, CleanStatuses

\* The job under way gets a row that is clean only when it has an output.
LEMMA CleanRowAdded ==
  ASSUME TypeOK, DiskInv, CleanInv, pc \in {"check", "encode", "report"},
         NEW status \in Statuses, Report(status),
         status \in CleanStatuses => cur \in outputs \cup doneOut,
         UNCHANGED <<diskVars, exit>>, env' = env,
         pc' \in {"reload", "record", "notify"}
  PROVE  CleanInv'
<1>1. /\ DOMAIN reports' = 1..(Len(reports) + 1)
      /\ DOMAIN reports = 1..Len(reports) /\ Len(reports) \in Nat
      /\ \A i \in DOMAIN reports : reports'[i] = reports[i]
      /\ reports'[Len(reports) + 1].source = cur
      /\ reports'[Len(reports) + 1].status = status
  BY ReportType DEF DiskInv, Underway, TypeOK
<1>2. \A i \in DOMAIN reports' : reports'[i].status \in CleanStatuses =>
        reports'[i].source \in outputs' \cup doneOut'
  <2>1. \A i \in DOMAIN reports' : i \in DOMAIN reports \/ i = Len(reports) + 1
    BY <1>1
  <2> QED BY <1>1, <2>1 DEF CleanInv, diskVars
<1> QED BY <1>2 DEF CleanInv, BooksAgree, NoExit

LEMMA CleanSteps ==
  ASSUME TypeOK, DiskInv, RecordInv, RowsInv, CleanInv, [Next]_vars
  PROVE  CleanInv'
<1> USE DEF userVars, diskVars, jobVars, loopVars
<1>1. CASE UNCHANGED <<outputs, doneOut, attempted, reports, env, exit, pc>>
  BY <1>1 DEF CleanInv, BooksAgree, Marker
<1>2. CASE Start
  BY <1>2 DEF Start, CleanInv, BooksAgree, NoExit
<1>3. CASE Migrate \/ Load \/ RecordCompletion \/ SaveState
  <2>1. /\ UNCHANGED <<diskVars, loopVars, env, exit>>
        /\ pc # "idle" /\ pc' \notin {"idle", "encode"}
    BY <1>3 DEF Migrate, Load, RecordCompletion, SaveState
  <2> QED BY <2>1 DEF CleanInv, BooksAgree, NoExit
<1>4. CASE Reload
  <2>1. /\ UNCHANGED <<diskVars, reports, env>> /\ pc = "reload"
        /\ \/ exit' = NoExit /\ pc' \in {"end", "check"}
           \/ exit' = 1 /\ pc' = "idle" /\ attempted' = {}
    BY <1>4 DEF Reload, UnusableFile, CleanInv, RowsInv
  <2> QED BY <2>1 DEF CleanInv, BooksAgree, NoExit
<1>5. CASE SkipJob
  <2> DEFINE status == SkipStatus(mem, opts.noSkip, cur)
  <2>1. status \in Statuses
        /\ (status \in CleanStatuses => mem[cur] # "none" \/ cur \in outputs)
    BY <1>5, SkipType DEF SkipJob
  <2>2. mem[cur] # "none" => cur \in outputs \cup doneOut
    BY <1>5 DEF SkipJob, RecordInv, Stored, DiskInv, Underway
  <2> HIDE DEF status
  <2>3. Report(status) /\ UNCHANGED <<diskVars, exit, env>>
        /\ pc = "check" /\ pc' = "reload"
    BY <1>5 DEF SkipJob, status
  <2> QED BY <2>1, <2>2, <2>3, CleanRowAdded
<1>6. CASE StartEncoder
  <2>1. env' = QueueCounters /\ UNCHANGED <<diskVars, loopVars, exit>>
        /\ pc = "check" /\ pc' = "encode"
    BY <1>6 DEF StartEncoder
  <2>2. env'.index <= env'.total
        /\ env'.finished + env'.failed + env'.stopped + env'.skipped
             = env'.index - 1
    BY <2>1, CountersType, CountersSum
  <2> QED BY <2>1, <2>2 DEF CleanInv, BooksAgree, NoExit
<1>7. CASE GenerateFails
  <2>1. PICK status \in {"failed-gen", "failed-parse"} : Report(status)
    BY <1>7 DEF GenerateFails
  <2>2. status \in Statuses /\ status \notin CleanStatuses
    BY <2>1, StatusType
  <2>3. UNCHANGED <<diskVars, exit, env>> /\ pc = "encode" /\ pc' = "notify"
    BY <1>7 DEF GenerateFails
  <2> QED BY <2>1, <2>2, <2>3, CleanRowAdded
<1>8. CASE EncoderEnds
  <2>1. outputs \cup doneOut \subseteq outputs' \cup doneOut'
    BY <1>8, EncoderKeepsRecords DEF EncoderEnds, DiskInv, Underway
  <2>2. UNCHANGED <<loopVars, env, exit>> /\ pc = "encode" /\ pc' = "report"
    BY <1>8 DEF EncoderEnds
  <2> QED BY <2>1, <2>2 DEF CleanInv, BooksAgree, NoExit
<1>9. CASE ReportJob
  <2>4. PICK status \in StatusesFor(code) : Report(status)
    BY <1>9 DEF ReportJob
  <2>1. status \in Statuses /\ (status \in CleanStatuses => code = 0)
    BY <2>4, StatusType
  <2>2. code = 0 => cur \in outputs \cup doneOut
    BY <1>9 DEF ReportJob, RecordInv, Delivered
  <2>3. Report(status) /\ UNCHANGED <<diskVars, exit, env>>
        /\ pc = "report" /\ pc' \in {"record", "notify"}
    BY <1>9, <2>4 DEF ReportJob
  <2> QED BY <2>1, <2>2, <2>3, CleanRowAdded
<1>10. CASE NotifyAndLoop
  <2>1. NoEnv.index <= NoEnv.total
    BY DEF NoEnv
  <2> QED BY <1>10, <2>1 DEF NotifyAndLoop, CleanInv, BooksAgree, NoExit
<1>11. CASE Finish
  <2>1. /\ UNCHANGED <<diskVars, loopVars>> /\ env' = NoEnv /\ pc' = "idle"
        /\ exit' = AggregateExitCode({r.status : r \in ToSet(reports)})
        /\ attempted = Reported
    BY <1>11 DEF Finish, RowsInv
  <2> DEFINE shown == {r.status : r \in ToSet(reports)}
  <2>2. shown \subseteq CleanStatuses <=>
          \A i \in DOMAIN reports : reports[i].status \in CleanStatuses
    BY DEF ToSet
  <2>3. exit' = 0 <=>
          \A i \in DOMAIN reports : reports[i].status \in CleanStatuses
    <3>1. exit' = AggregateExitCode(shown)
      BY <2>1
    <3> HIDE DEF shown
    <3>2. shown \subseteq CleanStatuses =>
            shown \subseteq CleanStatuses \cup AttentionStatuses
      OBVIOUS
    <3>3. AggregateExitCode(shown) = 0 <=> shown \subseteq CleanStatuses
      BY <3>2 DEF AggregateExitCode
    <3> QED BY <2>2, <3>1, <3>3
  <2>4. exit' = 0 => attempted' \subseteq outputs' \cup doneOut'
    BY <2>1, <2>3 DEF CleanInv, Reported
  <2>5. exit' = 0 <=> \A s \in attempted : Marker(s) = "[OK]"
    BY <2>1, <2>3, MarkerTells DEF Reported
  <2>6. (\A s \in attempted : Marker(s) = "[OK]")'
          <=> \A s \in attempted : Marker(s) = "[OK]"
    BY <2>1 DEF Marker
  <2>7. NoEnv.index <= NoEnv.total
    BY DEF NoEnv
  <2> QED BY <2>1, <2>4, <2>5, <2>6, <2>7 DEF CleanInv, BooksAgree
<1>12. CASE Kill
  <2>1. outputs \cup doneOut \subseteq outputs' \cup doneOut'
    <3>1. CASE pc # "encode"
      BY <1>12, <3>1 DEF Kill
    <3>2. CASE pc = "encode"
      BY <1>12, <3>2, EncoderKeepsRecords DEF Kill, DiskInv, Underway
    <3> QED BY <3>1, <3>2
  <2>2. NoEnv.index <= NoEnv.total
    BY DEF NoEnv
  <2>3. UNCHANGED reports /\ env' = NoEnv /\ exit' = Killed /\ pc' = "idle"
    BY <1>12 DEF Kill
  <2> QED BY <2>1, <2>2, <2>3 DEF CleanInv, BooksAgree, Killed
<1> QED BY <1>1, <1>2, <1>3, <1>4, <1>5, <1>6, <1>7, <1>8, <1>9, <1>10,
           <1>11, <1>12, Actions DEF SaveEscalation, EditQueue, DiscardSource, vars

LEMMA NextInv == QueueInv /\ [Next]_vars => QueueInv'
  BY TypeSteps, DiskSteps, RecordSteps, KnownSteps, RowsSteps, CleanSteps
  DEF QueueInv

(***************************************************************************)
(* Theorems.                                                               *)
(***************************************************************************)
\* The inductive invariant: one row for each job that was attempted, a record
\* only of what has an output, a sidecar that is known in memory (the loop of
\* run_queue.main).
THEOREM QueueInvariant == Spec => []QueueInv
<1> QED BY InitInv, NextInv, PTL DEF Spec

\* A completion record names the place where source and output are, if no two
\* sources with a done_dir have one file name ("BOTH paths are at that
\* location", completion.py; _verify_move_outcome looks for the names).
THEOREM RecordsAreTrue ==
  ASSUME DistinctNames PROVE Spec => []RecordsTellTruth
<1>1. QueueInv => RecordsTellTruth
  BY DistinctNames DEF QueueInv, RecordInv
<1> QED BY <1>1, QueueInvariant, PTL

\* A completion that reached the disk is neither lost nor encoded again until
\* --reset-state, if the sidecar can be read and moved (load_queue_state,
\* migrate_queue_folder).
THEOREM CompletionsAreKept ==
  ASSUME ~StateUnreadable, ~LegacyLocked PROVE Spec => RecordedStaysDone
<1> DEFINE Stays(s) ==
      Recorded(s) => /\ Recorded(s)' \/ (pc = "load" /\ opts.reset)
                     /\ ~(cur = s /\ pc = "check" /\ pc' = "encode")
<1>1. ASSUME QueueInv, [Next]_vars PROVE \A s \in Sources : Stays(s)
  <2> SUFFICES ASSUME NEW s \in Sources, Recorded(s)
               PROVE  /\ Recorded(s)' \/ (pc = "load" /\ opts.reset)
                      /\ ~(cur = s /\ pc = "check" /\ pc' = "encode")
    OBVIOUS
  <2> USE <1>1, RecordsType DEF QueueInv, Recorded
  <2>1. legacy # Absent => saved = Absent /\ pc \in {"idle", "migrate"}
    BY ~LegacyLocked DEF KnownInv
  <2>2. pc \notin {"idle", "migrate", "load"} =>
          Read(saved)[s] # "none" /\ mem[s] # "none"
    BY <2>1, ~StateUnreadable DEF KnownInv
  <2>3. CASE Migrate
    BY <2>1, <2>3 DEF Migrate, MoveIntoLogs
  <2>4. CASE Load
    BY <2>4 DEF Load
  <2>5. CASE SaveState \/ SaveEscalation
    BY <2>2, <2>5 DEF SaveState, SaveEscalation, TypeOK
  <2>6. CASE StartEncoder
    BY <2>2, <2>6 DEF StartEncoder, SkipStatus, IsCompleted
  <2>7. CASE UNCHANGED <<saved, legacy>> /\ ~(pc = "check" /\ pc' = "encode")
    BY <2>7
  <2> QED BY <2>3, <2>4, <2>5, <2>6, <2>7, Actions
      DEF Start, Reload, UnusableFile, SkipJob, GenerateFails, EncoderEnds,
          ReportJob, RecordCompletion, NotifyAndLoop, Finish, Kill, EditQueue,
          DiscardSource, vars, jobVars
<1> QED BY <1>1, QueueInvariant, PTL DEF Spec, RecordedStaysDone

\* The --status table and the next plain run see the same jobs done, missing
\* and to do, but for an output that nothing records and whose source the user
\* deleted: DONE in the table, not found for the runner (classify and
\* _skip_if_missing_or_existing).
THEOREM StatusMatchesNextRun == Spec => []InspectorAgrees
<1>1. ASSUME QueueInv PROVE InspectorAgrees
  <2> DEFINE skip(s) == SkipStatus(Read(saved), FALSE, s)
  <2>1. ASSUME NEW s \in Sources, OutputOnly(s)
        PROVE  /\ s \in discarded
               /\ Classify(s) = "DONE" /\ skip(s) = "skipped-not-found"
    BY <1>1, <2>1 DEF QueueInv, DiskInv, OutputOnly, SkipStatus, IsCompleted,
       Classify
  <2>2. ASSUME NEW s \in Sources, ~OutputOnly(s)
        PROVE  /\ Classify(s) = "DONE" <=> skip(s) \in CleanStatuses
               /\ Classify(s) = "MISSING INPUT" <=> skip(s) = "skipped-not-found"
    BY <2>2 DEF OutputOnly, SkipStatus, IsCompleted, Classify, CleanStatuses
  <2> QED BY <2>1, <2>2 DEF InspectorAgrees
<1> QED BY <1>1, QueueInvariant, PTL

\* Counters, markers and exit code agree with one another and with the files,
\* though each has a table of statuses of its own (compute_queue_counters,
\* classify_marker, _aggregate_exit_code).
THEOREM BooksBalance == Spec => []BooksAgree
<1>1. QueueInv => BooksAgree
  BY DEF QueueInv, CleanInv
<1> QED BY <1>1, QueueInvariant, PTL
=============================================================================
