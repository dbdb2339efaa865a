------------------------- MODULE ChunkReportsProofs -------------------------
(***************************************************************************)
(* For any chunks, number of workers, encodes and starts, with a disk that *)
(* may be full and kills at any step: ReportsInv is inductive, and with it *)
(* the log tells the newest encode of every chunk whose row reached the    *)
(* disk, and some hook says that all chunks are done.                      *)
(***************************************************************************)
EXTENDS ChunkReports, FiniteSetTheorems, SequenceTheorems, TLAPS

\* Next, one disjunct per action.
LEMMA Actions ==
  ASSUME [Next]_vars
  PROVE
    \/ Start \/ Call \/ Return \/ QuarantineBad \/ Exit \/ Kill
    \/ GuardMeasures \/ GuardMerges \/ GuardAppends
    \/ \E s \in Slots :
         \/ Take(s) \/ RenamePart(s) \/ EncodeFails(s)
         \/ RecordChunk(s) \/ Submit(s) \/ FireHook(s)
    \/ UNCHANGED vars
  BY DEF Next, Main, Guard, Worker

\* Taking the head off the guard's queue, and adding to its end.
LEMMA QueueOps ==
  ASSUME NEW q \in Seq(Chunks)
  PROVE  /\ q # << >> => /\ Head(q) \in Chunks /\ Tail(q) \in Seq(Chunks)
                         /\ Head(q) = q[1] /\ Len(q) # 0
                         /\ Len(Tail(q)) = Len(q) - 1
                         /\ \A i \in 1..Len(Tail(q)) : Tail(q)[i] = q[i + 1]
         /\ \A c \in Chunks :
              /\ Append(q, c) \in Seq(Chunks)
              /\ Len(Append(q, c)) = Len(q) + 1
              /\ \A i \in 1..Len(q) : Append(q, c)[i] = q[i]
              /\ Append(q, c)[Len(q) + 1] = c
  BY HeadTailProperties, AppendProperties

\* A set of chunks has no more members than there are chunks.
LEMMA CountType ==
  ASSUME NEW done \in SUBSET Chunks
  PROVE  /\ Cardinality(done) \in 0..Cardinality(Chunks)
         /\ Cardinality(Chunks) \in 0..Cardinality(Chunks)
<1>1. /\ Cardinality(Chunks) \in Nat /\ Cardinality(done) \in Nat
      /\ Cardinality(done) <= Cardinality(Chunks)
  BY FS_Subset, FS_CardinalityType, ReportsAssumption
<1> QED BY <1>1

LEMMA RowType ==
  /\ NoRow \in Rows
  /\ \A n, v \in 0..MaxEncodes : [numbers |-> n, verdict |-> v] \in Rows
  /\ \A r \in Rows :
       r.numbers \in 0..MaxEncodes /\ r.verdict \in 0..MaxEncodes
  BY ReportsAssumption DEF Rows, NoRow

LEMMA InitInv == Init => ReportsInv
<1> SUFFICES ASSUME Init PROVE ReportsInv
  OBVIOUS
<1> USE ReportsAssumption DEF Init
<1>1. TypeOK
  <2>1. fold \in [Chunks -> Rows] /\ cache \in [Chunks -> Rows]
    BY RowType DEF Unknown
  <2>2. guard \in [chunk : Chunks \cup {NoChunk}, row : Rows,
                   step : {"idle", "merge", "append"}]
    BY RowType DEF NoJob
  <2>3. /\ enc \in [Chunks -> 0..MaxEncodes]
        /\ encodes \in [Chunks -> 0..MaxEncodes]
    BY DEF Nothing
  <2>4. /\ at \in [Slots -> {"idle", "encode", "record", "submit", "fire"}]
        /\ chunk \in [Slots -> Chunks \cup {NoChunk}]
    OBVIOUS
  <2>5. submitted \in Seq(Chunks) /\ said \subseteq 0..Cardinality(Chunks)
    OBVIOUS
  <2>6. runs \in 0..MaxRuns
    OBVIOUS
  <2> QED BY <2>1, <2>2, <2>3, <2>4, <2>5, <2>6 DEF TypeOK
<1>2. WorkInv
  BY DEF WorkInv, Quiet, NoJob
<1>3. GuardInv
  BY DEF GuardInv, NoJob
<1>4. LogInv
  BY DEF LogInv, Nothing
<1>5. SaidInv
  BY DEF SaidInv
<1> QED BY <1>1, <1>2, <1>3, <1>4, <1>5 DEF ReportsInv

(***************************************************************************)
(* One step: types.                                                        *)
(***************************************************************************)
LEMMA AppendType ==
  ASSUME TypeOK, NEW c \in Chunks, NEW row \in Rows, AppendRow(c, row)
  PROVE  /\ fold' \in [Chunks -> Rows] /\ cache' \in [Chunks -> Rows]
         /\ torn' \in BOOLEAN /\ lost' \subseteq Chunks
<1>1. torn' \in BOOLEAN
  BY Zenon DEF TypeOK, AppendRow
<1>2. fold' \in [Chunks -> Rows] /\ cache' \in [Chunks -> Rows]
  <2>1. /\ fold' = [fold EXCEPT ![c] = row] \/ fold' = fold
        /\ cache' = [cache EXCEPT ![c] = row]
    BY Zenon DEF AppendRow
  <2>2. fold \in [Chunks -> Rows] /\ cache \in [Chunks -> Rows]
    BY DEF TypeOK
  <2>3. [fold EXCEPT ![c] = row] \in [Chunks -> Rows]
    BY <2>2
  <2>4. [cache EXCEPT ![c] = row] \in [Chunks -> Rows]
    BY <2>2
  <2> QED BY <2>1, <2>2, <2>3, <2>4, Zenon
<1>3. lost' \subseteq Chunks
  BY DEF TypeOK, AppendRow
<1> QED BY <1>1, <1>2, <1>3

LEMMA TypeSteps ==
  ASSUME TypeOK, WorkInv, GuardInv, [Next]_vars PROVE TypeOK'
<1> USE ReportsAssumption DEF TypeOK, disk, log, workers, guards
<1>1. CASE UNCHANGED vars
  BY <1>1 DEF vars
<1>2. CASE Start
  <2>1. Unknown \in [Chunks -> Rows]
    BY RowType DEF Unknown
  <2>2. /\ fold' \in [Chunks -> Rows] /\ cache' \in [Chunks -> Rows]
        /\ torn' \in BOOLEAN
    BY <1>2, <2>1 DEF Start, InitLog
  <2> QED BY <1>2, <2>2 DEF Start, InitLog
<1>3. CASE Call \/ Return \/ Exit
  BY <1>3 DEF Call, Return, Exit
<1>4. CASE QuarantineBad
  <2>1. enc' \in [Chunks -> 0..MaxEncodes]
    BY <1>4 DEF QuarantineBad
  <2> QED BY <1>4, <2>1 DEF QuarantineBad
<1>5. CASE Kill
  <2>1. /\ torn' \in BOOLEAN /\ leftovers' \in BOOLEAN
        /\ lost' = lost \cup {chunk[s] : s \in {t \in Slots : at[t] = "record"}}
    BY <1>5 DEF Kill
  <2>2. lost' \subseteq Chunks
    BY <2>1 DEF WorkInv
  <2>3. guard' \in [chunk : Chunks \cup {NoChunk}, row : Rows,
                    step : {"idle", "merge", "append"}]
    BY <1>5, RowType DEF Kill, NoJob
  <2>4. submitted' \in Seq(Chunks)
    BY <1>5 DEF Kill
  <2> QED BY <1>5, <2>1, <2>2, <2>3, <2>4 DEF Kill
<1>6. CASE GuardMeasures
  <2>1. Head(submitted) \in Chunks /\ submitted' \in Seq(Chunks)
    BY <1>6, QueueOps DEF GuardMeasures
  <2>2. [NoRow EXCEPT !.verdict = enc[Head(submitted)]] \in Rows
    <3>1. [NoRow EXCEPT !.verdict = enc[Head(submitted)]] =
            [numbers |-> 0, verdict |-> enc[Head(submitted)]]
      BY DEF NoRow
    <3>2. enc[Head(submitted)] \in 0..MaxEncodes /\ 0 \in 0..MaxEncodes
      BY <2>1
    <3> QED BY <3>1, <3>2, RowType
  <2> QED BY <1>6, <2>1, <2>2 DEF GuardMeasures
<1>7. CASE GuardMerges
  <2>1. BaseRow(guard.chunk).numbers \in 0..MaxEncodes
    BY <1>7, RowType DEF GuardMerges, BaseRow, GuardInv
  <2>2. guard'.row \in Rows /\ guard'.chunk = guard.chunk
        /\ guard'.step = "append"
    BY <1>7, <2>1 DEF GuardMerges, Rows
  <2> QED BY <1>7, <2>2 DEF GuardMerges
<1>8. CASE GuardAppends
  <2>1. guard.chunk \in Chunks /\ guard.row \in Rows
    BY <1>8 DEF GuardAppends, GuardInv
  <2>2. guard' \in [chunk : Chunks \cup {NoChunk}, row : Rows,
                    step : {"idle", "merge", "append"}]
    BY <1>8, RowType DEF GuardAppends, NoJob
  <2> QED BY <1>8, <2>1, <2>2, AppendType DEF GuardAppends
<1>9. ASSUME NEW s \in Slots, Take(s) PROVE TypeOK'
  <2>1. PICK c \in todo : encodes' = [encodes EXCEPT ![c] = @ + 1]
                          /\ chunk' = [chunk EXCEPT ![s] = c]
                          /\ todo' = todo \ {c}
    BY <1>9 DEF Take
  <2>2. encodes[c] + 1 \in 0..MaxEncodes
    BY <2>1 DEF WorkInv
  <2> QED BY <1>9, <2>1, <2>2 DEF Take
<1>10. ASSUME NEW s \in Slots, RenamePart(s) \/ EncodeFails(s) PROVE TypeOK'
  <2>1. chunk[s] \in Chunks
    BY <1>10 DEF RenamePart, EncodeFails, WorkInv
  <2>2. CASE RenamePart(s)
    BY <2>1, <2>2 DEF RenamePart
  <2>3. CASE EncodeFails(s)
    BY <2>1, <2>3 DEF EncodeFails
  <2> QED BY <1>10, <2>2, <2>3
<1>11. ASSUME NEW s \in Slots, RecordChunk(s) PROVE TypeOK'
  <2>1. chunk[s] \in Chunks
    BY <1>11 DEF RecordChunk, WorkInv
  <2>2. [numbers |-> enc[chunk[s]], verdict |-> 0] \in Rows
    BY <2>1 DEF Rows
  <2> QED BY <1>11, <2>1, <2>2, AppendType DEF RecordChunk
<1>12. ASSUME NEW s \in Slots, Submit(s) PROVE TypeOK'
  <2>1. chunk[s] \in Chunks
    BY <1>12 DEF Submit, WorkInv
  <2>2. submitted' \in Seq(Chunks)
    BY <1>12, <2>1, QueueOps DEF Submit
  <2> QED BY <1>12, <2>2 DEF Submit
<1>13. ASSUME NEW s \in Slots, FireHook(s) PROVE TypeOK'
  <2>1. Cardinality(DoneChunks(s)) \in 0..Cardinality(Chunks)
    BY CountType DEF DoneChunks
  <2> QED BY <1>13, <2>1 DEF FireHook
<1> QED BY <1>1, <1>2, <1>3, <1>4, <1>5, <1>6, <1>7, <1>8, <1>9, <1>10,
           <1>11, <1>12, <1>13, Actions

(***************************************************************************)
(* One step: who works on what.                                            *)
(***************************************************************************)
LEMMA WorkSteps ==
  ASSUME TypeOK, WorkInv, [Next]_vars PROVE WorkInv'
<1> USE ReportsAssumption DEF TypeOK, WorkInv, Quiet, disk, workers, guards
<1>1. CASE UNCHANGED vars
  BY <1>1 DEF vars
<1>2. CASE Start \/ Exit
  BY <1>2 DEF Start, Exit
<1>3. CASE Call \/ Return
  BY <1>3 DEF Call, Return
<1>4. CASE QuarantineBad
  BY <1>4 DEF QuarantineBad
<1>5. CASE Kill
  BY <1>5 DEF Kill, NoJob
<1>6. CASE GuardMeasures \/ GuardMerges \/ GuardAppends
  <2>1. calling /\ UNCHANGED <<disk, running, calling, todo, workers>>
    BY <1>6 DEF GuardMeasures, GuardMerges, GuardAppends
  <2> QED BY <2>1
<1>7. ASSUME NEW s \in Slots, Take(s) PROVE WorkInv'
  <2>1. PICK c \in todo : encodes' = [encodes EXCEPT ![c] = @ + 1]
                          /\ chunk' = [chunk EXCEPT ![s] = c]
                          /\ todo' = todo \ {c}
    BY <1>7 DEF Take
  <2>2. at' = [at EXCEPT ![s] = "encode"] /\ calling
        /\ UNCHANGED <<enc, running, calling>>
    BY <1>7 DEF Take
  <2>3. encodes'[c] # 0 /\ \A d \in Chunks \ {c} : encodes'[d] = encodes[d]
    BY <2>1
  <2> QED BY <2>1, <2>2, <2>3
<1>8. ASSUME NEW s \in Slots, RenamePart(s) PROVE WorkInv'
  BY <1>8 DEF RenamePart
<1>9. ASSUME NEW s \in Slots, EncodeFails(s) PROVE WorkInv'
  BY <1>9 DEF EncodeFails
<1>10. ASSUME NEW s \in Slots, RecordChunk(s) PROVE WorkInv'
  BY <1>10 DEF RecordChunk
<1>11. ASSUME NEW s \in Slots, Submit(s) PROVE WorkInv'
  BY <1>11 DEF Submit
<1>12. ASSUME NEW s \in Slots, FireHook(s) PROVE WorkInv'
  BY <1>12 DEF FireHook
<1> QED BY <1>1, <1>2, <1>3, <1>4, <1>5, <1>6, <1>7, <1>8, <1>9, <1>10,
           <1>11, <1>12, Actions

(***************************************************************************)
(* One step: what the guard builds on.                                     *)
(***************************************************************************)
LEMMA GuardSteps ==
  ASSUME TypeOK, WorkInv, GuardInv, [Next]_vars PROVE GuardInv'
<1> USE DEF GuardInv, disk, log, workers, guards
<1>1. CASE UNCHANGED vars
  BY <1>1 DEF vars, Based, Recording
<1>2. CASE Start \/ Exit \/ Call \/ Return \/ QuarantineBad
  <2>1. Quiet /\ UNCHANGED <<submitted, guard, workers>>
    BY <1>2 DEF Start, Exit, Call, Return, QuarantineBad, WorkInv
  <2> QED BY <2>1 DEF Quiet, TypeOK
<1>3. CASE Kill
  BY <1>3 DEF Kill, NoJob, TypeOK
<1>4. CASE GuardMeasures
  <2>1. submitted # << >> /\ submitted' = Tail(submitted)
        /\ UNCHANGED <<disk, log, workers>>
    BY <1>4 DEF GuardMeasures
  <2>2. \A c : Based(c)' <=> Based(c)
    BY <2>1 DEF Based, Recording
  <2>3. Head(submitted) \in Chunks /\ Based(Head(submitted))
        /\ \A i \in 1..Len(Tail(submitted)) : Based(Tail(submitted)[i])
    BY <2>1, QueueOps DEF TypeOK
  <2>4. guard' = [chunk |-> Head(submitted),
                  row |-> [numbers |-> 0, verdict |-> enc[Head(submitted)]],
                  step |-> "merge"]
    BY <1>4 DEF GuardMeasures, NoRow
  <2>5. (\A s \in Slots : at[s] = "submit" => Based(chunk[s]))'
    BY <2>1, <2>2
  <2>6. (\A i \in 1..Len(submitted) : Based(submitted[i]))'
    BY <2>1, <2>2, <2>3
  <2> QED BY <2>1, <2>2, <2>3, <2>4, <2>5, <2>6
<1>5. CASE GuardMerges
  <2>1. \A c : Based(c)' <=> Based(c)
    BY <1>5 DEF GuardMerges, Based, Recording
  <2>2. /\ guard'.chunk = guard.chunk /\ guard'.step = "append"
        /\ guard'.row.verdict = guard.row.verdict
        /\ guard'.row.numbers = cache[guard.chunk].numbers
    BY <1>5 DEF GuardMerges, BaseRow, TypeOK, Rows
  <2>3. UNCHANGED <<submitted, enc, workers>> /\ guard.step # "idle"
    BY <1>5 DEF GuardMerges
  <2> QED BY <2>1, <2>2, <2>3 DEF Based
<1>6. CASE GuardAppends
  <2>1. guard.chunk \in Chunks /\ guard.row.numbers = enc[guard.chunk]
        /\ UNCHANGED <<disk, submitted, workers>> /\ guard'.step = "idle"
        /\ cache' = [cache EXCEPT ![guard.chunk] = guard.row]
    BY <1>6 DEF GuardAppends, AppendRow, NoJob
  <2>2. \A c : Based(c) => Based(c)'
    BY <2>1 DEF Based, Recording, TypeOK
  <2> QED BY <2>1, <2>2
<1>7. ASSUME NEW s \in Slots, Take(s) PROVE GuardInv'
  <2>1. \A c : Based(c) => Based(c)'
    BY <1>7 DEF Take, Based, Recording, TypeOK
  <2>2. UNCHANGED <<submitted, guard, enc>>
        /\ \A t \in Slots : at'[t] = "submit" =>
             at[t] = "submit" /\ chunk'[t] = chunk[t]
    BY <1>7 DEF Take, TypeOK
  <2> QED BY <2>1, <2>2
<1>8. ASSUME NEW s \in Slots, RenamePart(s) PROVE GuardInv'
  <2>1. enc[chunk[s]] = 0
    BY <1>8 DEF RenamePart, WorkInv
  <2>2. \A c : Based(c) => Based(c)' /\ enc'[c] = enc[c]
    BY <1>8, <2>1 DEF RenamePart, Based, Recording, TypeOK
  <2>3. UNCHANGED <<submitted, guard, chunk>>
        /\ \A t \in Slots : at'[t] = "submit" => at[t] = "submit"
    BY <1>8 DEF RenamePart, TypeOK
  <2> QED BY <2>2, <2>3
<1>9. ASSUME NEW s \in Slots, EncodeFails(s) \/ FireHook(s) PROVE GuardInv'
  <2>1. \A c : Based(c) => Based(c)'
    BY <1>9 DEF EncodeFails, FireHook, Based, Recording, TypeOK
  <2>2. UNCHANGED <<submitted, guard, enc>>
        /\ \A t \in Slots : at'[t] = "submit" =>
             at[t] = "submit" /\ chunk'[t] = chunk[t]
    BY <1>9 DEF EncodeFails, FireHook, TypeOK
  <2> QED BY <2>1, <2>2
<1>10. ASSUME NEW s \in Slots, RecordChunk(s) PROVE GuardInv'
  <2>1. chunk[s] \in Chunks /\ enc[chunk[s]] # 0
        /\ \A t \in Slots : chunk[t] = chunk[s] => t = s
    BY <1>10, ReportsAssumption DEF RecordChunk, WorkInv, TypeOK
  <2>2. cache' = [cache EXCEPT ![chunk[s]] =
                    [numbers |-> enc[chunk[s]], verdict |-> 0]]
    BY <1>10 DEF RecordChunk, AppendRow
  <2>3. Based(chunk[s])'
    BY <1>10, <2>1, <2>2 DEF RecordChunk, Based, Recording, TypeOK
  <2>4. \A c : Based(c) => Based(c)'
    BY <1>10, <2>1, <2>2 DEF RecordChunk, Based, Recording, TypeOK
  <2> QED BY <1>10, <2>3, <2>4 DEF RecordChunk, TypeOK
<1>11. ASSUME NEW s \in Slots, Submit(s) PROVE GuardInv'
  <2>1. \A c : Based(c) => Based(c)'
    BY <1>11 DEF Submit, Based, Recording, TypeOK
  <2>2. Based(chunk[s]) /\ chunk[s] \in Chunks
    BY <1>11 DEF Submit, WorkInv, TypeOK
  <2>3. \A i \in 1..Len(submitted') : Based(submitted'[i])
    BY <1>11, <2>2, QueueOps DEF Submit, TypeOK
  <2>4. UNCHANGED <<guard, enc, chunk>>
        /\ \A t \in Slots : at'[t] = "submit" => at[t] = "submit"
    BY <1>11 DEF Submit, TypeOK
  <2> QED BY <2>1, <2>3, <2>4
<1> QED BY <1>1, <1>2, <1>3, <1>4, <1>5, <1>6, <1>7, <1>8, <1>9, <1>10,
           <1>11, Actions

(***************************************************************************)
(* One step: what the log tells.                                           *)
(***************************************************************************)
\* After an append the log has the row, or has lost it.
LEMMA AppendLogs ==
  ASSUME TypeOK, NEW c \in Chunks, NEW row, AppendRow(c, row)
  PROVE  /\ c \notin lost' => fold'[c] = row
         /\ \A d \in Chunks \ {c} :
              fold'[d] = fold[d] /\ (d \in lost' <=> d \in lost)
<1>1. \/ fold' = [fold EXCEPT ![c] = row] /\ lost' = lost \ {c}
      \/ fold' = fold /\ lost' = lost \cup {c}
  BY Zenon DEF AppendRow
<1>2. fold \in [Chunks -> Rows]
  BY DEF TypeOK
<1> QED BY <1>1, <1>2

LEMMA LogSteps ==
  ASSUME TypeOK, WorkInv, GuardInv, LogInv, [Next]_vars PROVE LogInv'
<1> USE DEF LogInv, Recording, disk, log, workers, guards
<1>1. CASE UNCHANGED vars
  BY <1>1 DEF vars
<1>2. CASE Start
  <2>1. UNCHANGED <<enc, lost, workers>> /\ judged' = {}
        /\ (enc # Nothing => UNCHANGED fold)
    BY <1>2 DEF Start, InitLog, FreshWorkdir
  <2>2. enc = Nothing => \A c \in Chunks : enc[c] = 0
    BY DEF Nothing
  <2> QED BY <2>1, <2>2
<1>3. CASE Call \/ Return \/ Exit
  BY <1>3 DEF Call, Return, Exit
<1>4. CASE QuarantineBad
  BY <1>4 DEF QuarantineBad, TypeOK
<1>5. CASE Kill
  <2>1. /\ UNCHANGED <<enc, fold, judged>>
        /\ \A s \in Slots : at'[s] = "idle"
        /\ lost' = lost \cup {chunk[s] : s \in {t \in Slots : at[t] = "record"}}
    BY <1>5 DEF Kill
  <2>2. \A c \in Chunks \ lost' : c \notin lost /\ ~Recording(c)
    BY <2>1
  <2> QED BY <2>1, <2>2
<1>6. CASE GuardMeasures \/ GuardMerges
  BY <1>6 DEF GuardMeasures, GuardMerges
<1>7. CASE GuardAppends
  <2>1. /\ guard.chunk \in Chunks /\ Based(guard.chunk)
        /\ guard.row.numbers = enc[guard.chunk]
        /\ guard.row.verdict = enc[guard.chunk]
        /\ AppendRow(guard.chunk, guard.row)
        /\ judged' = judged \cup {guard.chunk}
        /\ UNCHANGED <<disk, workers>>
    BY <1>7 DEF GuardAppends, GuardInv
  <2> QED BY <2>1, AppendLogs DEF Based
<1>8. ASSUME NEW s \in Slots, Take(s) PROVE LogInv'
  <2>1. \A t \in Slots : at'[t] = "record" <=> at[t] = "record"
    BY <1>8 DEF Take, TypeOK
  <2>2. \A t \in Slots : at[t] = "record" => chunk'[t] = chunk[t]
    BY <1>8 DEF Take, TypeOK
  <2> QED BY <1>8, <2>1, <2>2 DEF Take
<1>9. ASSUME NEW s \in Slots, RenamePart(s) PROVE LogInv'
  <2>1. /\ chunk[s] \in Chunks /\ enc[chunk[s]] = 0
        /\ at' = [at EXCEPT ![s] = "record"]
        /\ \A c \in Chunks \ {chunk[s]} : enc'[c] = enc[c]
        /\ UNCHANGED <<fold, lost, judged, chunk>>
    BY <1>9 DEF RenamePart, WorkInv, TypeOK
  <2>2. /\ Recording(chunk[s])'
        /\ \A c \in Chunks \ {chunk[s]} : Recording(c)' <=> Recording(c)
    BY <2>1 DEF TypeOK
  <2>3. chunk[s] \notin judged
    BY <2>1
  <2> QED BY <2>1, <2>2, <2>3 DEF TypeOK
<1>10. ASSUME NEW s \in Slots, EncodeFails(s) \/ Submit(s) \/ FireHook(s)
       PROVE  LogInv'
  <2>1. \A c : Recording(c)' <=> Recording(c)
    BY <1>10 DEF EncodeFails, Submit, FireHook, TypeOK
  <2>2. UNCHANGED <<enc, fold, lost, judged>>
    BY <1>10 DEF EncodeFails, Submit, FireHook
  <2> QED BY <2>1, <2>2
<1>11. ASSUME NEW s \in Slots, RecordChunk(s) PROVE LogInv'
  <2> DEFINE c == chunk[s]
             row == [numbers |-> enc[c], verdict |-> 0]
  <2>1. c \in Chunks /\ Recording(c) /\ AppendRow(c, row)
        /\ UNCHANGED <<enc, judged, chunk>>
    BY <1>11 DEF RecordChunk, WorkInv, TypeOK
  <2>2. c \notin judged
    BY <2>1
  <2>3. \A d \in Chunks \ {c} : Recording(d)' <=> Recording(d)
    BY <1>11 DEF RecordChunk, TypeOK
  <2>4. \A d \in judged : ~Recording(d)'
    BY <2>1, <2>2, <2>3 DEF TypeOK
  <2> QED BY <2>1, <2>2, <2>3, <2>4, AppendLogs
<1> QED BY <1>1, <1>2, <1>3, <1>4, <1>5, <1>6, <1>7, <1>8, <1>9, <1>10,
           <1>11, Actions

(***************************************************************************)
(* One step: what the hooks have said.                                     *)
(***************************************************************************)
LEMMA SaidSteps ==
  ASSUME TypeOK, WorkInv, SaidInv, [Next]_vars PROVE SaidInv'
<1> USE DEF SaidInv, disk, log, workers, guards
<1>1. CASE UNCHANGED vars
  BY <1>1 DEF vars
<1>2. CASE Start \/ Call \/ Return \/ QuarantineBad \/ Exit \/ Kill
  <2>1. calling' => \E c \in Chunks : enc'[c] = 0
    BY <1>2 DEF Start, Call, Return, QuarantineBad, Exit, Kill, WorkInv, Quiet
  <2> QED BY <2>1
<1>3. CASE GuardMeasures \/ GuardMerges \/ GuardAppends
  BY <1>3 DEF GuardMeasures, GuardMerges, GuardAppends
<1>4. ASSUME NEW s \in Slots, Take(s) PROVE SaidInv'
  <2>1. PICK c \in Chunks : enc[c] = 0
    BY <1>4 DEF Take, WorkInv, TypeOK
  <2> QED BY <1>4, <2>1 DEF Take
<1>5. ASSUME NEW s \in Slots,
             RenamePart(s) \/ EncodeFails(s) \/ RecordChunk(s) \/ Submit(s)
      PROVE  SaidInv'
  <2>1. at'[s] \in {"record", "submit", "fire"}
    BY <1>5 DEF RenamePart, EncodeFails, RecordChunk, Submit, TypeOK
  <2> QED BY <2>1
<1>6. ASSUME NEW s \in Slots, FireHook(s) PROVE SaidInv'
  <2>1. (\A c \in Chunks : enc[c] # 0) => DoneChunks(s) = Chunks
    BY DEF DoneChunks
  <2> QED BY <1>6, <2>1 DEF FireHook
<1> QED BY <1>1, <1>2, <1>3, <1>4, <1>5, <1>6, Actions

LEMMA NextInv == ReportsInv /\ [Next]_vars => ReportsInv'
  BY TypeSteps, WorkSteps, GuardSteps, LogSteps, SaidSteps DEF ReportsInv

(***************************************************************************)
(* Theorems.                                                               *)
(***************************************************************************)
\* The inductive invariant: the types, a chunk for each worker, a base row for
\* each chunk the guard has (record_chunk before submit, in the worker).
THEOREM ReportsInvariant == Spec => []ReportsInv
<1> QED BY InitInv, NextInv, PTL DEF Spec

\* When nobody is writing, the log tells the newest encode and the guard's
\* verdict of every chunk whose row reached the disk (record_chunk and
\* update_chunk_quality, from the workers' threads and the guard's).
THEOREM LogIsCurrent == Spec => []LogTellsLatest
<1>1. ASSUME ReportsInv PROVE LogTellsLatest
  <2> SUFFICES ASSUME Quiet, NEW c \in Chunks \ lost, enc[c] # 0
               PROVE  /\ fold[c].numbers = enc[c]
                      /\ c \in judged => fold[c].verdict = enc[c]
                      /\ fold[c].verdict \in {0, enc[c]}
    BY DEF LogTellsLatest
  <2>1. ~Recording(c)
    BY DEF Quiet, Recording
  <2> QED BY <1>1, <2>1 DEF ReportsInv, LogInv
<1> QED BY <1>1, ReportsInvariant, PTL

\* The last of a call's chunks is announced as such, in whatever order the
\* workers end (_done_chunks looks at the disk when the hook is fired).
THEOREM LastChunkIsAnnounced == Spec => []SomeoneSaysDone
<1>1. ReportsInv => SomeoneSaysDone
  BY DEF ReportsInv, SaidInv, Quiet, SomeoneSaysDone
<1> QED BY <1>1, ReportsInvariant, PTL
=============================================================================
