------------------------ MODULE CrfEscalationProofs ------------------------
(***************************************************************************)
(* The escalation of CrfEscalation, for any set of chunks, any CRFs and    *)
(* any number of starts: what is recorded is not replayed, no encoded      *)
(* chunk is lost, crf_max is passed in one way only, and an output is of   *)
(* one CRF unless something tore the workdir.                              *)
(***************************************************************************)
EXTENDS CrfEscalation, FiniteSetTheorems, TLAPS

USE DEF Crfs

\* The next CRF is a step higher at least, but for a jump at the cap.
LEMMA NextCrfBounds ==
  ASSUME TypeOK, crf # 0, NEW n \in NextCrfs
  PROVE  /\ n \in Nat
         /\ n > crf /\ n <= CrfMax => n \in Crfs /\ crf < CrfMax
         /\ ~jump => n = crf + CrfStep
  BY EscalationAssumption DEF NextCrfs, Jumps, TypeOK

LEMMA Projected ==
  ASSUME TypeOK PROVE Projections \in 0..2
  BY DEF TypeOK, Projections

LEMMA Seeded ==
  ASSUME TypeOK, RecordInv
  PROVE  /\ SeedCrf \in Crfs /\ Crf0 <= SeedCrf
         /\ \A t \in tried : t < SeedCrf
         /\ sidecar # 0 => SeedCrf = sidecar + CrfStep
  BY EscalationAssumption DEF TypeOK, RecordInv, SeedCrf

LEMMA InitInv == Init => CrfInv
<1> SUFFICES ASSUME Init PROVE CrfInv
  OBVIOUS
<1> USE EscalationAssumption DEF Init
<1>1. TypeOK
  <2>1. probes \in 0..2
    OBVIOUS
  <2>2. enc \in [Chunks -> Crfs \cup {0}]
    OBVIOUS
  <2>3. status \in Statuses /\ runs \in 0..MaxRuns
    BY DEF Statuses
  <2>4. pc = "idle" /\ aside = {} /\ encoded = {} /\ output = {} /\ tried = {}
    OBVIOUS
  <2> QED BY <2>1, <2>2, <2>3, <2>4 DEF TypeOK
<1>2. RecordInv /\ UniformInv /\ CapInv /\ EncodedKept
  BY DEF RecordInv, UniformInv, CapInv, OverCapOnlyByResume, EncodedKept
<1>3. ResumedOutputIsUniform
  BY FS_EmptySet DEF ResumedOutputIsUniform
<1> QED BY <1>1, <1>2, <1>3 DEF CrfInv
(***************************************************************************)
(* One step.                                                               *)
(***************************************************************************)
LEMMA TypeSteps ==
  ASSUME TypeOK, RecordInv, [Next]_vars PROVE TypeOK'
<1> USE EscalationAssumption DEF TypeOK, jobVars, fileVars, stateVars
<1>1. CASE UNCHANGED vars
  BY <1>1 DEF vars
<1>2. CASE StartRun
  <2>1. SeedCrf \in Crfs
    BY Seeded
  <2> HIDE DEF Crfs
  <2>2. runs' \in 0..MaxRuns /\ status' \in Statuses
    BY <1>2 DEF StartRun, Statuses
  <2> QED BY <1>2, <2>1, <2>2 DEF StartRun
<1>3. CASE SizeStop
  <2>1. crf # 0
    BY <1>3 DEF SizeStop, RecordInv
  <2> QED BY <1>3, <2>1 DEF SizeStop
<1>4. CASE Succeed
  <2>1. {enc[c] : c \in Chunks} \subseteq Crfs
    BY <1>4 DEF Succeed, Left
  <2>2. enc' \in [Chunks -> Crfs \cup {0}]
    BY <1>4 DEF Succeed
  <2>3. /\ status' \in Statuses /\ pc' = "idle" /\ crf' = 0 /\ probes' = 0
        /\ record' = 0 /\ sidecar' \in {0, sidecar} /\ tried' \in {{}, tried}
        /\ UNCHANGED <<jump, runs, history, encoded, aside, torn>>
    BY <1>4 DEF Succeed, Finish, ClearRecord, Statuses
  <2> HIDE DEF Crfs
  <2>4. output' \subseteq Crfs
    BY <1>4, <2>1 DEF Succeed
  <2> QED BY <2>2, <2>3, <2>4
<1>5. ASSUME NEW s \in Statuses, GiveUp(s) PROVE TypeOK'
  <2>1. /\ status' \in Statuses /\ pc' = "idle" /\ crf' = 0 /\ probes' = 0
        /\ record' = 0 /\ sidecar' \in {0, sidecar} /\ tried' \in {{}, tried}
        /\ UNCHANGED <<jump, runs, history, encoded, aside, enc, output>>
    BY <1>5 DEF GiveUp, Finish, ClearRecord
  <2>2. torn' \in BOOLEAN
    BY <1>5 DEF GiveUp
  <2> HIDE DEF Crfs
  <2> QED BY <2>1, <2>2
<1>6. CASE Floor \/ Exhaust \/ UserStop \/ Fail
  BY <1>5, <1>6 DEF Floor, Exhaust, UserStop, Fail, Statuses
<1>7. CASE Persist
  <2>1. crf # 0
    BY <1>7 DEF Persist, RecordInv
  <2>2. PICK n \in NextCrfs : n <= CrfMax /\ n > crf /\ Escalate(n)
    BY <1>7 DEF Persist
  <2>3. n \in Crfs
    BY <2>1, <2>2, NextCrfBounds
  <2> HIDE DEF Crfs
  <2> QED BY <1>7, <2>1, <2>2, <2>3, Projected DEF Persist, Escalate, PersistRecord
<1>8. CASE Reencode
  BY <1>8 DEF Reencode, Left
<1>9. ASSUME NEW c \in Chunks, EncodeChunk(c) PROVE TypeOK'
  <2>1. crf \in Crfs
    BY <1>9 DEF EncodeChunk, RecordInv
  <2> QED BY <1>9, <2>1 DEF EncodeChunk
<1>10. ASSUME NEW c \in Chunks, SupersedeChunk(c) PROVE TypeOK'
  BY <1>10 DEF SupersedeChunk
<1>11. CASE Kill
  BY <1>11 DEF Kill, Left, Unrecorded, Statuses
<1> QED BY <1>1, <1>2, <1>3, <1>4, <1>6, <1>7, <1>8, <1>9, <1>10, <1>11
         DEF Next, Advance, Quiet

LEMMA RecordSteps ==
  ASSUME TypeOK, RecordInv, [Next]_vars PROVE RecordInv'
<1> USE EscalationAssumption DEF TypeOK, jobVars, fileVars, stateVars, RecordInv
<1>1. CASE UNCHANGED vars
  BY <1>1 DEF vars
<1>2. CASE StartRun
  BY <1>2, Seeded DEF StartRun
<1>3. CASE SizeStop
  BY <1>3 DEF SizeStop
<1>4. CASE Succeed
  BY <1>4 DEF Succeed, Finish, ClearRecord
<1>5. ASSUME NEW s \in Statuses, GiveUp(s) PROVE RecordInv'
  BY <1>5 DEF GiveUp, Finish, ClearRecord
<1>6. CASE Floor \/ Exhaust \/ UserStop \/ Fail
  BY <1>5, <1>6 DEF Floor, Exhaust, UserStop, Fail, Statuses
<1>7. CASE Persist
  <2>1. PICK n \in NextCrfs : n <= CrfMax /\ n > crf /\ Escalate(n)
    BY <1>7 DEF Persist
  <2>2. crf \in Crfs /\ n \in Crfs /\ crf < CrfMax
    BY <1>7, <2>1, NextCrfBounds DEF Persist
  <2>3. CASE history = 0
    BY <1>7, <2>1, <2>2, <2>3 DEF Persist, Escalate
  <2>5. sidecar < crf
    BY <1>7 DEF Persist
  <2>4. CASE history # 0
    <3>1. /\ record' = crf /\ crf' = n /\ history' = history /\ pc' = "supersede"
          /\ \/ sidecar' = crf /\ tried' = tried \cup {crf}
             \/ UNCHANGED <<sidecar, tried>>
      BY <2>1, <2>4 DEF Escalate, PersistRecord
    <3>2. \A t \in tried : t \in Nat /\ t <= sidecar /\ sidecar < crf
      BY <1>7 DEF Persist
    <3>3. crf \in Nat /\ n \in Nat /\ crf < n /\ Crf0 <= crf
      BY <1>7, <2>1, <2>2 DEF Persist
    <3>4. crf < CrfMax /\ history' # 0 /\ sidecar \in Nat
      BY <2>2, <2>4, <3>1
    <3>5. CASE UNCHANGED <<sidecar, tried>>
      <4>1. /\ record' # 0 => Crf0 <= record' /\ record' < CrfMax
            /\ sidecar' # 0 => Crf0 <= sidecar' /\ sidecar' < CrfMax
        BY <3>1, <3>3, <3>4, <3>5
      <4>2. /\ tried' # {} => sidecar' # 0
            /\ \A t \in tried' : t <= sidecar'
        BY <3>5
      <4>3. Crf0 <= crf' /\ sidecar' < crf'
        BY <3>1, <3>2, <3>3, <3>4, <3>5, <2>5
      <4> QED BY <3>4, <4>1, <4>2, <4>3
    <3>6. CASE sidecar' = crf /\ tried' = tried \cup {crf}
      <4>1. \A t \in tried' : t <= sidecar'
        BY <3>2, <3>3, <3>4, <3>6
      <4> QED BY <3>1, <3>3, <3>4, <3>6, <4>1
    <3> QED BY <3>1, <3>5, <3>6
  <2> QED BY <2>3, <2>4
<1>8. CASE Reencode \/ Kill
  BY <1>8 DEF Reencode, Kill
<1>9. ASSUME NEW c \in Chunks, EncodeChunk(c) \/ SupersedeChunk(c)
      PROVE  RecordInv'
  BY <1>9 DEF EncodeChunk, SupersedeChunk
<1> QED BY <1>1, <1>2, <1>3, <1>4, <1>6, <1>7, <1>8, <1>9
         DEF Next, Advance, Quiet

LEMMA UniformSteps ==
  ASSUME TypeOK, RecordInv, UniformInv, [Next]_vars PROVE UniformInv'
<1> USE EscalationAssumption
    DEF TypeOK, jobVars, fileVars, stateVars, UniformInv, SeedCrf, Left
<1>1. CASE UNCHANGED vars
  BY <1>1 DEF vars, Unrecorded
<1>2. CASE StartRun
  BY <1>2 DEF StartRun, Unrecorded
<1>3. CASE SizeStop
  BY <1>3 DEF SizeStop, Unrecorded
<1>4. CASE Succeed
  BY <1>4 DEF Succeed, Finish
<1>5. ASSUME NEW s \in Statuses, GiveUp(s), pc \in {"encode", "stopped"}
      PROVE  UniformInv'
  <2>1. pc' = "idle" /\ enc' = enc /\ sidecar' \in {0, sidecar}
    BY <1>5 DEF GiveUp, Finish, ClearRecord
  <2>2. SUFFICES ASSUME ~torn' PROVE \A c \in Chunks : enc[c] \in {0, SeedCrf'}
    BY <2>1
  <2>3. ~torn /\ (Left = {} \/ crf = Crf0)
    BY <1>5, <2>2 DEF GiveUp
  <2>4. CASE Left = {}
    BY <2>4
  <2>5. CASE crf = Crf0
    <3>1. sidecar = 0
      BY <1>5, <2>5 DEF RecordInv
    <3>2. SeedCrf' = crf
      BY <2>1, <2>5, <3>1
    <3> QED BY <1>5, <2>3, <3>2
  <2> QED BY <2>3, <2>4, <2>5
<1>6. CASE Floor \/ Exhaust \/ UserStop \/ Fail
  <2>1. pc \in {"encode", "stopped"}
    BY <1>6 DEF Floor, Exhaust, UserStop, Fail
  <2> QED BY <1>5, <1>6, <2>1 DEF Floor, Exhaust, UserStop, Fail, Statuses
<1>7. CASE Persist
  <2>1. PICK n \in NextCrfs : n <= CrfMax /\ n > crf /\ Escalate(n)
    BY <1>7 DEF Persist
  <2>2. /\ n \in Crfs
        /\ ~jump => n = crf + CrfStep
    BY <1>7, <2>1, NextCrfBounds DEF Persist, RecordInv
  <2> QED BY <1>7, <2>1, <2>2 DEF Persist, Escalate, PersistRecord, RecordInv,
          Unrecorded
<1>8. CASE Reencode
  BY <1>8 DEF Reencode, Unrecorded
<1>9. ASSUME NEW c \in Chunks, EncodeChunk(c) PROVE UniformInv'
  BY <1>9 DEF EncodeChunk, Unrecorded
<1>10. ASSUME NEW c \in Chunks, SupersedeChunk(c) PROVE UniformInv'
  BY <1>10 DEF SupersedeChunk, Unrecorded
<1>11. CASE Kill
  BY <1>11 DEF Kill, Unrecorded
<1> QED BY <1>1, <1>2, <1>3, <1>4, <1>6, <1>7, <1>8, <1>9, <1>10, <1>11
         DEF Next, Advance, Quiet

\* What is recorded is a CRF whose successor was within the cap; without jumps
\* that successor is a step away.
LEMMA CapSteps ==
  ASSUME TypeOK, RecordInv, CapInv, [Next]_vars PROVE CapInv'
<1> USE EscalationAssumption
    DEF TypeOK, jobVars, fileVars, stateVars, CapInv, OverCapOnlyByResume
<1>1. CASE UNCHANGED vars
  BY <1>1 DEF vars
<1>2. CASE StartRun
  BY <1>2 DEF StartRun, SeedCrf, RecordInv
<1>3. CASE SizeStop
  BY <1>3 DEF SizeStop
<1>4. CASE Succeed
  BY <1>4 DEF Succeed, Finish, ClearRecord
<1>5. ASSUME NEW s \in Statuses, GiveUp(s) PROVE CapInv'
  BY <1>5 DEF GiveUp, Finish, ClearRecord
<1>6. CASE Floor \/ Exhaust \/ UserStop \/ Fail
  BY <1>5, <1>6 DEF Floor, Exhaust, UserStop, Fail, Statuses
<1>7. CASE Persist
  <2>1. PICK n \in NextCrfs : n <= CrfMax /\ n > crf /\ Escalate(n)
    BY <1>7 DEF Persist
  <2>2. ~jump => crf + CrfStep <= CrfMax
    BY <1>7, <2>1, NextCrfBounds DEF Persist, RecordInv
  <2> QED BY <2>1, <2>2 DEF Escalate, PersistRecord
<1>8. CASE Reencode \/ Kill
  BY <1>8 DEF Reencode, Kill
<1>9. ASSUME NEW c \in Chunks, EncodeChunk(c) \/ SupersedeChunk(c)
      PROVE  CapInv'
  BY <1>9 DEF EncodeChunk, SupersedeChunk
<1> QED BY <1>1, <1>2, <1>3, <1>4, <1>6, <1>7, <1>8, <1>9
         DEF Next, Advance, Quiet

\* Only Succeed makes an output, and all its chunks are of the run's CRF.
LEMMA OutputSteps ==
  ASSUME TypeOK, UniformInv, ResumedOutputIsUniform, [Next]_vars
  PROVE  ResumedOutputIsUniform'
<1>1. CASE Succeed
  <2>1. ASSUME ~torn PROVE output' = {crf}
    BY <1>1, <2>1, EscalationAssumption DEF Succeed, Left, UniformInv, TypeOK
  <2>2. Cardinality({crf}) = 1
    BY FS_Singleton
  <2>3. ~torn => Cardinality(output') <= 1
    BY <2>1, <2>2
  <2>4. torn' = torn
    BY <1>1 DEF Succeed
  <2> QED BY <2>3, <2>4 DEF ResumedOutputIsUniform
<1>2. CASE ~Succeed
  <2>1. output' = output
    BY <1>2 DEF Next, Advance, StartRun, SizeStop, Floor, Exhaust, Persist,
       Reencode, EncodeChunk, SupersedeChunk, UserStop, Fail, Kill, Quiet,
       GiveUp, Escalate, vars, fileVars
  <2>2. torn => torn'
    BY <1>2 DEF Next, Advance, StartRun, SizeStop, Floor, Exhaust, Persist,
       Reencode, EncodeChunk, SupersedeChunk, UserStop, Fail, Kill, Quiet,
       GiveUp, Escalate, vars
  <2>3. ~torn' => Cardinality(output) <= 1
    BY <2>2 DEF ResumedOutputIsUniform
  <2>4. Cardinality(output') = Cardinality(output)
    BY <2>1
  <2> QED BY <2>3, <2>4 DEF ResumedOutputIsUniform
<1> QED BY <1>1, <1>2

LEMMA KeptSteps ==
  ASSUME TypeOK, EncodedKept, [Next]_vars PROVE EncodedKept'
<1> DEFINE InWorkdir == {<<c, enc[c]>> : c \in Chunks}
<1>1. CASE Succeed
  BY <1>1, EscalationAssumption DEF Succeed, EncodedKept
<1>2. ASSUME NEW c \in Chunks, EncodeChunk(c) PROVE EncodedKept'
  <2>1. \A p \in encoded : p[2] # 0
    BY EscalationAssumption DEF TypeOK
  <2>2. \A p \in encoded : p \in InWorkdir => p \in InWorkdir'
    BY <1>2, <2>1 DEF EncodeChunk, TypeOK
  <2>3. <<c, crf>> \in InWorkdir'
    BY <1>2 DEF EncodeChunk, TypeOK
  <2> QED BY <1>2, <2>2, <2>3 DEF EncodeChunk, EncodedKept
<1>3. ASSUME NEW c \in Chunks, SupersedeChunk(c) PROVE EncodedKept'
  <2>1. \A p \in InWorkdir : p = <<c, enc[c]>> \/ p \in InWorkdir'
    BY <1>3 DEF SupersedeChunk, TypeOK
  <2> QED BY <1>3, <2>1 DEF SupersedeChunk, EncodedKept
<1>4. CASE UNCHANGED <<output, encoded, aside, enc>>
  BY <1>4 DEF EncodedKept
<1> QED BY <1>1, <1>2, <1>3, <1>4
    DEF Next, Advance, StartRun, SizeStop, Floor, Exhaust, Persist, Reencode,
        UserStop, Fail, Kill, Quiet, GiveUp, Finish, Escalate, vars, fileVars

LEMMA NextInv == CrfInv /\ [Next]_vars => CrfInv'
  BY TypeSteps, RecordSteps, UniformSteps, CapSteps, OutputSteps, KeptSteps
  DEF CrfInv

(***************************************************************************)
(* Theorems.                                                               *)
(***************************************************************************)
\* The inductive invariant, with EncodedKept: chunks are moved aside, never
\* lost (supersede_encoded_chunks).
THEOREM EscalationInvariant == Spec => []CrfInv
<1> QED BY InitInv, NextInv, PTL DEF Spec

\* Nothing that was encoded is lost, whatever CRF it was encoded at and
\* however often the runs were killed (supersede_encoded_chunks moves, and
\* never deletes).
THEOREM SupersededChunksAreKept == Spec => []EncodedKept
<1>1. CrfInv => EncodedKept
  BY DEF CrfInv
<1> QED BY <1>1, EscalationInvariant, PTL

\* A CRF recorded as stopped is not encoded again (the record of crf_retry,
\* kept over kills in the state sidecar).
THEOREM RecordedCrfIsNotReplayed == Spec => []NoReplay
<1>1. CrfInv => NoReplay
  BY EscalationAssumption DEF CrfInv, RecordInv, TypeOK, NoReplay
<1> QED BY <1>1, EscalationInvariant, PTL

\* For every crf_step, crf_max and jump: the escalation passes crf_max only in
\* an encode that resumes, one step above it, a record that a clamped jump
\* left, and never on the step walk (compute_next_crf, _seed_crf_from_state).
THEOREM OverCapIsAResumedJump == Spec => []OverCapOnlyByResume
<1>1. CrfInv => OverCapOnlyByResume
  BY DEF CrfInv, CapInv
<1> QED BY <1>1, EscalationInvariant, PTL

\* The output is of one CRF unless the workdir was torn.
THEOREM UntornOutputIsUniform == Spec => []ResumedOutputIsUniform
<1>1. CrfInv => ResumedOutputIsUniform
  BY DEF CrfInv
<1> QED BY <1>1, EscalationInvariant, PTL
=============================================================================
