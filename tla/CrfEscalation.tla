---------------------------- MODULE CrfEscalation ----------------------------
(***************************************************************************)
(* One source under retry_with_bigger_crf (queue_modules/crf_retry.py):    *)
(* encode, and while the size guard stops the encode, set the chunks aside *)
(* and encode again at a higher CRF.  The escalation is recorded in the    *)
(* queue's state sidecar so that a queue that is killed resumes it.  The   *)
(* queue may be started again after a kill, or after it gave the job up.   *)
(*                                                                         *)
(* An encode is run_one_job: here the encoder finishes chunks one by one,  *)
(* reuses those it finds, and exits.  Its threads are in ParallelEncode.   *)
(***************************************************************************)
EXTENDS Naturals, FiniteSets

CONSTANTS
  Chunks,       \* the chunks of the source
  Crf0,         \* the CRF configured in queue.json
  CrfStep,      \* crf_step, at least 1
  CrfMax,       \* crf_max
  MaxRuns,      \* bound: how often the queue is started
  Kills,        \* the queue and its encoder may be killed
  UserStops,    \* the user may end the queue with a finish request
  Fails,        \* an encode may end in a failure
  FlushFails,   \* the encoder may fail to append its history record
  MoveFails,    \* a chunk may not be moved aside (file lock, permission)
  SaveFails     \* the state sidecar may not be saved

ASSUME EscalationAssumption ==
  /\ Chunks # {} /\ IsFiniteSet(Chunks)
  /\ Crf0 \in Nat \ {0} /\ CrfStep \in Nat \ {0} /\ CrfMax \in Nat
  /\ MaxRuns \in Nat
  /\ {Kills, UserStops, Fails, FlushFails, MoveFails, SaveFails} \subseteq BOOLEAN

VARIABLES
  jump,      \* crf_jump
  pc,        \* where the queue is with this job
  crf,       \* the CRF of the current encode (used_crf once it stopped), or 0
  probes,    \* how many projections this run has read, counted up to two
  record,    \* last_crf_tried in the memory of this run, 0 if none
  sidecar,   \* last_crf_tried in the state sidecar, 0 if none
  history,   \* CRF of the last threshold row of encoding_history.jsonl, 0 if none
  enc,       \* CRF of each enc_src_*.mkv in the workdir, 0 if none
  aside,     \* superseded chunks, as <<chunk, crf>>
  encoded,   \* history: every <<chunk, crf>> ever encoded
  output,    \* the CRFs mixed in the finished output, {} if there is none
  status,    \* how the job ended in this start of the queue
  tried,     \* history: CRFs the sidecar recorded as stopped since its last clear
  torn,      \* history: chunks were left whose CRF nothing records
  runs       \* queue starts so far

jobVars == <<pc, crf, probes, status, runs>>
fileVars == <<enc, aside, encoded, output>>
stateVars == <<record, sidecar, tried>>
vars == <<jump, jobVars, fileVars, stateVars, history, torn>>

Crfs == 1..(Crf0 + CrfMax + CrfStep)
Statuses == {"none", "ok", "exhausted", "floor", "stopped-by-user", "failed"}

TypeOK ==
  /\ jump \in BOOLEAN /\ torn \in BOOLEAN
  /\ pc \in {"idle", "encode", "stopped", "supersede"}
  /\ crf \in Crfs \cup {0} /\ record \in Crfs \cup {0}
  /\ sidecar \in Crfs \cup {0} /\ history \in Crfs \cup {0}
  /\ probes \in 0..2
  /\ enc \in [Chunks -> Crfs \cup {0}]
  /\ aside \subseteq Chunks \X Crfs /\ encoded \subseteq Chunks \X Crfs
  /\ output \subseteq Crfs /\ tried \subseteq Crfs
  /\ status \in Statuses
  /\ runs \in 0..MaxRuns

Init ==
  /\ jump \in BOOLEAN /\ torn = FALSE
  /\ pc = "idle" /\ crf = 0 /\ probes = 0 /\ status = "none" /\ runs = 0
  /\ record = 0 /\ sidecar = 0 /\ tried = {} /\ history = 0
  /\ enc = [c \in Chunks |-> 0]
  /\ aside = {} /\ encoded = {} /\ output = {}

Left == {c \in Chunks : enc[c] # 0}

-----------------------------------------------------------------------------
\* Faulty variant: the record is not consulted on a restart.
StartRunFresh ==
  /\ pc = "idle" /\ runs < MaxRuns /\ output = {}
  /\ runs' = runs + 1
  /\ record' = sidecar /\ crf' = Crf0 /\ status' = "none"
  /\ pc' = "encode"
  /\ UNCHANGED <<jump, probes, fileVars, sidecar, tried, history, torn>>

\* _seed_crf_from_state: one step above the record, never below the job's.
SeedCrf ==
  IF sidecar = 0 \/ Crf0 > sidecar + CrfStep THEN Crf0 ELSE sidecar + CrfStep

\* load_queue_state, and the first encode.  A job whose output exists is
\* skipped.
StartRun ==
  /\ pc = "idle" /\ runs < MaxRuns /\ output = {}
  /\ runs' = runs + 1
  /\ record' = sidecar /\ crf' = SeedCrf /\ status' = "none"
  /\ pc' = "encode"
  /\ UNCHANGED <<jump, probes, fileVars, sidecar, tried, history, torn>>

\* The encoder skips a chunk whose enc file exists.
EncodeChunk(c) ==
  /\ pc = "encode" /\ enc[c] = 0
  /\ enc' = [enc EXCEPT ![c] = crf]
  /\ encoded' = encoded \cup {<<c, crf>>}
  /\ UNCHANGED <<jump, jobVars, stateVars, aside, output, history, torn>>

\* The size guard stops the encoder (exit 3), which flushes its record.
SizeStop ==
  /\ pc = "encode"
  /\ \/ history' = crf
     \/ FlushFails /\ UNCHANGED history
  /\ pc' = "stopped"
  /\ UNCHANGED <<jump, crf, probes, status, runs, fileVars, stateVars, torn>>

\* _clear_state_if_present.  A save that fails is only warned about; that a
\* later job's save writes the same memory is the first case again.
ClearRecord ==
  /\ record' = 0
  /\ \/ sidecar' = 0 /\ tried' = {}
     \/ SaveFails /\ UNCHANGED <<sidecar, tried>>

\* The job's end.
Finish(s) ==
  /\ status' = s /\ pc' = "idle" /\ crf' = 0 /\ probes' = 0
  /\ ClearRecord
  /\ UNCHANGED <<jump, runs, history, encoded, aside>>

\* Every chunk is there: concat, verify, clean the workdir.
Succeed ==
  /\ pc = "encode" /\ Left = Chunks
  /\ output' = {enc[c] : c \in Chunks}
  /\ enc' = [c \in Chunks |-> 0]
  /\ Finish("ok")
  /\ UNCHANGED torn

\* The escalation ends without an output.  The chunks stay in the workdir,
\* and nothing records a CRF they were raised to.
GiveUp(s) ==
  /\ Finish(s)
  /\ torn' = (torn \/ (Left # {} /\ crf # Crf0))
  /\ UNCHANGED <<enc, output>>

UserStop == UserStops /\ pc = "encode" /\ GiveUp("stopped-by-user")

Fail == Fails /\ pc = "encode" /\ GiveUp("failed")

\* read_last_projection finds the newest record of the source, whatever its
\* CRF.  What a projection says is left open: the decisions below may go
\* either way.
Projections ==
  IF history = 0 \/ probes = 2 THEN probes ELSE probes + 1

\* is_floor_bound may say so of the last two, not of fewer.
MayBeFloorBound == history # 0 /\ Projections = 2

Floor == pc = "stopped" /\ MayBeFloorBound /\ GiveUp("floor")

\* compute_next_crf, whatever K calibrate_k gives it: at least crf_step,
\* clamped to crf_max.
Jumps == {IF n > CrfMax THEN CrfMax ELSE n :
            n \in (crf + CrfStep)..(crf + CrfStep + CrfMax)}

\* _decide_next_crf: one step, or with crf_jump and a projection a jump; one
\* step again when the projection meets the target.
NextCrfs ==
  {crf + CrfStep} \cup IF jump /\ history # 0 THEN Jumps ELSE {}

Exhaust ==
  /\ pc = "stopped"
  /\ \E n \in NextCrfs : n > CrfMax \/ n <= crf
  /\ GiveUp("exhausted")

\* _persist_state_if_present: in memory in any case, on disk if it is saved.
PersistRecord ==
  /\ record' = crf
  /\ \/ sidecar' = crf /\ tried' = tried \cup {crf}
     \/ SaveFails /\ UNCHANGED <<sidecar, tried>>

\* What Persist does once the next CRF is decided.
Escalate(n) ==
  /\ crf' = n
  /\ IF history # 0 THEN PersistRecord ELSE UNCHANGED stateVars
  /\ probes' = Projections
  /\ pc' = "supersede"
  /\ UNCHANGED <<jump, status, runs, fileVars, history, torn>>

\* Faulty variants: a boundary of the exhausted check is missing.
PersistPastCap == pc = "stopped" /\ \E n \in NextCrfs : n > crf /\ Escalate(n)
PersistInPlace == pc = "stopped" /\ \E n \in NextCrfs : n <= CrfMax /\ Escalate(n)

\* The record goes to the sidecar before the chunks are touched; without a
\* projection nothing is recorded.  crf becomes the CRF of the next encode.
Persist ==
  pc = "stopped" /\ \E n \in NextCrfs : n <= CrfMax /\ n > crf /\ Escalate(n)

\* Faulty variant: the old chunk is deleted.
SupersedeDeleting(c) ==
  /\ pc = "supersede" /\ enc[c] # 0
  /\ enc' = [enc EXCEPT ![c] = 0]
  /\ UNCHANGED <<jump, jobVars, stateVars, aside, encoded, output, history, torn>>

\* supersede_encoded_chunks moves one file at a time.
SupersedeChunk(c) ==
  /\ pc = "supersede" /\ enc[c] # 0
  /\ aside' = aside \cup {<<c, enc[c]>>}
  /\ enc' = [enc EXCEPT ![c] = 0]
  /\ UNCHANGED <<jump, jobVars, stateVars, encoded, output, history, torn>>

\* Faulty variant: the next encode does not wait for the chunks to be moved.
ReencodeAtOnce ==
  /\ pc = "supersede"
  /\ pc' = "encode"
  /\ UNCHANGED <<jump, crf, probes, status, runs, fileVars, stateVars, history,
                 torn>>

\* Every chunk has been tried; one whose rename failed is only warned about,
\* and the next encode will reuse it.
Reencode ==
  /\ pc = "supersede"
  /\ Left = {} \/ MoveFails
  /\ pc' = "encode"
  /\ torn' = (torn \/ Left # {})
  /\ UNCHANGED <<jump, crf, probes, status, runs, fileVars, stateVars, history>>

\* The sidecar does not say which CRF this encode was raised from.
Unrecorded == record # sidecar \/ (record = 0 /\ crf # Crf0)

\* A kill of the queue takes the encoder with it.  What it cuts short can be
\* resumed at the right CRF only when that is what the sidecar says.
Kill ==
  /\ Kills /\ pc # "idle"
  /\ pc' = "idle" /\ crf' = 0 /\ probes' = 0 /\ record' = 0
  /\ torn' = (torn \/ (Left # {} /\ (pc = "supersede" \/ jump \/ Unrecorded)))
  /\ UNCHANGED <<jump, status, runs, fileVars, sidecar, tried, history>>

\* Nothing more to do: the output is there, or the starts are used up.
Quiet == pc = "idle" /\ (output # {} \/ runs = MaxRuns) /\ UNCHANGED vars

Advance ==
  \/ SizeStop \/ Succeed \/ Floor \/ Exhaust \/ Persist \/ Reencode
  \/ \E c \in Chunks : EncodeChunk(c) \/ SupersedeChunk(c)

Next == StartRun \/ Advance \/ UserStop \/ Fail \/ Kill \/ Quiet

Spec == Init /\ [][Next]_vars

\* The queue keeps running unless it is killed.
FairSpec == Spec /\ WF_vars(Advance)
-----------------------------------------------------------------------------
(* Properties.                                                             *)

\* "no old-CRF video can leak into the retry": the finished output is encoded
\* at one CRF, whatever ended the runs before it.
OutputIsUniform == Cardinality(output) <= 1

\* The same, for every output that no kill inside the supersede loop, no
\* failed move, no killed jump, no lost record and no given-up run with chunks
\* of a raised CRF left led to.
ResumedOutputIsUniform == ~torn => Cardinality(output) <= 1

\* The never-delete rule of supersede_encoded_chunks: until there is an
\* output, every chunk ever encoded is in the workdir or set aside.
EncodedKept ==
  output = {} => encoded \subseteq aside \cup {<<c, enc[c]>> : c \in Chunks}

\* Why NoReplay and ResumedOutputIsUniform hold.  A record is below the cap;
\* the sidecar's is no smaller than what was tried; an encode is above both.
RecordInv ==
  /\ \A r \in {record, sidecar} :
       r # 0 => Crf0 <= r /\ r < CrfMax /\ history # 0
  /\ tried # {} => sidecar # 0
  /\ \A t \in tried : t <= sidecar
  /\ pc # "idle" => Crf0 <= crf /\ sidecar < crf

\* While nothing is torn, a run encodes at one CRF, and what a kill leaves in
\* the workdir is of the CRF the next run starts at.
UniformInv ==
  ~torn =>
    /\ pc \in {"encode", "stopped"} => \A c \in Chunks : enc[c] \in {0, crf}
    /\ pc = "idle" => \A c \in Chunks : enc[c] \in {0, SeedCrf}
    /\ pc # "idle" /\ ~jump /\ ~Unrecorded => crf = SeedCrf

\* crf_max bounds the escalation (SKILL.md: "stop escalating past this") but
\* for one case: with crf_jump, a crf_step above 1 and a record made by a jump
\* that was clamped, the encode that resumes it starts at last_crf_tried +
\* crf_step, which nothing compares with crf_max.  The step walk stays within
\* it over any kills and restarts.
OverCapOnlyByResume ==
  pc = "encode" /\ crf > CrfMax /\ crf # Crf0 =>
    jump /\ CrfStep > 1 /\ sidecar # 0 /\ crf = sidecar + CrfStep

\* Why: a step that is recorded was a step within the cap.
CapInv ==
  /\ ~jump /\ sidecar # 0 => sidecar + CrfStep <= CrfMax
  /\ pc = "supersede" => crf <= CrfMax
  /\ OverCapOnlyByResume

CrfInv ==
  /\ TypeOK /\ RecordInv /\ UniformInv /\ CapInv
  /\ ResumedOutputIsUniform /\ EncodedKept

\* The replay that the escalation record is there to prevent: a CRF recorded
\* as stopped is not encoded again until the record is cleared.
NoReplay == pc = "encode" => crf \notin tried

\* The escalation loop ends: the clamp to crf_max cannot make it spin.
EscalationEnds == pc # "idle" ~> pc = "idle"
=============================================================================
