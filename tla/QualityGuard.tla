---------------------------- MODULE QualityGuard ----------------------------
(***************************************************************************)
(* The per-chunk VMAF guard (encode_modules/quality_guard.py): one thread  *)
(* that takes finished chunks from its own queue, measures each one and    *)
(* decides.  Encoder workers submit(), the orchestrator stop()s.  What     *)
(* on_abort does to the encoders belongs to the module that composes the   *)
(* guard with them (ParallelEncode): here the thread only reaches the      *)
(* control point "notify".                                                 *)
(***************************************************************************)
EXTENDS Naturals, Sequences

CONSTANTS
  Chunks,      \* the chunks of the file being encoded
  First,       \* the first chunk in temporal order (chunk_idx = 0)
  GuardOn,     \* TRUE iff --visual-quality-threshold is set
  InfraLimit,  \* _CONSECUTIVE_INFRA_FAILS_BEFORE_ABORT (3 in the code)
  Sentinel,    \* the None that stop() puts on the queue
  NoChunk      \* no chunk

ASSUME GuardAssumption ==
  /\ First \in Chunks
  /\ GuardOn \in BOOLEAN
  /\ InfraLimit \in Nat \ {0}
  /\ Sentinel \notin Chunks
  /\ NoChunk \notin Chunks
  /\ NoChunk # Sentinel

VARIABLES
  gq,        \* _work_q
  gpc,       \* where the guard thread is
  gcur,      \* the chunk it is measuring, or aborting for
  infra,     \* _consecutive_infra_fails
  gaborted,  \* _aborted
  decision   \* the verdict mirrored into the chunk-metrics log

guardVars == <<gq, gpc, gcur, infra, gaborted, decision>>

Decisions == {"none", "ok", "warmup-grace", "abort", "infra-fail"}

\* "reaped": a measurement whose ffmpeg a timed-out stop() has terminated.
\* "notify", "flag", "sweep": the three steps of on_abort.
GuardPCs == {"idle", "measuring", "reaped", "notify", "flag", "sweep", "gone"}

GuardTypeOK ==
  /\ gq \in Seq(Chunks \cup {Sentinel})
  /\ gpc \in GuardPCs
  /\ gcur \in Chunks \cup {NoChunk}
  /\ infra \in 0..InfraLimit
  /\ gaborted \in BOOLEAN
  /\ decision \in [Chunks -> Decisions]

GuardInit ==
  /\ gq = <<>>
  /\ gpc = IF GuardOn THEN "idle" ELSE "gone"
  /\ gcur = NoChunk
  /\ infra = 0
  /\ gaborted = FALSE
  /\ decision = [c \in Chunks |-> "none"]

-----------------------------------------------------------------------------
(* Calls made by other threads.                                            *)

\* submit(): no effect without a threshold or after an abort.
Submit(c) ==
  /\ gq' = IF GuardOn /\ ~gaborted THEN Append(gq, c) ELSE gq
  /\ UNCHANGED <<gpc, gcur, infra, gaborted, decision>>

\* stop(), up to the join: the sentinel goes behind whatever is still queued.
PutSentinel ==
  /\ gq' = IF GuardOn THEN Append(gq, Sentinel) ELSE gq
  /\ UNCHANGED <<gpc, gcur, infra, gaborted, decision>>

\* stop(), when the join timed out: only the measurement in flight is
\* terminated, and stop() returns whatever the thread still has queued.
ReapInflight ==
  /\ gpc' = IF gpc = "measuring" THEN "reaped" ELSE gpc
  /\ UNCHANGED <<gq, gcur, infra, gaborted, decision>>

-----------------------------------------------------------------------------
(* The guard thread.                                                       *)

\* _run: take one item; the sentinel ends the thread, and after an abort an
\* item is dropped unmeasured.
GuardTake ==
  /\ gpc = "idle" /\ gq # <<>>
  /\ gq' = Tail(gq)
  /\ \/ /\ Head(gq) = Sentinel
        /\ gpc' = "gone" /\ UNCHANGED gcur
     \/ /\ Head(gq) # Sentinel /\ gaborted
        /\ UNCHANGED <<gpc, gcur>>
     \/ /\ Head(gq) # Sentinel /\ ~gaborted
        /\ gpc' = "measuring" /\ gcur' = Head(gq)
  /\ UNCHANGED <<infra, gaborted, decision>>

\* _quality_check_run has no score to return, on any failure and after a
\* terminated ffmpeg; or it has one.
NoScore == gpc \in {"measuring", "reaped"}
Score == gpc = "measuring"

\* _process_one without a score: tolerated up to the limit, then the file is
\* aborted loudly.
GuardInfraFail ==
  /\ NoScore
  /\ infra' = infra + 1
  /\ decision' = [decision EXCEPT ![gcur] = "infra-fail"]
  /\ IF infra + 1 >= InfraLimit
       THEN gaborted' = TRUE  /\ gpc' = "notify" /\ UNCHANGED gcur
       ELSE gaborted' = gaborted /\ gpc' = "idle" /\ gcur' = NoChunk
  /\ UNCHANGED gq

\* A score at or above the threshold, or any score of the first chunk.
GuardPass ==
  /\ Score
  /\ infra' = 0
  /\ decision' = [decision EXCEPT ![gcur] =
                    IF gcur = First THEN "warmup-grace" ELSE "ok"]
  /\ gpc' = "idle" /\ gcur' = NoChunk
  /\ UNCHANGED <<gq, gaborted>>

\* A score below the threshold: _aborted is set before on_abort is called.
GuardFail ==
  /\ Score /\ gcur # First
  /\ infra' = 0
  /\ decision' = [decision EXCEPT ![gcur] = "abort"]
  /\ gaborted' = TRUE
  /\ gpc' = "notify"
  /\ UNCHANGED <<gq, gcur>>

\* The thread measures only before an abort, and the limit is reached only by
\* aborting.
GuardInv ==
  /\ gpc \in {"measuring", "reaped"} => ~gaborted
  /\ gpc \in {"notify", "flag", "sweep"} => gaborted
  /\ gpc \in {"measuring", "reaped", "notify", "flag", "sweep"} => gcur # NoChunk
  /\ ~gaborted => infra < InfraLimit

GuardStep == GuardTake \/ GuardInfraFail \/ GuardPass \/ GuardFail
=============================================================================
