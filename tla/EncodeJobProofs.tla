-------------------------- MODULE EncodeJobProofs --------------------------
(***************************************************************************)
(* EncodeJob keeps the promise of ResumableJob, for any number of chunks,  *)
(* attempts and starts and any option sets: FaultInv is inductive under    *)
(* every fault, JobInv if quarantine renames succeed (~ChunkLocked; one    *)
(* that fails lets a run go on without an output).  JobInv implies         *)
(* OkIsVerified, and under it every step of the pipeline is a step of      *)
(* ResumableJob or a stutter.                                              *)
(***************************************************************************)
EXTENDS EncodeJob, SequenceTheorems, TLAPS

\* Next, one disjunct per action.
LEMMA Actions ==
  ASSUME [Next]_vars
  PROVE
    \/ Start \/ PreFlight \/ AutoPatch \/ SplitSource \/ MarkSplit \/ Begin
    \/ \E c \in Chunks : EncodeChunk(c)
    \/ \E c \in Chunks : EncodeFails(c)
    \/ StopByUser \/ AbortEncode \/ EncodeReturns
    \/ CheckChunks \/ Concat \/ Verify
    \/ RemuxAside \/ RemuxSwap \/ Reverify \/ VerifyFailed
    \/ Finalize \/ FlushRow \/ FireJobEnd \/ FireFileComplete
    \/ DeleteCache \/ Cleanup \/ MoveOutput \/ MoveSource \/ Summary \/ Exit
    \/ AskFinish \/ Kill \/ UserDeletesOutput
    \/ UNCHANGED vars
  BY DEF Next, Program, Prepare, Encode, Judge, Report, Deliver

LEMMA ReadyIsTodo == Ready \subseteq Todo
  BY DEF Ready

\* Only a complete output is accepted, or found to have bad timestamps only.
LEMMA VerdictIsSound ==
  ASSUME NEW f, NEW v \in Verdicts(f)
  PROVE  v \in {"clean", "dts", "bad"} /\ (v # "bad" => f.of = Complete)
  BY DEF Verdicts, Structural, DecodeWalk

LEMMA FilesType ==
  /\ NoFile \in Files /\ NoFile.seen = "none" /\ NoFile.of = {}
  /\ \A f \in Files : f.seen \in {"none", "unseen", "clean", "bad"}
  BY DEF Files, NoFile

LEMMA SeenType ==
  ASSUME NEW f \in Files, NEW s \in {"unseen", "clean", "bad"}
  PROVE  /\ [f EXCEPT !.seen = s] \in Files
         /\ [f EXCEPT !.seen = s].seen = s
         /\ [f EXCEPT !.seen = s].of = f.of
  BY DEF Files, NoFile

LEMMA ToldType ==
  /\ << >> \in Seq(Events)
  /\ \A s \in Seq(Events), e \in Events : Append(s, e) \in Seq(Events)
  BY AppendProperties

LEMMA InitInv == Init => JobInv
<1> SUFFICES ASSUME Init PROVE JobInv
  OBVIOUS
<1> USE JobAssumption, FilesType, ToldType DEF Init
<1>1. TypeOK
  <2>1. enc \in [Chunks -> Grades \cup {"none"}]
    OBVIOUS
  <2>2. {dst, archived} \cup beside \subseteq Files /\ told \in Seq(Events)
    OBVIOUS
  <2>3. pc \in PCs /\ status \in Statuses
    BY DEF PCs, Statuses
  <2>4. attempt \in 1..MaxAttempts /\ runs \in 0..MaxRuns
    OBVIOUS
  <2> QED BY <2>1, <2>2, <2>3, <2>4 DEF TypeOK
<1>2. PlaceInv
  BY DEF PlaceInv, Working, Judging
<1>3. JudgeInv
  BY DEF JudgeInv, Judging
<1>4. DeliverInv
  BY DEF DeliverInv, Delivering
<1>5. SeenInv /\ ToldInv /\ CodeInv
  BY DEF SeenInv, ToldInv, CodeInv, OkExitsZero, Working, Judging
<1> QED BY <1>1, <1>2, <1>3, <1>4, <1>5 DEF JobInv, FaultInv

(***************************************************************************)
(* One step: types.                                                        *)
(***************************************************************************)
LEMMA TypeSteps ==
  ASSUME TypeOK, JudgeInv, [Next]_vars PROVE TypeOK'
<1> USE JobAssumption
    DEF TypeOK, workVars, outVars, doneVars, recVars, runVars
<1>1. CASE UNCHANGED vars
  BY <1>1 DEF vars
<1>2. CASE Start
  <2>1. runs' \in 0..MaxRuns
    BY <1>2 DEF Start
  <2>2. rc' \in {NoExit, 0, 1} /\ pc' \in {"preflight", "exit"}
    BY <1>2 DEF Start, LeaveSilently
  <2>3. told' \in Seq(Events) /\ status' \in Statuses
    BY <1>2, ToldType DEF Start, Statuses
  <2> QED BY <1>2, <2>1, <2>2, <2>3 DEF Start, PCs, ExitCodes
<1>3. CASE PreFlight
  BY <1>3 DEF PreFlight, ScanVerdicts, WriteCache, PreFlightFailed, Leave,
     PCs, Statuses, ExitCodes
<1>4. CASE AutoPatch
  BY <1>4 DEF AutoPatch, PreFlightFailed, Leave, PCs, Statuses, ExitCodes
<1>5. CASE SplitSource
  BY <1>5 DEF SplitSource, LeaveSilently, PCs, ExitCodes
<1>6. CASE MarkSplit \/ Begin
  BY <1>6 DEF MarkSplit, Begin, PCs, Statuses
<1>7. ASSUME NEW c \in Chunks, EncodeChunk(c) PROVE TypeOK'
  BY <1>7 DEF EncodeChunk, SetPartAside
<1>8. ASSUME NEW c \in Chunks, EncodeFails(c) PROVE TypeOK'
  BY <1>8 DEF EncodeFails, Leave, PCs, Statuses, ExitCodes
<1>9. CASE StopByUser
  BY <1>9 DEF StopByUser, Leave, PCs, Statuses, ExitCodes
<1>10. CASE AbortEncode
  BY <1>10 DEF AbortEncode, Leave, PCs, Statuses, ExitCodes
<1>11. CASE EncodeReturns \/ AskFinish
  BY <1>11 DEF EncodeReturns, AskFinish, PCs
<1>12. CASE CheckChunks
  BY <1>12 DEF CheckChunks, BadChunks, QuarantineChunks, MoreAttempts,
     NextAttempt, Encoded, PCs
<1>13. CASE Concat
  <2>1. \A c \in srcs : enc[c] \in Grades
    BY <1>13 DEF Concat, JudgeInv, Todo, Encoded
  <2>2. [of |-> {<<c, enc[c]>> : c \in srcs}, seen |-> "unseen"] \in Files
    BY <2>1 DEF Files
  <2> QED BY <1>13, <2>2 DEF Concat, Leave, PCs, ExitCodes
<1>14. CASE Verify \/ Reverify
  <2>1. PICK s \in {"clean", "bad"} : dst' = [dst EXCEPT !.seen = s]
    BY <1>14, VerdictIsSound DEF Verify, Reverify
  <2>2. pc' \in PCs
    BY <1>14, VerdictIsSound DEF Verify, Reverify, PCs
  <2>3. dst' \in Files
    BY <2>1, SeenType
  <2> QED BY <1>14, <2>2, <2>3 DEF Verify, Reverify
<1>15. CASE RemuxAside
  BY <1>15, FilesType DEF RemuxAside, SetOutputAside, PCs
<1>16. CASE RemuxSwap
  <2>1. dst' \in Files /\ beside' \subseteq beside
    BY <1>16, SeenType DEF RemuxSwap
  <2> QED BY <1>16, <2>1 DEF RemuxSwap, PCs
<1>17. CASE VerifyFailed
  BY <1>17, FilesType
  DEF VerifyFailed, SetOutputAside, Leave, PCs, Statuses, ExitCodes
<1>18. CASE Finalize
  BY <1>18 DEF Finalize, PCs, Statuses
<1>19. CASE FlushRow
  BY <1>19, ToldType DEF FlushRow, AppendRecord, Events, PCs
<1>20. CASE FireJobEnd \/ FireFileComplete
  BY <1>20, ToldType DEF FireJobEnd, FireFileComplete, RunHook, Events, PCs
<1>21. CASE DeleteCache \/ Summary
  BY <1>21 DEF DeleteCache, Summary, PCs, ExitCodes
<1>22. CASE Cleanup
  BY <1>22 DEF Cleanup, RemoveSome, PCs
<1>23. CASE MoveOutput \/ MoveSource
  BY <1>23, FilesType DEF MoveOutput, MoveSource, PCs
<1>24. CASE Exit
  BY <1>24 DEF Exit, PCs
<1>25. CASE Kill
  <2> DEFINE WorkType ==
        /\ split' \in BOOLEAN /\ srcs' \subseteq Chunks
        /\ enc' \in [Chunks -> Grades \cup {"none"}]
        /\ part' \subseteq Chunks
        /\ aside' \subseteq Chunks \X (Grades \cup {"part"})
        /\ finish' \in BOOLEAN /\ blocked' \in BOOLEAN
  <2>1. /\ pc' \in PCs /\ status' \in Statuses /\ told' \in Seq(Events)
        /\ written' = FALSE /\ beside' = {} /\ attempt' = 1
        /\ rc' = NoExit /\ last' = Killed
        /\ UNCHANGED <<job, cache, dst, source, archived, runs>>
    BY <1>25, ToldType DEF Kill, PCs, Statuses
  <2>2. ASSUME UNCHANGED <<split, srcs, enc, part, aside, finish>>,
               blocked' = TRUE \/ UNCHANGED blocked
        PROVE  WorkType
    BY <2>2
  <2>3. ASSUME \E some \in SUBSET Chunks : srcs' = srcs \cup some,
               UNCHANGED <<split, enc, part, aside, finish, blocked>>
        PROVE  WorkType
    BY <2>3
  <2>4. ASSUME \E c \in Ready : part' = part \cup {c},
               UNCHANGED <<split, srcs, enc, aside, finish, blocked>>
        PROVE  WorkType
    BY <2>4, ReadyIsTodo DEF Todo
  <2>5. ASSUME RemoveSome, UNCHANGED blocked
        PROVE  WorkType
    <3>1. PICK left \in SUBSET Chunks :
            enc' = [c \in Chunks |-> IF c \in left THEN enc[c] ELSE "none"]
      BY <2>5 DEF RemoveSome
    <3>2. enc' \in [Chunks -> Grades \cup {"none"}]
      BY <3>1
    <3> QED BY <2>5, <3>2 DEF RemoveSome
  <2>6. WorkType
    <3> HIDE DEF WorkType
    <3> QED BY <1>25, <2>2, <2>3, <2>4, <2>5 DEF Kill
  <2>7. attempt' \in 1..MaxAttempts
    BY <2>1
  <2>8. ({dst, archived} \cup beside)' \subseteq Files
    BY <2>1
  <2> QED BY <2>1, <2>6, <2>7, <2>8
<1>26. CASE UserDeletesOutput
  BY <1>26, FilesType DEF UserDeletesOutput
<1> QED BY <1>1, <1>2, <1>3, <1>4, <1>5, <1>6, <1>7, <1>8, <1>9, <1>10,
           <1>11, <1>12, <1>13, <1>14, <1>15, <1>16, <1>17, <1>18, <1>19,
           <1>20, <1>21, <1>22, <1>23, <1>24, <1>25, <1>26, Actions

(***************************************************************************)
(* One step: where the output is.                                          *)
(***************************************************************************)
LEMMA PlaceSteps ==
  ASSUME TypeOK, PlaceInv, [Next]_vars PROVE PlaceInv'
<1> USE DEF PlaceInv, Working, Judging, Delivering, NoExit,
            outVars, doneVars, runVars
<1>1. CASE UNCHANGED vars
  BY <1>1 DEF vars
<1>2. CASE Start
  BY <1>2, FilesType DEF TypeOK, Start, LeaveSilently, Exists
<1>3. CASE PreFlight \/ AutoPatch
  BY <1>3 DEF PreFlight, AutoPatch, PreFlightFailed, Leave
<1>4. CASE SplitSource \/ MarkSplit \/ Begin
  BY <1>4 DEF SplitSource, MarkSplit, Begin, LeaveSilently
<1>5. CASE \E c \in Chunks : EncodeChunk(c) \/ EncodeFails(c)
  BY <1>5 DEF EncodeChunk, EncodeFails, Leave
<1>6. CASE StopByUser \/ AbortEncode \/ EncodeReturns
  BY <1>6 DEF StopByUser, AbortEncode, EncodeReturns, Leave
<1>7. CASE CheckChunks
  BY <1>7 DEF CheckChunks
<1>8. CASE Concat
  BY <1>8 DEF Concat, Leave
<1>9. CASE Verify \/ Reverify
  BY <1>9, VerdictIsSound DEF Verify, Reverify
<1>10. CASE RemuxAside \/ RemuxSwap
  BY <1>10 DEF RemuxAside, RemuxSwap, SetOutputAside
<1>11. CASE VerifyFailed
  BY <1>11 DEF VerifyFailed, Leave
<1>12. CASE Finalize \/ FlushRow \/ FireJobEnd \/ FireFileComplete
  BY <1>12 DEF Finalize, FlushRow, FireJobEnd, FireFileComplete
<1>13. CASE DeleteCache \/ Cleanup \/ Summary
  BY <1>13 DEF DeleteCache, Cleanup, Summary
<1>14. CASE MoveOutput \/ MoveSource
  BY <1>14 DEF MoveOutput, MoveSource
<1>15. CASE Exit \/ Kill
  BY <1>15 DEF Exit, Kill
<1>16. CASE AskFinish \/ UserDeletesOutput
  BY <1>16 DEF AskFinish, UserDeletesOutput
<1> QED BY <1>1, <1>2, <1>3, <1>4, <1>5, <1>6, <1>7, <1>8, <1>9, <1>10,
           <1>11, <1>12, <1>13, <1>14, <1>15, <1>16, Actions

(***************************************************************************)
(* One step: what is judged, and the verdict.                              *)
(***************************************************************************)
LEMMA JudgeSteps ==
  ASSUME TypeOK, PlaceInv, JudgeInv, [Next]_vars PROVE JudgeInv'
<1> USE DEF JudgeInv, Judging, workVars, outVars, doneVars
<1>1. CASE UNCHANGED vars
  BY <1>1 DEF vars, Todo, Encoded, Content
<1>2. CASE Start
  BY <1>2 DEF Start, LeaveSilently
<1>3. CASE PreFlight \/ AutoPatch
  BY <1>3 DEF PreFlight, AutoPatch, PreFlightFailed, Leave
<1>4. CASE SplitSource \/ MarkSplit \/ Begin
  BY <1>4 DEF SplitSource, MarkSplit, Begin, LeaveSilently
<1>5. CASE \E c \in Chunks : EncodeChunk(c) \/ EncodeFails(c)
  BY <1>5 DEF EncodeChunk, EncodeFails, Leave
<1>6. CASE StopByUser \/ AbortEncode \/ EncodeReturns \/ AskFinish
  BY <1>6 DEF StopByUser, AbortEncode, EncodeReturns, AskFinish, Leave
<1>7. CASE CheckChunks
  <2>1. dst = NoFile /\ UNCHANGED <<srcs, dst, archived>>
    BY <1>7 DEF CheckChunks, PlaceInv, Working
  <2>2. pc' \in {"concat", "encode", "failed", "finalize"}
    BY <1>7 DEF CheckChunks
  <2>3. ASSUME pc' = "concat" PROVE Todo' = {}
    <3>1. Todo = {} /\ \A c \in Chunks : enc'[c] = enc[c]
      BY <1>7, <2>3 DEF CheckChunks, QuarantineChunks
    <3> QED BY <2>1, <3>1 DEF Todo, Encoded, TypeOK
  <2> QED BY <2>1, <2>2, <2>3, FilesType
<1>8. CASE Concat
  BY <1>8 DEF Concat, Leave, Content
<1>9. CASE Verify
  <2>1. PICK v \in Verdicts(dst) :
          /\ dst' = [dst EXCEPT !.seen = IF v = "dts" THEN "bad" ELSE v]
          /\ pc' = CASE v = "clean" -> "finalize"
                     [] v = "dts" -> "remux"
                     [] v = "bad" -> "failed"
    BY <1>9 DEF Verify
  <2>2. v \in {"clean", "dts", "bad"} /\ (v # "bad" => dst.of = Complete)
    BY VerdictIsSound
  <2>3. /\ dst'.of = dst.of
        /\ dst'.seen = "clean" <=> v = "clean"
    BY <2>1, <2>2, SeenType DEF TypeOK
  <2>4. Content' = Content /\ UNCHANGED archived
    BY <1>9 DEF Verify, Content
  <2> QED BY <1>9, <2>1, <2>2, <2>3, <2>4 DEF Verify
<1>10. CASE Reverify
  <2>1. PICK v \in Verdicts(dst) :
          /\ dst' = [dst EXCEPT !.seen = IF v = "clean" THEN v ELSE "bad"]
          /\ pc' = IF v = "clean" THEN "finalize" ELSE "failed"
    BY <1>10 DEF Reverify
  <2>2. v # "bad" => dst.of = Complete
    BY VerdictIsSound
  <2>3. /\ dst'.of = dst.of
        /\ dst'.seen = "clean" <=> v = "clean"
    BY <2>1, SeenType DEF TypeOK
  <2> QED BY <1>10, <2>1, <2>2, <2>3 DEF Reverify
<1>11. CASE RemuxAside
  <2>1. Content' = Content /\ UNCHANGED archived
    BY <1>11 DEF RemuxAside, Content
  <2>2. CASE SetOutputAside /\ pc' = "swap"
    <3>1. dst' = NoFile /\ beside' = {dst}
      BY <1>11, <2>2 DEF RemuxAside, SetOutputAside, PlaceInv
    <3> QED BY <1>11, <2>1, <2>2, <3>1, FilesType DEF RemuxAside
  <2>3. CASE pc' = "failed" /\ UNCHANGED <<dst, beside>>
    BY <1>11, <2>1, <2>3 DEF RemuxAside
  <2> QED BY <1>11, <2>2, <2>3 DEF RemuxAside
<1>12. CASE RemuxSwap
  <2>1. Content' = Content /\ UNCHANGED archived /\ beside' \subseteq beside
    BY <1>12 DEF RemuxSwap, Content
  <2>2. PICK old \in beside :
          \/ dst' = [old EXCEPT !.seen = "unseen"] /\ pc' = "reverify"
          \/ dst' = old /\ pc' = "failed"
          \/ pc' = "failed" /\ UNCHANGED dst
    BY <1>12 DEF RemuxSwap
  <2>3. /\ old.of = Content /\ old.seen # "clean" /\ dst.seen # "clean"
        /\ [old EXCEPT !.seen = "unseen"].seen = "unseen"
        /\ [old EXCEPT !.seen = "unseen"].of = old.of
    BY <1>12, SeenType DEF RemuxSwap, TypeOK
  <2> QED BY <2>1, <2>2, <2>3
<1>13. CASE VerifyFailed
  BY <1>13, FilesType DEF VerifyFailed, SetOutputAside, Leave
<1>14. CASE Finalize \/ FlushRow \/ FireJobEnd \/ FireFileComplete
  BY <1>14 DEF Finalize, FlushRow, FireJobEnd, FireFileComplete
<1>15. CASE DeleteCache \/ Cleanup \/ Summary
  BY <1>15 DEF DeleteCache, Cleanup, Summary
<1>16. CASE MoveOutput \/ MoveSource
  BY <1>16, FilesType DEF MoveOutput, MoveSource
<1>17. CASE Exit \/ Kill
  BY <1>17 DEF Exit, Kill
<1>18. CASE UserDeletesOutput
  BY <1>18, FilesType DEF UserDeletesOutput
<1> QED BY <1>1, <1>2, <1>3, <1>4, <1>5, <1>6, <1>7, <1>8, <1>9, <1>10,
           <1>11, <1>12, <1>13, <1>14, <1>15, <1>16, <1>17, <1>18, Actions

(***************************************************************************)
(* One step: what is called "ok" and delivered.                            *)
(***************************************************************************)
LEMMA DeliverSteps ==
  ASSUME ~ChunkLocked, TypeOK, PlaceInv, JudgeInv, DeliverInv, [Next]_vars
  PROVE  DeliverInv'
<1> USE DEF DeliverInv, Delivering, Working, Judging, Verified,
            outVars, doneVars, recVars, runVars
<1>1. CASE UNCHANGED vars
  BY <1>1 DEF vars
<1>2. CASE Start
  BY <1>2 DEF Start, LeaveSilently
<1>3. CASE PreFlight \/ AutoPatch
  BY <1>3 DEF PreFlight, AutoPatch, PreFlightFailed, Leave, NoExit
<1>4. CASE SplitSource \/ MarkSplit \/ Begin
  BY <1>4 DEF SplitSource, MarkSplit, Begin, LeaveSilently
<1>5. CASE \E c \in Chunks : EncodeChunk(c) \/ EncodeFails(c)
  BY <1>5 DEF EncodeChunk, EncodeFails, Leave, NoExit
<1>6. CASE StopByUser \/ AbortEncode \/ EncodeReturns \/ AskFinish
  BY <1>6 DEF StopByUser, AbortEncode, EncodeReturns, AskFinish, Leave, NoExit
<1>7. CASE CheckChunks
  <2>1. PICK bad \in BadChunks :
          pc' = CASE Todo \cup bad = {} -> "concat"
                  [] Todo \cup bad # {} /\ MoreAttempts -> "encode"
                  [] OTHER -> IF Todo \cup bad # {} THEN "failed"
                                                   ELSE "finalize"
    BY <1>7 DEF CheckChunks
  <2>2. pc' \in {"concat", "encode", "failed"}
    BY <2>1
  <2> QED BY <1>7, <2>2 DEF CheckChunks
<1>8. CASE Concat
  BY <1>8 DEF Concat, Leave, NoExit
<1>9. CASE Verify
  <2>1. PICK v \in Verdicts(dst) :
          /\ dst' = [dst EXCEPT !.seen = IF v = "dts" THEN "bad" ELSE v]
          /\ pc' = CASE v = "clean" -> "finalize"
                     [] v = "dts" -> "remux"
                     [] v = "bad" -> "failed"
    BY <1>9 DEF Verify
  <2>2. v \in {"clean", "dts", "bad"} /\ (v = "clean" => dst'.seen = "clean")
    BY <2>1, VerdictIsSound, SeenType DEF TypeOK
  <2> QED BY <1>9, <2>1, <2>2 DEF Verify, PlaceInv
<1>10. CASE Reverify
  <2>1. PICK v \in Verdicts(dst) :
          /\ dst' = [dst EXCEPT !.seen = IF v = "clean" THEN v ELSE "bad"]
          /\ pc' = IF v = "clean" THEN "finalize" ELSE "failed"
    BY <1>10 DEF Reverify
  <2>2. v = "clean" => dst'.seen = "clean"
    BY <2>1, SeenType DEF TypeOK
  <2> QED BY <1>10, <2>1, <2>2 DEF Reverify, PlaceInv
<1>11. CASE RemuxAside \/ RemuxSwap
  BY <1>11 DEF RemuxAside, RemuxSwap
<1>12. CASE VerifyFailed
  BY <1>12 DEF VerifyFailed, Leave, NoExit
<1>13. CASE Finalize
  BY <1>13 DEF Finalize
<1>14. CASE FlushRow \/ FireJobEnd \/ FireFileComplete
  BY <1>14 DEF FlushRow, FireJobEnd, FireFileComplete
<1>15. CASE DeleteCache \/ Cleanup
  BY <1>15 DEF DeleteCache, Cleanup
<1>16. CASE MoveOutput \/ MoveSource
  BY <1>16 DEF MoveOutput, MoveSource
<1>17. CASE Summary
  BY <1>17 DEF Summary, NoExit
<1>18. CASE Exit \/ Kill
  BY <1>18 DEF Exit, Kill
<1>19. CASE UserDeletesOutput
  BY <1>19 DEF UserDeletesOutput
<1> QED BY <1>1, <1>2, <1>3, <1>4, <1>5, <1>6, <1>7, <1>8, <1>9, <1>10,
           <1>11, <1>12, <1>13, <1>14, <1>15, <1>16, <1>17, <1>18, <1>19,
           Actions

(***************************************************************************)
(* One step: what is judged, said and returned.                            *)
(***************************************************************************)
LEMMA SeenSteps ==
  ASSUME TypeOK, PlaceInv, SeenInv, [Next]_vars PROVE SeenInv'
<1> USE DEF SeenInv, outVars, recVars
<1>1. CASE UNCHANGED vars
  BY <1>1 DEF vars
<1>2. CASE Start
  BY <1>2, FilesType DEF Start, LeaveSilently, Exists
<1>3. CASE PreFlight \/ AutoPatch
  BY <1>3 DEF PreFlight, AutoPatch, PreFlightFailed, Leave
<1>4. CASE SplitSource \/ MarkSplit \/ Begin
  BY <1>4 DEF SplitSource, MarkSplit, Begin, LeaveSilently
<1>5. CASE \E c \in Chunks : EncodeChunk(c) \/ EncodeFails(c)
  BY <1>5 DEF EncodeChunk, EncodeFails, Leave
<1>6. CASE StopByUser \/ AbortEncode \/ EncodeReturns \/ AskFinish
  BY <1>6 DEF StopByUser, AbortEncode, EncodeReturns, AskFinish, Leave
<1>7. CASE CheckChunks
  BY <1>7 DEF CheckChunks
<1>8. CASE Concat
  BY <1>8 DEF Concat, Leave
<1>9. CASE Verify
  <2>1. PICK v \in Verdicts(dst) :
          /\ dst' = [dst EXCEPT !.seen = IF v = "dts" THEN "bad" ELSE v]
          /\ pc' = CASE v = "clean" -> "finalize"
                     [] v = "dts" -> "remux"
                     [] v = "bad" -> "failed"
    BY <1>9 DEF Verify
  <2>2. /\ v \in {"clean", "dts", "bad"}
        /\ dst'.seen = IF v = "clean" THEN "clean" ELSE "bad"
    BY <2>1, VerdictIsSound, SeenType DEF TypeOK
  <2> QED BY <2>1, <2>2
<1>10. CASE Reverify
  <2>1. PICK v \in Verdicts(dst) :
          /\ dst' = [dst EXCEPT !.seen = IF v = "clean" THEN v ELSE "bad"]
          /\ pc' = IF v = "clean" THEN "finalize" ELSE "failed"
    BY <1>10 DEF Reverify
  <2>2. dst'.seen \in {"clean", "bad"}
    BY <2>1, SeenType DEF TypeOK
  <2> QED BY <2>1, <2>2
<1>11. CASE RemuxAside
  BY <1>11, FilesType DEF RemuxAside, SetOutputAside, PlaceInv
<1>12. CASE RemuxSwap
  BY <1>12 DEF RemuxSwap
<1>13. CASE VerifyFailed
  BY <1>13, FilesType DEF VerifyFailed, SetOutputAside, Leave
<1>14. CASE Finalize \/ FlushRow \/ FireJobEnd \/ FireFileComplete
  BY <1>14 DEF Finalize, FlushRow, FireJobEnd, FireFileComplete
<1>15. CASE DeleteCache \/ Cleanup \/ Summary
  BY <1>15 DEF DeleteCache, Cleanup, Summary
<1>16. CASE MoveOutput \/ MoveSource
  BY <1>16, FilesType DEF MoveOutput, MoveSource
<1>17. CASE Exit \/ Kill
  BY <1>17 DEF Exit, Kill
<1>18. CASE UserDeletesOutput
  BY <1>18, FilesType DEF UserDeletesOutput
<1> QED BY <1>1, <1>2, <1>3, <1>4, <1>5, <1>6, <1>7, <1>8, <1>9, <1>10,
           <1>11, <1>12, <1>13, <1>14, <1>15, <1>16, <1>17, <1>18, Actions

\* Appending to a short sequence that is written out.
LEMMA AppendOne ==
  ASSUME NEW a, NEW b
  PROVE  Append(<<a>>, b) = <<a, b>>
<1> DEFINE S == {a, b}
<1>1. /\ <<a>> \in Seq(S) /\ <<a, b>> \in Seq(S)
      /\ Len(<<a>>) = 1 /\ Len(<<a, b>>) = 2
  OBVIOUS
<1>2. Append(<<a>>, b) \in Seq(S) /\ Len(Append(<<a>>, b)) = 2
      /\ Append(<<a>>, b)[1] = a /\ Append(<<a>>, b)[2] = b
  BY <1>1, AppendProperties
<1>3. \A i \in 1..Len(<<a, b>>) : Append(<<a>>, b)[i] = <<a, b>>[i]
  BY <1>1, <1>2
<1> HIDE DEF S
<1> QED BY <1>1, <1>2, <1>3, SeqEqual

LEMMA AppendTwo ==
  ASSUME NEW a, NEW b, NEW c
  PROVE  Append(<<a, b>>, c) = <<a, b, c>>
<1> DEFINE S == {a, b, c}
<1>1. /\ <<a, b>> \in Seq(S) /\ <<a, b, c>> \in Seq(S)
      /\ Len(<<a, b>>) = 2 /\ Len(<<a, b, c>>) = 3
  OBVIOUS
<1>2. LET s == Append(<<a, b>>, c)
      IN  s \in Seq(S) /\ Len(s) = 3 /\ s[1] = a /\ s[2] = b /\ s[3] = c
  BY <1>1, AppendProperties
<1>3. \A i \in 1..3 : Append(<<a, b>>, c)[i] = <<a, b, c>>[i]
  BY <1>1, <1>2
<1> HIDE DEF S
<1> QED BY <1>1, <1>2, <1>3, SeqEqual

\* A row and what follows it, written out.
LEMMA RowFirst ==
  /\ <<"row">> \o << >> = <<"row">>
  /\ <<"row">> \o <<"job_end">> = <<"row", "job_end">>
  /\ <<"row">> \o <<"job_end", "file_complete">> =
       <<"row", "job_end", "file_complete">>
  /\ \A s \in Seq(Events) : << >> \o s = s
<1>1. /\ <<"row">> \in Seq(Events) /\ <<"job_end">> \in Seq(Events)
      /\ <<"job_end", "file_complete">> \in Seq(Events)
      /\ <<"row", "job_end">> \in Seq(Events)
      /\ <<"row", "job_end", "file_complete">> \in Seq(Events)
      /\ << >> \in Seq(Events)
      /\ Len(<<"row", "job_end">>) = 2
      /\ Len(<<"row", "job_end", "file_complete">>) = 3
  BY DEF Events
<1>2. <<"row">> \o <<"job_end">> = <<"row", "job_end">>
  <2>1. LET s == <<"row">> \o <<"job_end">>
        IN  s \in Seq(Events) /\ Len(s) = 2 /\ s[1] = "row" /\ s[2] = "job_end"
    BY <1>1, ConcatProperties
  <2>2. \A i \in 1..2 :
          (<<"row">> \o <<"job_end">>)[i] = <<"row", "job_end">>[i]
    BY <2>1
  <2> QED BY <1>1, <2>1, <2>2, SeqEqual
<1>3. <<"row">> \o <<"job_end", "file_complete">> =
        <<"row", "job_end", "file_complete">>
  <2>1. LET s == <<"row">> \o <<"job_end", "file_complete">>
        IN  s \in Seq(Events) /\ Len(s) = 3 /\ s[1] = "row"
            /\ s[2] = "job_end" /\ s[3] = "file_complete"
    BY <1>1, ConcatProperties
  <2>2. \A i \in 1..3 : (<<"row">> \o <<"job_end", "file_complete">>)[i] =
                          <<"row", "job_end", "file_complete">>[i]
    BY <2>1
  <2> QED BY <1>1, <2>1, <2>2, SeqEqual
<1>4. \A s \in Seq(Events) : << >> \o s = s /\ s \o << >> = s
  BY ConcatEmptySeq
<1> QED BY <1>1, <1>2, <1>3, <1>4

\* What AppendRecord and RunHook make of the few things said so far.
LEMMA Tellings ==
  /\ Append(<< >>, "row") = <<"row">>
  /\ \A s \in {<< >>, <<"row">>} : Append(s, "job_end") \in ToldFor("none")
  /\ \A s \in ToldFor("none") : Append(s, "file_complete") \in ToldFor("ok")
  /\ \A s : s # "ok" => ToldFor(s) = ToldFor("none")
<1>1. /\ Append(<< >>, "row") = <<"row">>
      /\ Append(<< >>, "job_end") = <<"job_end">>
  OBVIOUS
<1>2. Append(<<"row">>, "job_end") = <<"row", "job_end">>
  BY AppendOne
<1>3. Append(<<"job_end">>, "file_complete") = <<"job_end", "file_complete">>
  BY AppendOne
<1>4. Append(<<"row", "job_end">>, "file_complete") =
        <<"row", "job_end", "file_complete">>
  BY AppendTwo
<1> QED BY <1>1, <1>2, <1>3, <1>4, Zenon DEF ToldFor

LEMMA ToldSteps ==
  ASSUME PlaceInv, DeliverInv, ToldInv, CodeInv, [Next]_vars PROVE ToldInv'
<1> USE DEF ToldInv, recVars
<1>1. CASE UNCHANGED vars
  BY <1>1 DEF vars
<1>2. CASE Start
  BY <1>2 DEF Start, LeaveSilently, Working, Judging
<1>3. CASE PreFlight \/ AutoPatch
  BY <1>3 DEF PreFlight, AutoPatch, PreFlightFailed, Leave, Working, Judging
<1>4. CASE SplitSource \/ MarkSplit \/ Begin
  BY <1>4 DEF SplitSource, MarkSplit, Begin, LeaveSilently, Working, Judging
<1>5. CASE \E c \in Chunks : EncodeChunk(c) \/ EncodeFails(c)
  BY <1>5 DEF EncodeChunk, EncodeFails, Leave, Working, Judging
<1>6. CASE StopByUser \/ AbortEncode \/ EncodeReturns \/ AskFinish
  BY <1>6 DEF StopByUser, AbortEncode, EncodeReturns, AskFinish, Leave,
     Working, Judging
<1>7. CASE CheckChunks \/ Concat
  BY <1>7 DEF CheckChunks, Concat, Leave, Working, Judging
<1>8. CASE Verify \/ Reverify
  BY <1>8, VerdictIsSound DEF Verify, Reverify, Working, Judging
<1>9. CASE RemuxAside \/ RemuxSwap \/ VerifyFailed
  BY <1>9 DEF RemuxAside, RemuxSwap, VerifyFailed, Leave, Working, Judging
<1>10. CASE Finalize
  BY <1>10 DEF Finalize, Working, Judging
<1>11. CASE FlushRow
  BY <1>11, Tellings
  DEF FlushRow, Flushed, AppendRecord, CodeInv, Working, Judging
<1>12. CASE FireJobEnd
  BY <1>12, Tellings DEF FireJobEnd, RunHook, Working, Judging
<1>13. CASE FireFileComplete
  <2>1. status = "ok" => Exists(dst)
    BY <1>13, FilesType
    DEF FireFileComplete, CodeInv, DeliverInv, Delivering, Exists
  <2>2. /\ told' \in ToldFor(status) /\ written' /\ UNCHANGED status
        /\ pc' = IF status = "ok" THEN "tidy" ELSE "exit"
        /\ status # "none"
    BY <1>13, <2>1, Tellings DEF FireFileComplete, RunHook, CodeInv
  <2> QED BY <2>2 DEF Working, Judging
<1>14. CASE DeleteCache \/ Cleanup \/ Summary
  BY <1>14 DEF DeleteCache, Cleanup, Summary, CodeInv, Working, Judging
<1>15. CASE MoveOutput \/ MoveSource
  BY <1>15 DEF MoveOutput, MoveSource, Working, Judging
<1>16. CASE Exit \/ Kill
  BY <1>16 DEF Exit, Kill, Working, Judging
<1>17. CASE UserDeletesOutput
  BY <1>17 DEF UserDeletesOutput, Working, Judging
<1> QED BY <1>1, <1>2, <1>3, <1>4, <1>5, <1>6, <1>7, <1>8, <1>9, <1>10,
           <1>11, <1>12, <1>13, <1>14, <1>15, <1>16, <1>17, Actions

LEMMA CodeSteps ==
  ASSUME TypeOK, PlaceInv, DeliverInv, ToldInv, CodeInv, [Next]_vars
  PROVE  CodeInv'
<1> USE DEF CodeInv, OkExitsZero, NoExit, Killed, doneVars, recVars, runVars
<1>1. CASE UNCHANGED vars
  BY <1>1 DEF vars
<1>2. CASE Start
  BY <1>2 DEF Start, LeaveSilently
<1>3. CASE PreFlight \/ AutoPatch
  BY <1>3 DEF PreFlight, AutoPatch, PreFlightFailed, Leave
<1>4. CASE SplitSource \/ MarkSplit \/ Begin
  BY <1>4 DEF SplitSource, MarkSplit, Begin, LeaveSilently, ToldInv
<1>5. CASE \E c \in Chunks : EncodeChunk(c) \/ EncodeFails(c)
  BY <1>5 DEF EncodeChunk, EncodeFails, Leave, ToldInv, Working
<1>6. CASE StopByUser \/ AbortEncode \/ EncodeReturns \/ AskFinish
  BY <1>6 DEF StopByUser, AbortEncode, EncodeReturns, AskFinish, Leave, ToldInv
<1>7. CASE CheckChunks \/ Concat
  BY <1>7 DEF CheckChunks, Concat, Leave, ToldInv, Working
<1>8. CASE Verify \/ Reverify
  BY <1>8, VerdictIsSound DEF Verify, Reverify
<1>9. CASE RemuxAside \/ RemuxSwap \/ VerifyFailed
  BY <1>9 DEF RemuxAside, RemuxSwap, VerifyFailed, Leave
<1>10. CASE Finalize
  BY <1>10 DEF Finalize, PlaceInv, ToldInv
<1>11. CASE FlushRow
  BY <1>11 DEF FlushRow, Flushed
<1>12. CASE FireJobEnd \/ FireFileComplete
  BY <1>12 DEF FireJobEnd, FireFileComplete
<1>13. CASE DeleteCache \/ Cleanup
  BY <1>13 DEF DeleteCache, Cleanup
<1>14. CASE Summary
  <2>1. Verified /\ source \in {"home", "archive"}
    BY <1>14 DEF Summary, ToldInv, DeliverInv, TypeOK
  <2> QED BY <1>14, <2>1, FilesType
      DEF Summary, OutputFound, Verified, Exists, ToldInv
<1>15. CASE MoveOutput \/ MoveSource
  BY <1>15 DEF MoveOutput, MoveSource
<1>16. CASE Exit \/ Kill
  BY <1>16 DEF Exit, Kill
<1>17. CASE UserDeletesOutput
  BY <1>17 DEF UserDeletesOutput
<1> QED BY <1>1, <1>2, <1>3, <1>4, <1>5, <1>6, <1>7, <1>8, <1>9, <1>10,
           <1>11, <1>12, <1>13, <1>14, <1>15, <1>16, <1>17, Actions

LEMMA NextFaultInv == FaultInv /\ [Next]_vars => FaultInv'
  BY TypeSteps, PlaceSteps, JudgeSteps, SeenSteps DEF FaultInv

LEMMA NextInv ==
  ~ChunkLocked => (JobInv /\ [Next]_vars => JobInv')
  BY NextFaultInv, DeliverSteps, ToldSteps, CodeSteps DEF JobInv, FaultInv

(***************************************************************************)
(* One step as a step of ResumableJob.                                     *)
(***************************************************************************)
\* The value of kept.
OnDisk == aside \cup {<<c, enc[c]>> : c \in {d \in Chunks : Encoded(d)}}

LEMMA StutterStep ==
  ASSUME OnDisk' = OnDisk, Verified' <=> Verified, UNCHANGED source
  PROVE  UNCHANGED Promise!vars
  BY DEF Promise!vars, OnDisk

LEMMA KeepStep ==
  ASSUME TypeOK', OnDisk \subseteq OnDisk', Verified' <=> Verified,
         UNCHANGED source
  PROVE  Promise!Keep
<1>1. OnDisk' \subseteq Chunks \X (Grades \cup {"part"})
  BY DEF TypeOK, OnDisk, Encoded
<1>2. OnDisk' = OnDisk \cup OnDisk'
  OBVIOUS
<1> QED BY <1>1, <1>2 DEF Promise!Keep, OnDisk

LEMMA AcceptStep ==
  ASSUME ~Verified, Verified', Complete \subseteq OnDisk, OnDisk' = OnDisk,
         UNCHANGED source
  PROVE  Promise!Accept
  BY DEF Promise!Accept, OnDisk

LEMMA SweepStep ==
  ASSUME Verified, Verified', OnDisk' \subseteq OnDisk, UNCHANGED source
  PROVE  Promise!Sweep
  BY DEF Promise!Sweep, OnDisk

LEMMA WithdrawStep ==
  ASSUME Verified, ~Verified', OnDisk' = OnDisk, source = "home",
         UNCHANGED source
  PROVE  Promise!Withdraw
  BY DEF Promise!Withdraw, OnDisk

LEMMA ArchiveStep ==
  ASSUME Verified, Verified', OnDisk' = OnDisk, source = "home",
         source' = "archive"
  PROVE  Promise!Archive
  BY DEF Promise!Archive, OnDisk

\* A complete output is made of files that are on disk.
LEMMA ContentOnDisk ==
  ASSUME TypeOK, Content = Complete PROVE Complete \subseteq OnDisk
<1> SUFFICES ASSUME NEW c \in Chunks PROVE <<c, "good">> \in OnDisk
  BY DEF Complete
<1>1. <<c, "good">> \in Content
  BY DEF Complete
<1>2. enc[c] = "good"
  BY <1>1 DEF Content
<1> QED BY <1>2 DEF OnDisk, Encoded

\* Encoding and checking only add to what is on disk.
LEMMA EncodeKeeps ==
  ASSUME TypeOK,
         \/ \E c \in Chunks : EncodeChunk(c) \/ EncodeFails(c)
         \/ CheckChunks
  PROVE  /\ OnDisk \subseteq OnDisk'
         /\ Verified' <=> Verified
         /\ UNCHANGED source
<1> USE DEF Verified, outVars, doneVars
<1>1. ASSUME NEW c \in Chunks, EncodeChunk(c) PROVE OnDisk \subseteq OnDisk'
  <2>1. aside \subseteq aside' /\ ~Encoded(c)
    BY <1>1, ReadyIsTodo DEF EncodeChunk, SetPartAside, Todo
  <2>2. \A d \in Chunks : Encoded(d) => enc'[d] = enc[d]
    BY <1>1, <2>1 DEF EncodeChunk, TypeOK
  <2> QED BY <2>1, <2>2 DEF OnDisk, Encoded
<1>2. ASSUME NEW c \in Chunks, EncodeFails(c) PROVE OnDisk \subseteq OnDisk'
  BY <1>2 DEF EncodeFails, OnDisk, Encoded
<1>3. ASSUME CheckChunks PROVE OnDisk \subseteq OnDisk'
  <2>1. PICK moved \in SUBSET UNION BadChunks : QuarantineChunks(moved)
    BY <1>3 DEF CheckChunks
  <2>2. ASSUME NEW d \in Chunks, Encoded(d) PROVE <<d, enc[d]>> \in OnDisk'
    <3>1. CASE d \in moved
      BY <2>1, <3>1 DEF QuarantineChunks, OnDisk
    <3>2. CASE d \notin moved
      BY <2>1, <2>2, <3>2 DEF QuarantineChunks, OnDisk, Encoded
    <3> QED BY <3>1, <3>2
  <2>3. aside \subseteq OnDisk'
    BY <2>1 DEF QuarantineChunks, OnDisk
  <2> QED BY <2>2, <2>3 DEF OnDisk
<1>4. (Verified' <=> Verified) /\ UNCHANGED source
  BY DEF EncodeChunk, EncodeFails, CheckChunks
<1> QED BY <1>1, <1>2, <1>3, <1>4

\* What a removal leaves was there before.
LEMMA RemoveShrinks ==
  ASSUME RemoveSome PROVE OnDisk' \subseteq OnDisk
<1>1. PICK left \in SUBSET Chunks :
        enc' = [c \in Chunks |-> IF c \in left THEN enc[c] ELSE "none"]
  BY DEF RemoveSome
<1>2. \A c \in Chunks : Encoded(c)' => Encoded(c) /\ enc'[c] = enc[c]
  BY <1>1 DEF Encoded
<1> QED BY <1>2 DEF RemoveSome, OnDisk

\* An output the judges accept was made of what is on disk.
LEMMA VerdictAccepts ==
  ASSUME TypeOK, JudgeInv, pc \in {"verify", "reverify"},
         NEW v \in Verdicts(dst), NEW s \in {"clean", "bad"},
         s = "clean" => v = "clean",
         dst' = [dst EXCEPT !.seen = s],
         UNCHANGED <<archived, source, aside, enc>>
  PROVE  Promise!Accept \/ UNCHANGED Promise!vars
<1> USE DEF Verified
<1>1. OnDisk' = OnDisk /\ dst'.seen = s /\ dst.seen # "clean"
  BY SeenType DEF OnDisk, Encoded, TypeOK, JudgeInv, Judging
<1>2. CASE s = "clean" /\ archived.seen # "clean"
  <2>1. Content = Complete
    BY <1>2, VerdictIsSound DEF JudgeInv
  <2> QED BY <1>1, <1>2, <2>1, ContentOnDisk, AcceptStep
<1>3. CASE s = "bad" \/ archived.seen = "clean"
  BY <1>1, <1>3, StutterStep
<1> QED BY <1>2, <1>3

LEMMA PromiseSteps ==
  ASSUME JobInv, TypeOK', [Next]_vars
  PROVE  [Promise!Next]_(Promise!vars)
<1> USE DEF JobInv, FaultInv, workVars, outVars, doneVars
<1>1. CASE \/ \E c \in Chunks : EncodeChunk(c) \/ EncodeFails(c)
           \/ CheckChunks
  BY <1>1, EncodeKeeps, KeepStep DEF Promise!Next
<1>2. CASE Verify
  <2>1. PICK v \in Verdicts(dst) :
          dst' = [dst EXCEPT !.seen = IF v = "dts" THEN "bad" ELSE v]
    BY <1>2 DEF Verify
  <2> DEFINE s == IF v = "dts" THEN "bad" ELSE v
  <2>2. s \in {"clean", "bad"} /\ (s = "clean" => v = "clean")
    BY VerdictIsSound
  <2>3. dst' = [dst EXCEPT !.seen = s]
    BY <2>1
  <2> HIDE DEF s
  <2> QED BY <1>2, <2>2, <2>3, VerdictAccepts DEF Verify, Promise!Next
<1>3. CASE Reverify
  <2>1. PICK v \in Verdicts(dst) :
          dst' = [dst EXCEPT !.seen = IF v = "clean" THEN v ELSE "bad"]
    BY <1>3 DEF Reverify
  <2> DEFINE s == IF v = "clean" THEN v ELSE "bad"
  <2>2. s \in {"clean", "bad"} /\ (s = "clean" => v = "clean")
    OBVIOUS
  <2>3. dst' = [dst EXCEPT !.seen = s]
    BY <2>1
  <2> HIDE DEF s
  <2> QED BY <1>3, <2>2, <2>3, VerdictAccepts DEF Reverify, Promise!Next
<1>4. CASE RemoveSome /\ pc = "sweep" /\ UNCHANGED <<dst, archived, source>>
  <2>1. Verified /\ Verified'
    BY <1>4 DEF DeliverInv, Delivering, Verified
  <2> QED BY <1>4, <2>1, RemoveShrinks, SweepStep DEF Promise!Next
<1>5. CASE MoveOutput
  <2>1. Verified /\ Verified' /\ OnDisk' = OnDisk /\ UNCHANGED source
    BY <1>5 DEF MoveOutput, DeliverInv, Delivering, Verified, OnDisk, Encoded
  <2> QED BY <2>1, StutterStep
<1>6. CASE MoveSource
  <2>1. /\ Verified /\ Verified' /\ OnDisk' = OnDisk
        /\ source = "home" /\ source' \in {"home", "archive"}
    BY <1>6 DEF MoveSource, PlaceInv, DeliverInv, Verified, OnDisk, Encoded
  <2>2. CASE source' = "archive"
    BY <2>1, <2>2, ArchiveStep DEF Promise!Next
  <2>3. CASE source' = "home"
    BY <2>1, <2>3, StutterStep
  <2> QED BY <2>1, <2>2, <2>3
<1>7. CASE UserDeletesOutput
  <2>1. /\ OnDisk' = OnDisk /\ dst'.seen # "clean"
        /\ UNCHANGED <<archived, source>>
    BY <1>7, FilesType DEF UserDeletesOutput, OnDisk, Encoded
  <2>2. CASE archived.seen = "clean" \/ dst.seen # "clean"
    BY <2>1, <2>2, StutterStep DEF Verified
  <2>3. CASE archived.seen # "clean" /\ dst.seen = "clean"
    <3>1. source = "home"
      BY <2>3 DEF TypeOK, DeliverInv
    <3> QED BY <2>1, <2>3, <3>1, WithdrawStep DEF Promise!Next, Verified
  <2> QED BY <2>2, <2>3
<1>8. CASE /\ UNCHANGED <<aside, enc, source, archived>>
           /\ dst'.seen = "clean" <=> dst.seen = "clean"
  BY <1>8, StutterStep DEF Verified, OnDisk, Encoded
<1>9. CASE Concat \/ RemuxAside \/ RemuxSwap \/ VerifyFailed
  <2>1. dst.seen # "clean"
    BY <1>9, FilesType DEF Concat, RemuxAside, RemuxSwap, VerifyFailed,
       PlaceInv, JudgeInv, Working, Judging
  <2>2. dst'.seen # "clean"
    BY <1>9, <2>1, FilesType, SeenType
    DEF Concat, RemuxAside, RemuxSwap, VerifyFailed, SetOutputAside, JudgeInv,
        TypeOK
  <2> QED BY <1>8, <1>9, <2>1, <2>2
      DEF Concat, RemuxAside, RemuxSwap, VerifyFailed
<1>10. CASE Kill
  <2>1. \/ RemoveSome /\ pc = "sweep"
        \/ UNCHANGED <<aside, enc>>
    BY <1>10 DEF Kill
  <2> QED BY <1>4, <1>8, <1>10, <2>1 DEF Kill
<1>11. CASE Cleanup
  BY <1>4, <1>11 DEF Cleanup
<1>12. CASE \/ Start \/ PreFlight \/ AutoPatch \/ SplitSource \/ MarkSplit
            \/ Begin \/ StopByUser \/ AbortEncode \/ EncodeReturns \/ AskFinish
            \/ Finalize \/ FlushRow \/ FireJobEnd \/ FireFileComplete
            \/ DeleteCache \/ Summary \/ Exit \/ UNCHANGED vars
  <2>1. UNCHANGED <<aside, enc, source, archived, dst>>
    BY <1>12 DEF Start, PreFlight, AutoPatch, SplitSource, MarkSplit, Begin,
       StopByUser, AbortEncode, EncodeReturns, AskFinish, Finalize, FlushRow,
       FireJobEnd, FireFileComplete, DeleteCache, Summary, Exit, vars
  <2> QED BY <1>8, <2>1
<1> QED BY <1>1, <1>2, <1>3, <1>5, <1>6, <1>7, <1>9, <1>10, <1>11, <1>12,
           Actions

(***************************************************************************)
(* Theorems.                                                               *)
(***************************************************************************)
\* What holds under every fault, quarantine renames that fail included: where
\* the output is and what it was made of (run_encode_verify_loop).
THEOREM FaultInvariant == Spec => []FaultInv
<1>1. Init => FaultInv
  BY InitInv DEF JobInv
<1> QED BY <1>1, NextFaultInv, PTL DEF Spec

\* The inductive invariant, when quarantine renames succeed.
THEOREM JobInvariant ==
  ASSUME ~ChunkLocked PROVE Spec => []JobInv
<1>1. JobInv /\ [Next]_vars => JobInv'
  BY NextInv, ~ChunkLocked
<1> QED BY InitInv, <1>1, PTL DEF Spec

\* A run that reports success has an accepted output that holds every chunk
\* (main, after run_encode_verify_loop).
THEOREM SuccessIsVerified ==
  ASSUME ~ChunkLocked PROVE Spec => []OkIsVerified
<1>1. JobInv => OkIsVerified
  BY DEF JobInv, FaultInv, JudgeInv, DeliverInv, Verified, OkIsVerified
<1> QED BY <1>1, JobInvariant, PTL

\* A run that recorded success exits with 0, unless the output reached the
\* archive and the source did not (main, after print_summary).
THEOREM SuccessExitsZero ==
  ASSUME ~ChunkLocked PROVE Spec => []OkExitsZero
<1>1. JobInv => OkExitsZero
  BY DEF JobInv, CodeInv
<1> QED BY <1>1, JobInvariant, PTL

\* A run says its row and each hook at most once and in that order, and one
\* that ends by itself has said what its status calls for (flush, from main
\* and from atexit).
THEOREM RunsReportOnce ==
  ASSUME ~ChunkLocked PROVE Spec => []ReportedOnce
<1>1. ASSUME JobInv PROVE ReportedOnce
  <2> DEFINE rows == {<< >>, <<"row">>}
             Rest == {<< >>, <<"job_end">>, <<"job_end", "file_complete">>}
  <2>1. \/ told \in rows
        \/ told \in ToldFor("none")
        \/ told \in ToldFor("ok")
    BY <1>1
    DEF JobInv, FaultInv, ToldInv, TypeOK, PCs, Working, Judging, ToldFor
  <2>2. \E row \in rows, hooks \in Rest : told = row \o hooks
    <3>1. /\ << >> \o << >> = << >>
          /\ << >> \o <<"job_end">> = <<"job_end">>
          /\ << >> \o <<"job_end", "file_complete">> =
               <<"job_end", "file_complete">>
      BY RowFirst DEF Events
    <3> QED BY <2>1, <3>1, RowFirst, Zenon DEF ToldFor
  <2>3. ASSUME pc = "idle", status # "none"
        PROVE  /\ "job_end" \in ToSet(told)
               /\ "file_complete" \in ToSet(told) <=> status = "ok"
    <3>1. told \in ToldFor(status)
      BY <1>1, <2>3 DEF JobInv, ToldInv
    <3> QED BY <3>1 DEF ToldFor, ToSet
  <2> QED BY <2>2, <2>3 DEF ReportedOnce
<1> QED BY <1>1, JobInvariant, PTL

\* A run that ends by itself leaves no output behind that nobody judged: the
\* next run may take what it finds for a finished output ("Re-run after final
\* success", encode_resumable.py).
THEOREM NothingLeftUnjudged == Spec => NothingUnjudged
<1>1. ASSUME FaultInv, [Next]_vars, pc = "exit", pc' = "idle", status # "none"
      PROVE  dst.seen # "unseen"
  BY <1>1 DEF FaultInv, SeenInv
<1> QED BY <1>1, FaultInvariant, PTL DEF Spec, NothingUnjudged

\* The pipeline implements ResumableJob: no kill and no re-run sweeps encoded
\* video, accepts an incomplete output or takes the source away too early.
THEOREM PipelineKeepsPromise ==
  ASSUME ~ChunkLocked PROVE Spec => KeepsPromise
<1>1. Init => Promise!Init
  BY FilesType DEF Init, Promise!Init, Verified, Encoded
<1>2. JobInv /\ JobInv' /\ [Next]_vars => [Promise!Next]_(Promise!vars)
  BY PromiseSteps DEF JobInv, FaultInv
<1> QED BY <1>1, <1>2, JobInvariant, PTL DEF Spec, KeepsPromise, Promise!Spec

\* An output leaves its place only for a name beside it or for the archive
\* ("never unlinked", dts_recovery.py).
THEOREM OutputsAreKept == Spec => OutputKept
<1> DEFINE Kept == Exists(dst) /\ pc # "idle" =>
                     dst'.of = dst.of \/ dst \in beside' \cup {archived'}
<1>1. FaultInv /\ [Next]_vars => Kept
  <2> SUFFICES ASSUME FaultInv, [Next]_vars, Exists(dst), pc # "idle"
               PROVE  dst'.of = dst.of \/ dst \in beside' \cup {archived'}
    OBVIOUS
  <2> USE DEF outVars, Exists
  <2>1. CASE Concat \/ RemuxSwap
    BY <2>1 DEF Concat, RemuxSwap, FaultInv, PlaceInv, Working
  <2>2. CASE Verify \/ Reverify
    <3>1. PICK s \in {"clean", "bad"} : dst' = [dst EXCEPT !.seen = s]
      BY <2>2, VerdictIsSound DEF Verify, Reverify
    <3> QED BY <3>1, SeenType DEF FaultInv, TypeOK
  <2>3. CASE RemuxAside \/ VerifyFailed \/ MoveOutput
    BY <2>3 DEF RemuxAside, VerifyFailed, MoveOutput, SetOutputAside
  <2>4. CASE UNCHANGED dst
    BY <2>4
  <2> QED BY <2>1, <2>2, <2>3, <2>4, Actions
      DEF Start, PreFlight, AutoPatch, SplitSource, MarkSplit, Begin,
          EncodeChunk, EncodeFails, StopByUser, AbortEncode, EncodeReturns,
          CheckChunks, Finalize, FlushRow, FireJobEnd, FireFileComplete,
          DeleteCache, Cleanup, MoveSource, Summary, Exit, AskFinish, Kill,
          UserDeletesOutput, vars
<1> QED BY <1>1, FaultInvariant, PTL DEF Spec, OutputKept

\* With renames that work, encoded video is kept until an output has been
\* accepted ("Encoded chunks are NEVER deleted by this loop",
\* verify_loop.py): a failing rename is the only way to lose it.
THEOREM EncodesAreKept ==
  ASSUME ~ChunkLocked PROVE Spec => EncodesSurvive
<1> DEFINE Survives(c) == Encoded(c) /\ enc'[c] # enc[c] =>
                            <<c, enc[c]>> \in aside' \/ Verified
<1>1. ASSUME JobInv, [Next]_vars PROVE \A c \in Chunks : Survives(c)
  <2> SUFFICES ASSUME NEW c \in Chunks, Encoded(c), enc'[c] # enc[c]
               PROVE  <<c, enc[c]>> \in aside' \/ Verified
    OBVIOUS
  <2> USE <1>1 DEF workVars
  <2>1. ASSUME NEW d \in Chunks, EncodeChunk(d) PROVE FALSE
    BY <2>1, ReadyIsTodo DEF EncodeChunk, Todo, JobInv, FaultInv, TypeOK
  <2>2. CASE CheckChunks
    BY <2>2 DEF CheckChunks, QuarantineChunks
  <2>3. CASE pc = "sweep"
    BY <2>3 DEF JobInv, DeliverInv, Delivering, Verified
  <2>4. CASE UNCHANGED enc
    BY <2>4
  <2> QED BY <2>1, <2>2, <2>3, <2>4, Actions
      DEF Start, PreFlight, AutoPatch, SplitSource, MarkSplit, Begin,
          EncodeFails, StopByUser, AbortEncode, EncodeReturns, Concat, Verify,
          RemuxAside, RemuxSwap, Reverify, VerifyFailed, Finalize, FlushRow,
          FireJobEnd, FireFileComplete, DeleteCache, Cleanup, MoveOutput,
          MoveSource, Summary, Exit, AskFinish, Kill, UserDeletesOutput, vars
<1> QED BY <1>1, JobInvariant, PTL DEF Spec, EncodesSurvive
=============================================================================
