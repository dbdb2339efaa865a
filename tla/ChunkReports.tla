---------------------------- MODULE ChunkReports ----------------------------
(***************************************************************************)
(* What is written and said about single chunks while they are encoded:    *)
(* the rows of chunk_metrics.jsonl, by the workers and by the quality      *)
(* guard, and the on_chunk_done hooks.  Over several calls of              *)
(* encode_chunks (the verify loop sends bad chunks back) and several runs  *)
(* (the program may be killed, also within a write).                       *)
(*                                                                         *)
(* Encodes are numbered, per chunk; a row is which encode its numbers are  *)
(* of and which encode the guard's verdict in it is of.  The reader takes  *)
(* the last row of each chunk, so the file is modelled by those rows and   *)
(* by whether its last line is torn.                                       *)
(***************************************************************************)
EXTENDS Naturals, Sequences, FiniteSets, SequencesExt

CONSTANTS
  Chunks, NoChunk, Slots,
  GuardOn,     \* a quality threshold is set
  DiskFull,    \* an append may fail, whole or half way
  MaxEncodes, MaxRuns   \* bounds: encodes of a chunk, starts of the program

ASSUME ReportsAssumption ==
  /\ NoChunk \notin Chunks /\ IsFiniteSet(Chunks)
  /\ {GuardOn, DiskFull} \subseteq BOOLEAN
  /\ MaxEncodes \in Nat /\ MaxRuns \in Nat

VARIABLES
  enc,        \* the encode in each chunk's enc file, 0 for none
  encodes,    \* encodes of each chunk so far
  leftovers,  \* .part or quarantined enc_ files are in the workdir
  fold,       \* the reader's view of the log
  torn,       \* the log ends within a line
  running,    \* the program is up
  calling,    \* encode_chunks is on
  todo,       \* its work queue
  at, chunk,  \* what each worker does, and for which chunk
  cache,      \* ChunkMetricsLog._cache
  submitted, guard,   \* the guard's queue and its job
  said,       \* the counts the hooks of this call told
  lost,       \* chunks whose newest row did not get into the log
  judged,     \* chunks whose present encode got a verdict in this run
  runs

disk    == <<enc, encodes, leftovers>>
log     == <<fold, torn, cache, lost>>
workers == <<at, chunk>>
guards  == <<submitted, guard, judged>>
vars == <<disk, log, running, calling, todo, workers, guards, said, runs>>

NoRow == [numbers |-> 0, verdict |-> 0]
Rows == [numbers : 0..MaxEncodes, verdict : 0..MaxEncodes]
NoJob == [chunk |-> NoChunk, row |-> NoRow, step |-> "idle"]

TypeOK ==
  /\ enc \in [Chunks -> 0..MaxEncodes] /\ encodes \in [Chunks -> 0..MaxEncodes]
  /\ fold \in [Chunks -> Rows] /\ cache \in [Chunks -> Rows]
  /\ leftovers \in BOOLEAN /\ torn \in BOOLEAN
  /\ running \in BOOLEAN /\ calling \in BOOLEAN
  /\ todo \subseteq Chunks /\ lost \subseteq Chunks /\ judged \subseteq Chunks
  /\ at \in [Slots -> {"idle", "encode", "record", "submit", "fire"}]
  /\ chunk \in [Slots -> Chunks \cup {NoChunk}]
  /\ submitted \in Seq(Chunks)
  /\ guard \in [chunk : Chunks \cup {NoChunk}, row : Rows,
                step : {"idle", "merge", "append"}]
  /\ said \subseteq 0..Cardinality(Chunks)
  /\ runs \in 0..MaxRuns

Nothing == [c \in Chunks |-> 0]
Unknown == [c \in Chunks |-> NoRow]

Init ==
  /\ enc = Nothing /\ encodes = Nothing /\ leftovers = FALSE
  /\ fold = Unknown /\ torn = FALSE /\ cache = Unknown /\ lost = {}
  /\ running = FALSE /\ calling = FALSE /\ todo = {}
  /\ at = [s \in Slots |-> "idle"] /\ chunk = [s \in Slots |-> NoChunk]
  /\ submitted = << >> /\ guard = NoJob /\ judged = {}
  /\ said = {} /\ runs = 0

(***************************************************************************)
(* The log.                                                                *)
(***************************************************************************)
\* _append, under the lock.  After a torn line the row becomes part of it and
\* neither parses; a write that fails may leave a torn line.
AppendRow(c, row) ==
  /\ cache' = [cache EXCEPT ![c] = row]
  /\ \/ /\ ~torn
        /\ fold' = [fold EXCEPT ![c] = row] /\ lost' = lost \ {c}
        /\ UNCHANGED torn
     \/ /\ torn
        /\ torn' = FALSE /\ lost' = lost \cup {c}
        /\ UNCHANGED fold
     \/ /\ DiskFull
        /\ torn' \in {torn, TRUE} /\ lost' = lost \cup {c}
        /\ UNCHANGED fold

\* workdir_has_no_enc_chunks: a .part or quarantined file counts as well.
FreshWorkdir == enc = Nothing /\ ~leftovers

\* init_chunk_metrics_log: a fresh encode starts a fresh log.
InitLog ==
  /\ cache' = Unknown
  /\ \/ /\ FreshWorkdir
        /\ fold' = Unknown /\ torn' = FALSE
     \/ UNCHANGED <<fold, torn>>        \* also when the unlink fails
  /\ UNCHANGED lost

(***************************************************************************)
(* The program.                                                            *)
(***************************************************************************)
Start ==
  /\ ~running /\ runs < MaxRuns
  /\ running' = TRUE /\ runs' = runs + 1
  /\ InitLog
  /\ judged' = {}
  /\ UNCHANGED <<disk, calling, todo, workers, submitted, guard, said>>

\* encode_chunks: a new work queue and a new guard.
Call ==
  /\ running /\ ~calling
  /\ \E c \in Chunks : enc[c] = 0 /\ encodes[c] < MaxEncodes
  /\ todo' = {c \in Chunks : enc[c] = 0 /\ encodes[c] < MaxEncodes}
  /\ calling' = TRUE /\ said' = {}
  /\ UNCHANGED <<disk, log, running, workers, guards, runs>>

Take(s) ==
  /\ calling /\ at[s] = "idle"
  /\ \E c \in todo :
       /\ todo' = todo \ {c}
       /\ chunk' = [chunk EXCEPT ![s] = c]
       /\ encodes' = [encodes EXCEPT ![c] = @ + 1]
  /\ at' = [at EXCEPT ![s] = "encode"]
  /\ UNCHANGED <<enc, leftovers, log, running, calling, guards, said, runs>>

\* part.rename(out)
RenamePart(s) ==
  /\ at[s] = "encode"
  /\ enc' = [enc EXCEPT ![chunk[s]] = encodes[chunk[s]]]
  /\ at' = [at EXCEPT ![s] = "record"]
  /\ UNCHANGED <<encodes, leftovers, log, running, calling, todo, chunk,
                 guards, said, runs>>

\* A failed or choked encode, or an exception: the hook only.
EncodeFails(s) ==
  /\ at[s] = "encode"
  /\ leftovers' = TRUE
  /\ at' = [at EXCEPT ![s] = "fire"]
  /\ UNCHANGED <<enc, encodes, log, running, calling, todo, chunk, guards,
                 said, runs>>

\* record_chunk: the base row has no verdict.
RecordChunk(s) ==
  /\ at[s] = "record"
  /\ AppendRow(chunk[s], [numbers |-> enc[chunk[s]], verdict |-> 0])
  /\ at' = [at EXCEPT ![s] = "submit"]
  /\ UNCHANGED <<disk, running, calling, todo, chunk, guards, said, runs>>

\* _submit_quality_check
Submit(s) ==
  /\ at[s] = "submit"
  /\ submitted' = IF GuardOn THEN Append(submitted, chunk[s]) ELSE submitted
  /\ at' = [at EXCEPT ![s] = "fire"]
  /\ UNCHANGED <<disk, log, running, calling, todo, chunk, guard, judged,
                 said, runs>>

\* Faulty variant: the chunk of this hook is not counted.
DoneChunksBefore(s) == {c \in Chunks \ {chunk[s]} : enc[c] # 0}

\* _done_chunks: what is on disk now.
DoneChunks(s) == {c \in Chunks : enc[c] # 0}

\* fire_for_chunk; the hook never raises.
FireHook(s) ==
  /\ at[s] = "fire"
  /\ said' = said \cup {Cardinality(DoneChunks(s))}
  /\ at' = [at EXCEPT ![s] = "idle"]
  /\ chunk' = [chunk EXCEPT ![s] = NoChunk]
  /\ UNCHANGED <<disk, log, running, calling, todo, guards, runs>>

(***************************************************************************)
(* The guard's thread.                                                     *)
(***************************************************************************)
\* _process_one measures the file; whatever the verdict, it is logged.
GuardMeasures ==
  /\ guard.step = "idle" /\ submitted # << >>
  /\ guard' = [chunk |-> Head(submitted),
               row |-> [NoRow EXCEPT !.verdict = enc[Head(submitted)]],
               step |-> "merge"]
  /\ submitted' = Tail(submitted)
  /\ UNCHANGED <<disk, log, running, calling, todo, workers, judged, said,
                 runs>>

\* Faulty variant: the verdict's row is built without the base row.
BaseRowStub(c) == NoRow

\* update_chunk_quality copies the cached row, or makes a stub of zeros.
BaseRow(c) == cache[c]

GuardMerges ==
  /\ guard.step = "merge"
  /\ guard' = [guard EXCEPT !.row.numbers = BaseRow(guard.chunk).numbers,
                            !.step = "append"]
  /\ UNCHANGED <<disk, log, running, calling, todo, workers, submitted,
                 judged, said, runs>>

\* The lock was released in between.
GuardAppends ==
  /\ guard.step = "append"
  /\ AppendRow(guard.chunk, guard.row)
  /\ judged' = judged \cup {guard.chunk}
  /\ guard' = NoJob
  /\ UNCHANGED <<disk, running, calling, todo, workers, submitted, said,
                 runs>>

(***************************************************************************)
(* The end of a call, of a run.                                            *)
(***************************************************************************)
Quiet ==
  /\ \A s \in Slots : at[s] = "idle"
  /\ submitted = << >> /\ guard.step = "idle"

\* encode_chunks returns or exits: the workers have left, an abort or a
\* finish request with chunks untaken; guard.stop drains the guard's queue.
Return ==
  /\ calling /\ Quiet
  /\ calling' = FALSE /\ todo' = {}
  /\ UNCHANGED <<disk, log, running, workers, guards, said, runs>>

\* The verify loop finds bad chunks and puts them aside.
QuarantineBad ==
  /\ running /\ ~calling
  /\ \E bad \in SUBSET {c \in Chunks : enc[c] # 0} \ {{}} :
       /\ enc' = [c \in Chunks |-> IF c \in bad THEN 0 ELSE enc[c]]
       /\ judged' = judged \ bad
  /\ leftovers' = TRUE
  /\ UNCHANGED <<encodes, log, running, calling, todo, workers, submitted,
                 guard, said, runs>>

Exit ==
  /\ running /\ ~calling
  /\ running' = FALSE
  /\ UNCHANGED <<disk, log, calling, todo, workers, guards, said, runs>>

\* A row under way stays unwritten or half written.
Kill ==
  /\ calling
  /\ LET unwritten == {chunk[s] : s \in {t \in Slots : at[t] = "record"}}
         judging == IF guard.step = "append" THEN {guard.chunk} ELSE {}
     IN  /\ lost' = lost \cup unwritten
         /\ torn' \in (IF unwritten \cup judging = {} THEN {torn}
                                                      ELSE {torn, TRUE})
  /\ leftovers' = (leftovers \/ \E s \in Slots : at[s] = "encode")
  /\ running' = FALSE /\ calling' = FALSE /\ todo' = {}
  /\ at' = [s \in Slots |-> "idle"]
  /\ chunk' = [s \in Slots |-> NoChunk]
  /\ submitted' = << >> /\ guard' = NoJob
  /\ UNCHANGED <<enc, encodes, fold, cache, judged, said, runs>>

Worker(s) ==
  \/ Take(s) \/ RenamePart(s) \/ EncodeFails(s)
  \/ RecordChunk(s) \/ Submit(s) \/ FireHook(s)
Guard == GuardMeasures \/ GuardMerges \/ GuardAppends
Main == Start \/ Call \/ Return \/ QuarantineBad \/ Exit

Next == Main \/ Guard \/ Kill \/ \E s \in Slots : Worker(s)
Spec == Init /\ [][Next]_vars

(***************************************************************************)
(* Properties.                                                             *)
(***************************************************************************)
\* When nobody is writing, the log tells the newest encode's numbers of every
\* chunk and, of those the guard has judged in this run, its verdict.  It
\* excepts rows that were cut off by a kill, met a full disk or were swallowed
\* by a torn line (record_chunk and update_chunk_quality from two threads,
\* last row wins).
LogTellsLatest ==
  Quiet => \A c \in Chunks \ lost : enc[c] # 0 =>
    /\ fold[c].numbers = enc[c]
    /\ c \in judged => fold[c].verdict = enc[c]
    /\ fold[c].verdict \in {0, enc[c]}

\* A call that encoded the last missing chunk had a hook say "N of N", in
\* whatever order the workers finished (_done_chunks).
SomeoneSaysDone ==
  calling /\ Quiet /\ (\A c \in Chunks : enc[c] # 0) =>
    Cardinality(Chunks) \in said

(***************************************************************************)
(* Why they hold: the inductive invariant.                                 *)
(***************************************************************************)
Recording(c) == \E s \in Slots : at[s] = "record" /\ chunk[s] = c

\* Each worker has a chunk of its own, taken from the work queue; outside a
\* call nobody works.
WorkInv ==
  /\ \A s \in Slots : at[s] = "idle" <=> chunk[s] = NoChunk
  /\ \A s, t \in Slots : chunk[s] = chunk[t] /\ at[s] # "idle" => s = t
  /\ \A s \in Slots : chunk[s] \notin todo
  /\ \A c \in todo : enc[c] = 0 /\ encodes[c] < MaxEncodes
  /\ \A s \in Slots :
       /\ at[s] = "encode" => enc[chunk[s]] = 0 /\ encodes[chunk[s]] # 0
       /\ at[s] \in {"record", "submit"} => enc[chunk[s]] # 0
  /\ calling => running
  /\ ~calling => Quiet /\ todo = {}

\* The base row of c's present encode is in the cache.
Based(c) == enc[c] # 0 /\ cache[c].numbers = enc[c] /\ ~Recording(c)

\* The guard has only chunks whose base row is there.
GuardInv ==
  /\ \A s \in Slots : at[s] = "submit" => Based(chunk[s])
  /\ \A i \in 1..Len(submitted) : Based(submitted[i])
  /\ guard.step # "idle" =>
       /\ guard.chunk \in Chunks /\ Based(guard.chunk)
       /\ guard.row.verdict = enc[guard.chunk]
  /\ guard.step = "append" => guard.row.numbers = enc[guard.chunk]

\* Only a worker between rename and record has a chunk the log is behind on.
LogInv ==
  /\ \A c \in judged : enc[c] # 0 /\ ~Recording(c)
  /\ \A c \in Chunks \ lost : enc[c] # 0 /\ ~Recording(c) =>
       /\ fold[c].numbers = enc[c]
       /\ fold[c].verdict = enc[c] \/ (c \notin judged /\ fold[c].verdict = 0)

\* When all are encoded, the worker that was last has yet to fire its hook.
SaidInv ==
  calling /\ (\A c \in Chunks : enc[c] # 0) =>
    \/ Cardinality(Chunks) \in said
    \/ \E s \in Slots : at[s] \in {"record", "submit", "fire"}

ReportsInv == TypeOK /\ WorkInv /\ GuardInv /\ LogInv /\ SaidInv
=============================================================================
