--------------------------- MODULE ChunkEncoding ---------------------------
(***************************************************************************)
(* What one call of the chunk encoder promises the verify loop: video once *)
(* written is kept, an encoded chunk is never replaced, the way the call   *)
(* ends is true of the chunks, and nothing is written after it has ended.  *)
(***************************************************************************)
CONSTANTS
  Chunks,
  Pieces    \* every file of encoded video there can be: <<chunk, writer>>

VARIABLES
  kept,     \* pieces on disk, finished, begun or set aside
  used,     \* the pieces that are the chunks' encodes
  ending    \* how the call ended

vars == <<kept, used, ending>>

Missing == {c \in Chunks : \A p \in used : p[1] # c}

Init == kept \in SUBSET Pieces /\ used \in SUBSET kept /\ ending = "none"

Write == /\ ending = "none"
         /\ \E p \in Pieces : kept' = kept \cup {p}
         /\ UNCHANGED <<used, ending>>

Use == /\ ending = "none"
       /\ \E p \in kept : p[1] \in Missing /\ used' = used \cup {p}
       /\ UNCHANGED <<kept, ending>>

\* Success means all chunks; a request, a failure or a skip that there is
\* something left for the next call; an abort may come at any time.
Return == /\ ending = "none"
          /\ \/ ending' = "done" /\ Missing = {}
             \/ ending' \in {"user", "failed", "skipped"} /\ Missing # {}
             \/ ending' \in {"quality", "size"}
          /\ UNCHANGED <<kept, used>>

Next == Write \/ Use \/ Return
Spec == Init /\ [][Next]_vars
=============================================================================
