---------------------------- MODULE ResumableJob ----------------------------
(***************************************************************************)
(* What the encode pipeline promises of one source, whatever kills it and  *)
(* however often it is started again: encoded video is kept until an       *)
(* output has been accepted, only a complete set of chunks makes an        *)
(* acceptable output, and the source leaves its place after that.          *)
(***************************************************************************)
CONSTANTS
  Pieces,   \* every file of encoded video there can be
  Whole     \* the pieces of a complete output

VARIABLES
  kept,     \* pieces on disk, in use or set aside
  output,   \* an accepted output is in place or in the archive
  home      \* the source is where the user put it

vars == <<kept, output, home>>

Init == kept = {} /\ output = FALSE /\ home = TRUE

Keep == /\ \E new \in SUBSET Pieces : kept' = kept \cup new
        /\ UNCHANGED <<output, home>>

Accept == /\ ~output /\ Whole \subseteq kept
          /\ output' = TRUE
          /\ UNCHANGED <<kept, home>>

\* Only now may the chunks go.
Sweep == /\ output
         /\ kept' \in SUBSET kept
         /\ UNCHANGED <<output, home>>

\* The user wants a fresh encode.
Withdraw == /\ output /\ home
            /\ output' = FALSE
            /\ UNCHANGED <<kept, home>>

Archive == /\ output /\ home
           /\ home' = FALSE
           /\ UNCHANGED <<kept, output>>

Next == Keep \/ Accept \/ Sweep \/ Withdraw \/ Archive
Spec == Init /\ [][Next]_vars
=============================================================================
