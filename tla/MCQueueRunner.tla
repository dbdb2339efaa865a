--------------------------- MODULE MCQueueRunner ---------------------------
(***************************************************************************)
(* QueueRunner with two sources, of which the first has a done_dir, a      *)
(* queue file that grows, shrinks and turns around, and three command      *)
(* lines.                                                                  *)
(***************************************************************************)
EXTENDS QueueRunner

CONSTANTS a, b

MCSources == {a, b}
MCNameOf == [s \in MCSources |-> s]
MCWithDone == {a}
MCQueues == {<<a, b>>, <<b, a>>, <<b>>, << >>}
MCCodes == {0, 1, 3, 5, 6, 7, 8, 9}
MCOptions == {[noSkip |-> FALSE, stopOnFailure |-> FALSE, reset |-> FALSE],
              [noSkip |-> TRUE,  stopOnFailure |-> TRUE,  reset |-> FALSE],
              [noSkip |-> FALSE, stopOnFailure |-> TRUE,  reset |-> TRUE]}
=============================================================================
