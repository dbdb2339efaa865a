--------------------------- MODULE MCPauseControl ---------------------------
(* PauseControl on a small instance: both slots work if nobody types, one   *)
(* slot if somebody does.                                                  *)
EXTENDS PauseControl

Working == {s \in Slots : wpc[s] = "next"}

MCInit ==
  Init /\ Working = IF typing THEN {CHOOSE s \in Slots : TRUE} ELSE Slots

MCSpec == MCInit /\ [][Next]_vars /\ Fairness
=============================================================================
