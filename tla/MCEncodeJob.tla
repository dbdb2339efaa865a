---------------------------- MODULE MCEncodeJob ----------------------------
(***************************************************************************)
(* EncodeJob on small instances: three command lines that between them     *)
(* give every option each of its values.                                   *)
(***************************************************************************)
EXTENDS EncodeJob

MCJobs == {[mode |-> "parallel", scan |-> "on",    done |-> TRUE],
           [mode |-> "serial",   scan |-> "patch", done |-> FALSE],
           [mode |-> "serial",   scan |-> "off",   done |-> TRUE]}
=============================================================================
