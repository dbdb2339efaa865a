-------------------------- MODULE MCParallelEncode --------------------------
(* ParallelEncode on a small instance. *)
EXTENDS ParallelEncode, TLC

\* Workers are interchangeable.
WorkerSymmetry == Permutations(Slots)
=============================================================================
