----------------------------- MODULE MCLocalWorker -----------------------------
(* Model-checking instances of LocalWorker. *)
EXTENDS LocalWorker, TLC

WorkerSymmetry == Permutations(Worker)
===============================================================================
