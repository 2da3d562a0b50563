----------------------------- MODULE MCEvalQueue -----------------------------
(* Small instances of EvalQueue for TLC. *)
EXTENDS EvalQueue, TLC

\* runs are interchangeable: before, not the id, orders them
Interchangeable == Permutations(WorkerRun)

=============================================================================
