----------------------------- MODULE MCJobQueue -----------------------------
(* Instances of JobQueue for TLC.  Workers are interchangeable.            *)
EXTENDS JobQueue, TLC

WorkerSymmetry == Permutations(Worker)
=============================================================================
