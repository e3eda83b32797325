----------------------------- MODULE MCJobQueue -----------------------------
(* Instances of JobQueue for TLC: the workers and handlers are             *)
(* interchangeable.                                                        *)
EXTENDS JobQueue, TLC

Symmetry == Permutations(Worker) \cup Permutations(Handler)
=============================================================================
