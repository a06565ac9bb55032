---------------------------- MODULE MCJobCentre -----------------------------
(* Small job centres for TLC. *)
EXTENDS JobCentre, TLC

\* Workers, and queues, are interchangeable.
Symmetry == Permutations(Workers) \cup Permutations(Queues)
=============================================================================
