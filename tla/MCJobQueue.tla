------------------------------ MODULE MCJobQueue ------------------------------
(* Small instances of JobQueue for TLC. *)
EXTENDS JobQueue, TLC

CONSTANTS small, large      \* two subtitles of different size

MCCost == [s \in Subtitles |-> IF s = large THEN 2 ELSE 1]

(* Job ids are interchangeable: nothing compares them. *)
JobSymmetry == Permutations(Jobs)
===============================================================================
