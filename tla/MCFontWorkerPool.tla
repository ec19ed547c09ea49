--------------------------- MODULE MCFontWorkerPool ---------------------------
(* Small instances of FontWorkerPool for TLC. *)
EXTENDS FontWorkerPool, TLC

(* Requests and workers are interchangeable: the channel and the queue hold them in any order. *)
PoolSymmetry == Permutations(Requests) \union Permutations(Workers)
===============================================================================
