----------------------------- MODULE MCSubsetCache -----------------------------
(* Small instances of SubsetCache for TLC. *)
EXTENDS SubsetCache

CONSTANTS font, draw

(* One file fits in a quota of 4, two exceed it; a quota of 2 is exceeded by one. *)
MCSize == [k \in Keys |-> 3]
================================================================================
