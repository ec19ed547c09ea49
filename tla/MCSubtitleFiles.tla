--------------------------- MODULE MCSubtitleFiles ---------------------------
(* Small instances of SubtitleFiles for TLC. *)
EXTENDS SubtitleFiles, TLC

CONSTANTS Errors, Crashes, Restores, Changes, ScanRuns, Analyses

MCBudget == [error |-> Errors, crash |-> Crashes, restore |-> Restores, change |-> Changes,
             scan |-> ScanRuns, analysis |-> Analyses]

(* Job ids and option hashes are interchangeable: they are only compared for equality. *)
Symmetry == Permutations(Jobs) \cup Permutations(Configs)
===============================================================================
