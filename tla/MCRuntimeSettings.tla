--------------------------- MODULE MCRuntimeSettings ---------------------------
(* A small instance of RuntimeSettings for TLC. *)
EXTENDS RuntimeSettings

CONSTANTS ascii, draw

(* The environment's interval is above what a request may ask for. *)
MCDefaults == [options |-> [o \in Options |-> FALSE], interval |-> 3, limit |-> 1]
===============================================================================
