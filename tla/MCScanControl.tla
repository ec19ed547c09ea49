---------------------------- MODULE MCScanControl ----------------------------
(* A small instance of ScanControl for TLC. *)
EXTENDS ScanControl

CONSTANTS a, b

(* Three directories: two share a file, the third is missing. *)
MCTree == <<<<"other", a, b>>, <<"other", b>>, Missing>>
==============================================================================
