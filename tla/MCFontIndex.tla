----------------------------- MODULE MCFontIndex -----------------------------
(* A small instance of FontIndex for TLC. *)
EXTENDS FontIndex
CONSTANTS p, q, wanted, garbled, name, s1

(* Two font directories, one inside the other. *)
MCRoots    == <<{p, q}, {q}>>

(* One content has the font that the subtitle wants, the other is no font. *)
MCProvides == [c \in Contents |-> IF c = wanted THEN {name} ELSE {}]
MCWanted   == [s \in Subtitles |-> name]
==============================================================================
