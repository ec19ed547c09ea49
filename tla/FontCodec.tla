------------------------------- MODULE FontCodec -------------------------------
(***************************************************************************)
(* The encoding of font files in the [Fonts] section of a subtitle: three  *)
(* bytes become four characters of six bits, a rest of one or two bytes    *)
(* two or three characters.  A character is its value 0..63; in the file   *)
(* it is the one 33 places further in ASCII, which leaves room for neither *)
(* white space nor lower case letters.                                     *)
(***************************************************************************)
EXTENDS Integers, Sequences

Byte   == 0..255
Sextet == 0..63

(* The i-th element, and 0 past the end: the padding of the last group. *)
At(s, i) == IF i <= Len(s) THEN s[i] ELSE 0

(* The 24 bits of the g-th group, counted from 0, of bytes or of characters. *)
ByteGroup(b, g) == 256 * (256 * At(b, 3*g + 1) + At(b, 3*g + 2)) + At(b, 3*g + 3)
CharGroup(s, g) ==
    64 * (64 * (64 * At(s, 4*g + 1) + At(s, 4*g + 2)) + At(s, 4*g + 3)) + At(s, 4*g + 4)

(* What shifts and masks take out of them. *)
CharOf(v, place) == IF place = 0 THEN ((v \div 64) \div 64) \div 64
                    ELSE IF place = 1 THEN ((v \div 64) \div 64) % 64
                    ELSE IF place = 2 THEN (v \div 64) % 64
                    ELSE v % 64
ByteOf(v, place) == IF place = 0 THEN (v \div 256) \div 256
                    ELSE IF place = 1 THEN (v \div 256) % 256
                    ELSE v % 256

EncodedLength(n) == 4 * (n \div 3) + (IF n % 3 = 0 THEN 0 ELSE (n % 3) + 1)

DecodedLength(n) == 3 * (n \div 4) + (IF n % 4 = 0 THEN 0 ELSE (n % 4) - 1)

(* ass_uu_encode. *)
Encode(b) ==
    [k \in 1..EncodedLength(Len(b)) |-> CharOf(ByteGroup(b, (k - 1) \div 4), (k - 1) % 4)]

(* ass_uu_decode: what it refuses, and what it returns otherwise. *)
Decodes(s) == (\A i \in DOMAIN s : s[i] \in Sextet) /\ Len(s) % 4 # 1

Decode(s) ==
    [i \in 1..DecodedLength(Len(s)) |-> ByteOf(CharGroup(s, (i - 1) \div 3), (i - 1) % 3)]
===============================================================================
