-------------------------------- MODULE G711 --------------------------------
(***************************************************************************)
(* The mu-law decoder (g711.cpp): what a byte of an RTP payload becomes in *)
(* the buffer, a 14 bit sample left justified in an unsigned short, which  *)
(* AudioBuffer reads as a short.  Integers are those of the code: the      *)
(* result is taken modulo 2^16.                                            *)
(***************************************************************************)
EXTENDS Integers

(* 1 << n *)
Shl == [n \in 0..8 |-> CASE n = 0 -> 1  [] n = 1 -> 2  [] n = 2 -> 4  [] n = 3 -> 8
                         [] n = 4 -> 16 [] n = 5 -> 32 [] n = 6 -> 64 [] n = 7 -> 128
                         [] n = 8 -> 256]

(* The low seven bits of a code, complemented, as the code takes them      *)
(* apart.                                                                  *)
Exponent(c) == ((255 - c) \div 16) % 8
Mantissa(c) == (255 - c) % 16
Segment(c)  == Exponent(c) + 1
Step(c)     == 4 * Shl[Segment(c)]

(* Mutated Magnitude: without the half step that centres the sample.       *)
MagnitudeLow(c) == 128 * Shl[Exponent(c)] + Step(c) * Mantissa(c) - 4 * 33

Magnitude(c) == 128 * Shl[Exponent(c)] + Step(c) * Mantissa(c) + Step(c) \div 2 - 4 * 33

itu_expand(c) == (IF c < 128 THEN -Magnitude(c) ELSE Magnitude(c)) % 65536

(* The unsigned short read as a short.                                     *)
Short(u) == IF u < 32768 THEN u ELSE u - 65536
Sample(c) == Short(itu_expand(c))

-----------------------------------------------------------------------------
(* G.711's mu-law as its encoder sees it, on 14 bit values left justified: *)
(* biased by 33, segment e holds the magnitudes from 32 * 2^e on, in 16    *)
(* intervals of width 2 * 2^e.                                             *)
Least(c) == 4 * ((32 + 2 * Mantissa(c)) * Shl[Exponent(c)] - 33)
Width(c) == 8 * Shl[Exponent(c)]

Centred(c)  == 2 * Sample(c) = 2 * Least(c) + Width(c)
Mirrored(c) == Sample(c - 128) = -Sample(c)
Positive(c) == 0 <= Sample(c) /\ Sample(c) < 32768

(* Every code decodes to the middle of the interval that G.711 gives it,   *)
(* positive codes and negative ones mirror each other, a larger interval   *)
(* never decodes to a smaller sample, and no sample is lost to the         *)
(* narrowing to 16 bits (itu_expand).                                      *)
DecodesG711 ==
    /\ \A c \in 128..255 : Centred(c) /\ Mirrored(c) /\ Positive(c)
    /\ \A c \in 128..254 : Sample(c + 1) < Sample(c)
=============================================================================
