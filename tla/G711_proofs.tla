----------------------------- MODULE G711_proofs -----------------------------
(***************************************************************************)
(* That the decoder does what G.711 says, by arithmetic: the code takes a  *)
(* byte apart into a segment and a step within it, in which the sample is  *)
(* linear.                                                                 *)
(***************************************************************************)
EXTENDS G711, TLAPS

(* The magnitudes that a 14 bit sample, left justified, may have.          *)
InRange(x) == x \in Int /\ 0 <= x /\ x <= 32124

(* 1 << (e + 1) is twice 1 << e, and neither is more than 256.             *)
LEMMA ShlDoubles ==
    ASSUME NEW e \in 0..7
    PROVE  Shl[e] \in 1..128 /\ Shl[e + 1] = 2 * Shl[e]
  <1>1. e \in {0, 1, 2, 3, 4, 5, 6, 7} /\ e \in 0..8 /\ e + 1 \in 0..8
    OBVIOUS
  <1> QED
    BY <1>1 DEF Shl

(* A code's low seven bits fall into a segment and a step within it, which *)
(* its sign bit does not change.                                           *)
LEMMA CodeParts ==
    ASSUME NEW c \in 128..255
    PROVE  /\ Exponent(c) \in 0..7 /\ Mantissa(c) \in 0..15
           /\ 255 - c = 16 * Exponent(c) + Mantissa(c)
           /\ Exponent(c - 128) = Exponent(c) /\ Mantissa(c - 128) = Mantissa(c)
  BY DEF Exponent, Mantissa

(* The magnitude, as a function of the two.                                *)
LEMMA MagnitudeOfParts ==
    ASSUME NEW c \in 128..255
    PROVE  Magnitude(c) = (132 + 8 * Mantissa(c)) * Shl[Exponent(c)] - 132
  <1> DEFINE S == Shl[Exponent(c)]  m == Mantissa(c)
  <1>1. Exponent(c) \in 0..7 /\ m \in 0..15
    BY CodeParts
  <1>2. S \in 1..128 /\ Shl[Exponent(c) + 1] = 2 * S
    BY <1>1, ShlDoubles
  <1>3. Step(c) = 4 * (2 * S)
    BY <1>2 DEF Step, Segment
  <1>4. Step(c) \div 2 = 4 * S
    BY <1>2, <1>3
  <1> HIDE DEF S, m
  <1>5. Step(c) * m = 8 * (S * m) /\ m * S = S * m /\ S * m \in Int
    BY <1>1, <1>2, <1>3
  <1>6. Magnitude(c) = 128 * S + 8 * (S * m) + 4 * S - 132
    BY <1>1, <1>2, <1>4, <1>5 DEF Magnitude, S, m
  <1>7. (132 + 8 * m) * S = 132 * S + 8 * (S * m)
    BY <1>1, <1>2
  <1>8. Magnitude(c) = (132 + 8 * m) * S - 132
    BY <1>2, <1>5, <1>6, <1>7
  <1> QED
    BY <1>8 DEF S, m

(* It fits into fifteen bits, and the sign bit does not change it.         *)
LEMMA MagnitudeRange ==
    ASSUME NEW c \in 128..255
    PROVE  InRange(Magnitude(c)) /\ Magnitude(c - 128) = Magnitude(c)
  <1> DEFINE S == Shl[Exponent(c)]  m == Mantissa(c)
  <1>1. S \in 1..128 /\ m \in 0..15
    BY CodeParts, ShlDoubles
  <1>2. Magnitude(c) = (132 + 8 * m) * S - 132
    BY MagnitudeOfParts
  <1>3. Magnitude(c - 128) = Magnitude(c)
    BY CodeParts DEF Magnitude, Step, Segment
  <1> HIDE DEF S, m
  <1>4. (132 + 8 * m) * S \in Int /\ 132 <= (132 + 8 * m) * S /\ (132 + 8 * m) * S <= 32256
    <2>1. m \in {0, 1, 2, 3, 4, 5, 6, 7, 8, 9, 10, 11, 12, 13, 14, 15}
      BY <1>1
    <2> QED
      BY <2>1, <1>1
  <1>5. InRange(Magnitude(c))
    BY <1>2, <1>4 DEF InRange
  <1> QED
    BY <1>3, <1>5

(* What is left of it after the way through an unsigned short.             *)
LEMMA SampleIsMagnitude ==
    ASSUME NEW c \in 128..255
    PROVE  Sample(c) = Magnitude(c) /\ Sample(c - 128) = -Magnitude(c)
  <1> DEFINE M == Magnitude(c)
  <1>1. InRange(M) /\ Magnitude(c - 128) = M
    BY MagnitudeRange, Zenon
  <1>2. itu_expand(c) = M % 65536 /\ itu_expand(c - 128) = (-M) % 65536
    BY <1>1 DEF itu_expand, InRange
  <1> HIDE DEF M
  <1>3. M % 65536 = M /\ (-M) % 65536 = IF M = 0 THEN 0 ELSE 65536 - M
    BY <1>1 DEF InRange
  <1>4. itu_expand(c) = M /\ itu_expand(c - 128) = IF M = 0 THEN 0 ELSE 65536 - M
    BY <1>2, <1>3
  <1>5. Sample(c) = M /\ Sample(c - 128) = -M
    BY <1>1, <1>4 DEF Sample, Short, InRange
  <1> QED
    BY <1>5 DEF M

(* From one code to the next the magnitude falls, within a segment and     *)
(* from a segment to the one below.                                        *)
LEMMA MagnitudeFalls ==
    ASSUME NEW c \in 128..254
    PROVE  Magnitude(c + 1) < Magnitude(c)
  <1> DEFINE d == c + 1
             S(x) == Shl[Exponent(x)]
  <1>1. /\ Exponent(c) \in 0..7 /\ Mantissa(c) \in 0..15 /\ 255 - c = 16 * Exponent(c) + Mantissa(c)
        /\ Exponent(d) \in 0..7 /\ Mantissa(d) \in 0..15 /\ 255 - d = 16 * Exponent(d) + Mantissa(d)
    BY CodeParts
  <1>2. /\ Magnitude(c) = (132 + 8 * Mantissa(c)) * S(c) - 132 /\ S(c) \in 1..128
        /\ Magnitude(d) = (132 + 8 * Mantissa(d)) * S(d) - 132 /\ S(d) \in 1..128
    <2>1. c \in 128..255 /\ d \in 128..255
      OBVIOUS
    <2>2. Magnitude(c) = (132 + 8 * Mantissa(c)) * S(c) - 132
      BY <2>1, MagnitudeOfParts, Zenon
    <2>3. Magnitude(d) = (132 + 8 * Mantissa(d)) * S(d) - 132
      BY <2>1, MagnitudeOfParts, Zenon
    <2>4. S(c) \in 1..128 /\ S(d) \in 1..128
      BY <1>1, ShlDoubles
    <2> QED
      BY <2>2, <2>3, <2>4, Zenon
  <1>3. CASE Mantissa(c) > 0
    <2>1. Exponent(d) = Exponent(c) /\ Mantissa(d) = Mantissa(c) - 1
      BY <1>1, <1>3
    <2> DEFINE T == S(c)  m == Mantissa(c)
    <2>2. T \in 1..128 /\ m \in 1..15
      BY <1>1, <1>2, <1>3
    <2>3. Magnitude(c) = (132 + 8 * m) * T - 132 /\ Magnitude(d) = (132 + 8 * (m - 1)) * T - 132
      BY <1>2, <2>1
    <2> HIDE DEF T, m, d
    <2>4. (132 + 8 * m) * T = (132 + 8 * (m - 1)) * T + 8 * T /\ (132 + 8 * (m - 1)) * T \in Int
      BY <2>2
    <2> QED
      BY <2>2, <2>3, <2>4 DEF d
  <1>4. CASE Mantissa(c) = 0
    <2>1. Exponent(c) = Exponent(d) + 1 /\ Mantissa(d) = 15
      BY <1>1, <1>4
    <2>2. S(c) = 2 * S(d)
      BY <1>1, <2>1, ShlDoubles
    <2> QED
      BY <1>2, <1>4, <2>1, <2>2
  <1> QED
    BY <1>1, <1>3, <1>4

(* Every byte decodes to the middle of its G.711 interval, with its sign,  *)
(* within 16 bits, and in order.                                           *)
THEOREM Decodes == DecodesG711
  <1>1. ASSUME NEW c \in 128..255
        PROVE  Centred(c) /\ Mirrored(c) /\ Positive(c)
    <2> DEFINE S == Shl[Exponent(c)]  m == Mantissa(c)
    <2>1. S \in 1..128 /\ m \in 0..15
      BY CodeParts, ShlDoubles
    <2>2. Magnitude(c) = (132 + 8 * m) * S - 132
      BY MagnitudeOfParts, Zenon
    <2>5. InRange(Magnitude(c)) /\ Sample(c) = Magnitude(c) /\ Sample(c - 128) = -Magnitude(c)
      BY MagnitudeRange, SampleIsMagnitude, Zenon
    <2>3. Least(c) = 4 * ((32 + 2 * m) * S - 33) /\ Width(c) = 8 * S
      BY DEF Least, Width
    <2> HIDE DEF S, m
    <2>4. (132 + 8 * m) * S = 132 * S + 8 * (m * S) /\ (32 + 2 * m) * S = 32 * S + 2 * (m * S)
          /\ m * S \in Int
      BY <2>1
    <2> QED
      <3>1. 2 * Sample(c) = 2 * Least(c) + Width(c)
        BY <2>1, <2>2, <2>3, <2>4, <2>5 DEF InRange
      <3> QED
        BY <2>5, <3>1 DEF InRange, Centred, Mirrored, Positive
  <1>2. ASSUME NEW c \in 128..254 PROVE Sample(c + 1) < Sample(c)
    BY MagnitudeFalls, SampleIsMagnitude
  <1> QED
    BY <1>1, <1>2 DEF DecodesG711
=============================================================================
