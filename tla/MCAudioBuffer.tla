---------------------------- MODULE MCAudioBuffer ---------------------------
(* An instance of AudioBuffer for TLC.  The constructor creates one buffer *)
(* in each pool, so that pools run empty and buffers are used again within *)
(* four datagrams, and the heap is large enough for the worst case, every  *)
(* frame allocated and none played yet.  The datagrams are given payloads, *)
(* for the decoder (G711) to be checked on what is heard of them.          *)
EXTENDS AudioBuffer, G711

CONSTANTS r1, f1, f2, f3, f4, f5

(* Four datagrams of 64 different codes each carry all 256.                *)
Payload == [k \in Datagrams |-> {c \in 0..255 : c % MaxFrames = k - 1}]

(* The codes that become what G.711 means by them: the middle of their     *)
(* interval or, below 128, of its mirror image.                            *)
WellDecoded ==
    {c \in 0..255 : LET p == 128 + (c % 128) IN Centred(p) /\ Mirrored(p) /\ Positive(p)}

(* Every code of a datagram that is heard was decoded to the sample that   *)
(* the scanner encoded (ulaw_expand).                                      *)
HeardAsEncoded == \A k \in played : Payload[k] \subseteq WellDecoded
=============================================================================
