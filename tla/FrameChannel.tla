---------------------------- MODULE FrameChannel ----------------------------
(***************************************************************************)
(* What an AudioBuffer promises the two threads that share it: an          *)
(* unbounded first-in first-out channel of audio frames.  Frames go in     *)
(* numbered 1, 2, 3 ...; the listener hears the oldest frame not yet heard *)
(* or, when there is none, silence.  A frame is the set of the datagrams   *)
(* whose samples are in it: frame k has samples of datagram k, if that     *)
(* brought any, and of the end of datagram k - 1, which the resampling     *)
(* carries over, and of no other.                                          *)
(* Threads, locks, pools and recycled buffers are not part of the promise. *)
(***************************************************************************)
EXTENDS Naturals, Sequences

VARIABLES
    sent,    \* number of frames put so far
    chan,    \* frames put and not yet heard, oldest first
    heard    \* the frame last handed to the audio device

vars == <<sent, chan, heard>>

Silence == {}

Init == sent = 0 /\ chan = <<>> /\ heard = Silence

Put == /\ sent' = sent + 1
       /\ \E frame \in SUBSET ({sent, sent + 1} \ {0}) : chan' = Append(chan, frame)
       /\ UNCHANGED heard

Get == /\ chan # <<>>
       /\ heard' = Head(chan)
       /\ chan' = Tail(chan)
       /\ UNCHANGED sent

Underrun == chan = <<>> /\ heard' = Silence /\ UNCHANGED <<sent, chan>>

Next == Put \/ Get \/ Underrun

Spec == Init /\ [][Next]_vars
=============================================================================
