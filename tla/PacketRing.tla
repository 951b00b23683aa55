----------------------------- MODULE PacketRing -----------------------------
(***************************************************************************)
(* What the receiver does with packets, told without a radio: a packet     *)
(* goes to the next slot of a ring, a reset empties the slots and returns  *)
(* to the first one, and the channel is the last one that was asked for.   *)
(***************************************************************************)
EXTENDS Integers

CONSTANTS Slots, Packets, Empty, Channels, Home

VARIABLES body, dest, channel

vars == <<body, dest, channel>>

Blank == [i \in 0 .. Slots - 1 |-> Empty]

Init == body = Blank /\ dest = 0 /\ channel = Home

Receive(p) ==
  /\ body' = [body EXCEPT ![dest] = p]
  /\ dest' = (dest + 1) % Slots
  /\ UNCHANGED channel

Reset == body' = Blank /\ dest' = 0 /\ UNCHANGED channel

Tune(c) == channel' = c /\ UNCHANGED <<body, dest>>

Restart == body' = Blank /\ dest' = 0 /\ channel' = Home

Next ==
  \/ \E p \in Packets : Receive(p)
  \/ \E c \in Channels : Tune(c)
  \/ Reset \/ Restart

Spec == Init /\ [][Next]_vars
=============================================================================
