----------------------------- MODULE MCSpiLink -----------------------------
(***************************************************************************)
(* SpiLink on small instances.  Where packets matter, two slots and two    *)
(* packets make a slot of its own, a foreign slot and an overwritten slot; *)
(* the packets are interchangeable in the runs that check no liveness.     *)
(***************************************************************************)
EXTENDS SpiLink, TLC

PacketSymmetry == Permutations(Packets)
=============================================================================
