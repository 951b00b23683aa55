------------------------- MODULE SpiProtocolLemmas -------------------------
(***************************************************************************)
(* Facts about the vocabulary of module SpiProtocol that the proofs about  *)
(* both boards cite.                                                       *)
(***************************************************************************)
EXTENDS SpiProtocol, TLAPS

\* The codes of the protocol do not meet: the receiver can tell the kinds of
\* command apart by the range their code lies in (spi_protocol.h).
LEMMA CodesApart ==
  /\ GetStatusCmd \notin ClientCmds /\ 0 \notin ClientCmds
  /\ ResetCmd \notin ChannelCmds /\ ResetCmd \notin RequestCmds
  /\ \A c \in ChannelCmds : c \notin RequestCmds
  /\ DefaultChannel \in ChannelCmds
BY ProtocolAssumption
   DEF GetStatusCmd, ResetCmd, ClientCmds, ChannelCmds, RequestCmds, DefaultChannel

\* set_channel always leaves the radio on a channel of the band.
LEMMA TunedToType == \A ch : TunedTo(ch) \in ChannelCmds
BY CodesApart DEF TunedTo

\* The message number stays a byte.
LEMMA NextPackType == \A n \in PackNum : NextPack(n) \in PackNum
BY ProtocolAssumption DEF NextPack, PackNum

\* The ring of slots begins with slot 0 and closes on itself (main.c:173).
LEMMA RingCloses == 0 \in SlotIds /\ \A i \in SlotIds : NextSlot(i) \in SlotIds
<1>1. \A a \in Nat, b \in Nat \ {0} : a % b \in 0 .. b - 1
  OBVIOUS
<1>2. Slots \in Nat \ {0} /\ \A i \in SlotIds : i + 1 \in Nat
  BY ProtocolAssumption DEF SlotIds
<1> QED BY <1>1, <1>2 DEF SlotIds, NextSlot
=============================================================================
