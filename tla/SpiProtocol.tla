---------------------------- MODULE SpiProtocol ----------------------------
(***************************************************************************)
(* The vocabulary the two boards share (common/spi_protocol.h): the byte   *)
(* codes of the commands the transmitter sends, the statuses the receiver  *)
(* answers with, and the one-byte number that pairs a command with its     *)
(* answer.                                                                 *)
(***************************************************************************)
EXTENDS Integers

CONSTANTS
  Slots,        \* RX_MAX_PACK_BUFFER, packets the receiver keeps (5)
  MinChannel,   \* IEEE_MIN_CHANNEL, first radio channel (11)
  MaxChannel,   \* IEEE_MAX_CHANNEL, last radio channel (26)
  RequestFloor, \* TX_REQUEST_PACK_FLOOR, code of the request for slot 0 (27)
  PackMod       \* values of the uint8_t pack_num (256)

\* TX_GET_STATUS and TX_RESET_RECEIVER
GetStatusCmd == 1
ResetCmd     == 2

ChannelCmds    == MinChannel .. MaxChannel
RequestCmds    == RequestFloor .. RequestFloor + Slots - 1
RequestPack(n) == RequestFloor + n

\* What cmd_deliver is called with: everything but the status poll, which
\* the delivery sends on its own.
ClientCmds == ChannelCmds \cup RequestCmds \cup {ResetCmd}

\* The codes share one byte with the channel numbers: the receiver tells the
\* kinds of command apart by range, so the ranges must not meet.
ASSUME ProtocolAssumption ==
  /\ Slots \in Nat \ {0}
  /\ MinChannel \in Nat /\ MaxChannel \in Nat /\ RequestFloor \in Nat
  /\ ResetCmd < MinChannel
  /\ MinChannel <= MaxChannel
  /\ MaxChannel < RequestFloor
  /\ PackMod \in Nat /\ PackMod > 1

\* rx_status_t
RxStatus == {"NO_RESPONSE", "WAITING", "LOSS", "NOT_READY", "SUCCESS", "FAIL"}

\* The message number and its increment, which wraps like a uint8_t.
PackNum         == 0 .. PackMod - 1
NextPackSame(n) == n  \* broken variant
NextPack(n)     == IF n = PackMod - 1 THEN 0 ELSE n + 1

\* The ring of slots and the step of main() from one slot to the next.
SlotIds         == 0 .. Slots - 1
NextSlotOpen(i) == i + 1  \* broken variant
NextSlot(i)     == (i + 1) % Slots

\* set_channel of allradio.c, which falls back to the first channel
\* (DEFAULT_CHANNEL is IEEE_MIN_CHANNEL) when the argument is no channel.
DefaultChannel == MinChannel
TunedToAny(ch) == ch  \* broken variant
TunedTo(ch)    == IF ch \in ChannelCmds THEN ch ELSE DefaultChannel
=============================================================================
