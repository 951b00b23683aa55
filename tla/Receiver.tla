------------------------------ MODULE Receiver ------------------------------
(***************************************************************************)
(* The receiver board (Receiver/main.c) as the SPI master sees it.  The    *)
(* SPI slave interrupt handler runs once per transfer that it hears, after *)
(* the bytes went over the wire, and prepares the answer that the NEXT     *)
(* transfer will clock out.  It preempts the main loop (and the end of     *)
(* init) anywhere, also between the accesses of their own set_channel.     *)
(*                                                                         *)
(* The channel is modelled access by access.  The slots are left to the    *)
(* radio: which one is current, and when a packet may land in it, is the   *)
(* subject of ReceiverRadio.  Here a packet may land in any slot at any    *)
(* moment, so nothing that is shown of the link rests on their order.      *)
(*                                                                         *)
(* Data abstraction.  A packet is a model value.  Only the header of the   *)
(* buffer handed to the SPI slave is kept: every other header is           *)
(* overwritten before its buffer is handed over.  A frame's check byte is  *)
(* kept as the body it was computed over, so a frame is intact as long as  *)
(* that body is the one in the buffer when it is clocked out: the buffer   *)
(* is sent by reference and the radio may still write to it.               *)
(***************************************************************************)
EXTENDS SpiProtocol

CONSTANTS
  Packets,  \* what the radio can hear, of one byte at least
  Empty,    \* LOOPBACK(i)[0] = 0, a slot with no packet
  Unhashed  \* a buffer whose check byte was never computed

ASSUME PacketAssumption ==
  /\ Empty \notin Packets
  /\ Unhashed \notin Packets \cup {Empty}

VARIABLES
  on,         \* the receiver is powered
  status,     \* status, result of the last message heard
  rxChannel,  \* FREQUENCY, the channel of the receiver's radio
  current,    \* current_channel
  turn,       \* the access the main loop makes next, as far as the channel goes
  held,       \* channel, the argument of set_channel in the main loop
  body,       \* LOOPBACK(i), the packet held by each buffer
  out         \* the buffer handed to the SPI slave, its header and check byte

mainVars == <<turn, held>>
rxVars   == <<on, status, rxChannel, current, mainVars, body, out>>

NoLoopback  == Slots                \* SPIS_TX_NO_LOOPBACK
BufferIds   == 0 .. Slots
Bodies      == Packets \cup {Empty}

ReceiverTypeOK ==
  /\ on \in BOOLEAN
  /\ status \in RxStatus
  /\ rxChannel \in ChannelCmds /\ current \in ChannelCmds
  /\ turn \in {"listen", "tune", "note"} /\ held \in ChannelCmds
  /\ body \in [BufferIds -> Bodies]
  /\ out \in [id : BufferIds, num : PackNum, status : RxStatus,
              sealed : Bodies \cup {Unhashed}]

\* init() up to the call of allspis_transfer, from which on the handler may run:
\* cleared memory, reset_packs, and the first buffer handed to the SPI slave
\* without a check byte.  set_channel(DEFAULT_CHANNEL) is still to come.
BootOut == [id |-> NoLoopback, num |-> 0, status |-> "WAITING",
            sealed |-> Unhashed]

ReceiverInit ==
  /\ on = TRUE
  /\ status = "WAITING"
  /\ rxChannel = DefaultChannel /\ current = DefaultChannel
  /\ turn = "tune" /\ held = DefaultChannel
  /\ body = [i \in BufferIds |-> Empty]
  /\ out = BootOut

-----------------------------------------------------------------------------
(* spis_event_handler(m), one disjunct per branch.  A message is the frame *)
(* [ok, num, cmd] as received, ok telling whether its check byte matches.  *)

\* The common tail: remember the status, write the header, seal the buffer
\* and hand it to the SPI slave.
Respond(id, num, st) ==
  /\ status' = st
  /\ out' = [id |-> id, num |-> num, status |-> st, sealed |-> body'[id]]

\* Broken variant: a damaged message is answered like a status poll.
OnLossKeepsStatus(m) ==
  /\ ~m.ok
  /\ UNCHANGED <<rxChannel, current, body>>
  /\ Respond(NoLoopback, m.num, status)

OnLoss(m) ==
  /\ ~m.ok
  /\ UNCHANGED <<rxChannel, current, body>>
  /\ Respond(NoLoopback, m.num, "LOSS")

OnGetStatus(m) ==
  /\ m.ok /\ m.cmd = GetStatusCmd
  /\ UNCHANGED <<rxChannel, current, body>>
  /\ Respond(NoLoopback, m.num, status)

\* set_channel, and read_data, which applies the new current_channel again.
OnSetChannel(m) ==
  /\ m.ok /\ m.cmd \in ChannelCmds
  /\ current' = TunedTo(m.cmd) /\ rxChannel' = current'
  /\ UNCHANGED body
  /\ Respond(NoLoopback, m.num, IF current' = m.cmd THEN "SUCCESS" ELSE "FAIL")

OnRequestPack(m) ==
  /\ m.ok /\ m.cmd \in RequestCmds
  /\ UNCHANGED <<rxChannel, current, body>>
  /\ Respond(m.cmd - RequestFloor, m.num, "SUCCESS")

\* reset_packs, and read_data, which applies current_channel.
OnReset(m) ==
  /\ m.ok /\ m.cmd = ResetCmd
  /\ body' = [i \in BufferIds |-> Empty]
  /\ rxChannel' = current
  /\ UNCHANGED current
  /\ Respond(NoLoopback, m.num, "SUCCESS")

OnUnknown(m) ==
  /\ m.ok /\ m.cmd \notin {GetStatusCmd} \cup ClientCmds
  /\ UNCHANGED <<rxChannel, current, body>>
  /\ Respond(NoLoopback, m.num, "FAIL")

SpisEventHandler(m) ==
  /\ on /\ UNCHANGED <<on, mainVars>>
  /\ \/ OnLoss(m) \/ OnGetStatus(m) \/ OnSetChannel(m)
     \/ OnRequestPack(m) \/ OnReset(m) \/ OnUnknown(m)

-----------------------------------------------------------------------------
(* The main loop: set_channel of init and of read_data, in each turn.      *)

\* Broken variant: as in init, whatever the channel is by now.
LoadDefault ==
  /\ on /\ turn = "listen" /\ turn' = "tune"
  /\ held' = DefaultChannel
  /\ UNCHANGED <<on, status, rxChannel, current, body, out>>

\* A packet has ended and the next turn has come to set_channel(current_channel).
LoadChannel ==
  /\ on /\ turn = "listen" /\ turn' = "tune"
  /\ held' = current
  /\ UNCHANGED <<on, status, rxChannel, current, body, out>>

SetFrequency ==
  /\ on /\ turn = "tune" /\ turn' = "note"
  /\ rxChannel' = held
  /\ UNCHANGED <<on, status, current, held, body, out>>

SetCurrent ==
  /\ on /\ turn = "note" /\ turn' = "listen"
  /\ current' = held
  /\ UNCHANGED <<on, status, rxChannel, held, body, out>>

MainLoop == LoadChannel \/ SetFrequency \/ SetCurrent

-----------------------------------------------------------------------------
(* The radio and the supply.                                               *)

ReceivePacket(i, p) ==
  /\ on
  /\ body' = [body EXCEPT ![i] = p]
  /\ UNCHANGED <<on, status, rxChannel, current, mainVars, out>>

\* Power is cut: memory is lost, so the boot values are put in place here.
PowerOff ==
  /\ on
  /\ on' = FALSE
  /\ status' = "WAITING"
  /\ rxChannel' = DefaultChannel /\ current' = DefaultChannel
  /\ turn' = "tune" /\ held' = DefaultChannel
  /\ body' = [i \in BufferIds |-> Empty]
  /\ out' = BootOut

PowerOn ==
  /\ ~on
  /\ on' = TRUE
  /\ UNCHANGED <<status, rxChannel, current, mainVars, body, out>>
=============================================================================
