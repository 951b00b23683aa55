---------------------------- MODULE ReceiverRadio ----------------------------
(***************************************************************************)
(* The receiver's main loop, its SPI interrupt handler and its radio, one  *)
(* access to shared memory or to a radio register at a time                *)
(* (Receiver/main.c with common/radio/allradio.c).                         *)
(*                                                                         *)
(* The handler preempts the main loop between any two accesses and runs to *)
(* its end; both drive the radio through read_data, and nothing keeps them *)
(* apart.  The radio works at its own pace.  Only the commands that touch  *)
(* the radio are here; module Receiver has the whole handler.              *)
(***************************************************************************)
EXTENDS SpiProtocol

CONSTANTS
  Packets,  \* what the radio can hear, of one byte at least
  Empty,    \* a slot with no packet
  Quiet     \* commands reach the receiver only while it waits for a packet

ASSUME RadioAssumption == Empty \notin Packets /\ Quiet \in BOOLEAN

VARIABLES
  \* Memory the main loop and the handler share.
  body,             \* LOOPBACK(i), the packet in each slot
  dest,             \* radio_destination
  current_channel,
  \* Local to the main loop.
  pc,               \* the access it makes next
  buf,              \* argument of read_data, the slot
  channel,          \* argument of set_channel
  oldDest,          \* radio_destination as loaded for its increment
  \* Registers of the radio.
  FREQUENCY,
  PACKETPTR,
  EVENTS_DISABLED,
  EVENTS_PHYEND,
  \* Inside the radio.
  radio,            \* its state
  ptr               \* the slot it writes to, PACKETPTR as of the START task

locals    == <<buf, channel, oldDest>>
registers == <<FREQUENCY, PACKETPTR, EVENTS_DISABLED, EVENTS_PHYEND>>
vars      == <<body, dest, current_channel, pc, locals, registers, radio, ptr>>

Cleared == [i \in SlotIds |-> Empty]

\* The accesses of one turn of the main loop, in program order.
MainPoints ==
  { "boot",      \* set_channel(DEFAULT_CHANNEL) of init: FREQUENCY = ...
    "booted",    \* the same: current_channel = channel
    "argument",  \* load radio_destination for the call of read_data
    "clear",     \* radio_disable: EVENTS_DISABLED = 0
    "disable",   \* radio_disable: TASKS_DISABLE = 1
    "wait",      \* radio_disable: while (EVENTS_DISABLED == 0)
    "ack",       \* radio_disable: EVENTS_DISABLED = 0
    "pointer",   \* read_data: PACKETPTR = buf
    "load",      \* read_data: load current_channel for set_channel
    "frequency", \* set_channel: FREQUENCY = ...
    "current",   \* set_channel: current_channel = channel
    "rxen",      \* read_data: TASKS_RXEN = 1
    "listen",    \* read_data: while (!EVENTS_PHYEND)
    "end",       \* read_data: EVENTS_PHYEND = 0
    "fetch",     \* main: load radio_destination
    "store" }    \* main: radio_destination = (... + 1) % RX_MAX_PACK_BUFFER

RadioStates == {"disabled", "disabling", "rampup", "rx", "rxidle"}

TypeOK ==
  /\ body \in [SlotIds -> Packets \cup {Empty}] /\ dest \in SlotIds
  /\ current_channel \in ChannelCmds
  /\ pc \in MainPoints
  /\ buf \in SlotIds /\ channel \in ChannelCmds /\ oldDest \in SlotIds
  /\ FREQUENCY \in ChannelCmds /\ PACKETPTR \in SlotIds
  /\ EVENTS_DISABLED \in BOOLEAN /\ EVENTS_PHYEND \in BOOLEAN
  /\ radio \in RadioStates /\ ptr \in SlotIds

\* init() has run up to the call of allspis_transfer: the handler may run.
Init ==
  /\ body = Cleared /\ dest = 0 /\ current_channel = DefaultChannel
  /\ pc = "boot" /\ buf = 0 /\ channel = DefaultChannel /\ oldDest = 0
  /\ FREQUENCY = DefaultChannel /\ PACKETPTR = 0
  /\ EVENTS_DISABLED = FALSE /\ EVENTS_PHYEND = FALSE
  /\ radio = "disabled" /\ ptr = 0

-----------------------------------------------------------------------------
(* The main loop.                                                          *)

Go(from, to) == pc = from /\ pc' = to

BootFrequency ==
  /\ Go("boot", "booted")
  /\ FREQUENCY' = DefaultChannel
  /\ UNCHANGED <<body, dest, current_channel, locals, PACKETPTR,
                 EVENTS_DISABLED, EVENTS_PHYEND, radio, ptr>>

BootCurrent ==
  /\ Go("booted", "argument")
  /\ current_channel' = DefaultChannel
  /\ UNCHANGED <<body, dest, locals, registers, radio, ptr>>

Argument ==
  /\ Go("argument", "clear")
  /\ buf' = dest
  /\ UNCHANGED <<body, dest, current_channel, channel, oldDest, registers,
                 radio, ptr>>

\* The two stores to EVENTS_DISABLED in radio_disable.
ClearDisabled ==
  /\ Go("clear", "disable") \/ Go("ack", "pointer")
  /\ EVENTS_DISABLED' = FALSE
  /\ UNCHANGED <<body, dest, current_channel, locals, FREQUENCY, PACKETPTR,
                 EVENTS_PHYEND, radio, ptr>>

TaskDisable ==
  /\ Go("disable", "wait")
  /\ radio' = "disabling"
  /\ UNCHANGED <<body, dest, current_channel, locals, registers, ptr>>

WaitDisabled ==
  /\ EVENTS_DISABLED
  /\ Go("wait", "ack")
  /\ UNCHANGED <<body, dest, current_channel, locals, registers, radio, ptr>>

SetPointer ==
  /\ Go("pointer", "load")
  /\ PACKETPTR' = buf
  /\ UNCHANGED <<body, dest, current_channel, locals, FREQUENCY,
                 EVENTS_DISABLED, EVENTS_PHYEND, radio, ptr>>

LoadChannel ==
  /\ Go("load", "frequency")
  /\ channel' = current_channel
  /\ UNCHANGED <<body, dest, current_channel, buf, oldDest, registers, radio, ptr>>

SetFrequency ==
  /\ Go("frequency", "current")
  /\ FREQUENCY' = channel
  /\ UNCHANGED <<body, dest, current_channel, locals, PACKETPTR,
                 EVENTS_DISABLED, EVENTS_PHYEND, radio, ptr>>

SetCurrent ==
  /\ Go("current", "rxen")
  /\ current_channel' = channel
  /\ UNCHANGED <<body, dest, locals, registers, radio, ptr>>

\* Broken variant: the main loop calls read_data with is_async.
TaskRxenAsync ==
  /\ Go("rxen", "fetch")
  /\ radio' = IF radio = "disabled" THEN "rampup" ELSE radio
  /\ UNCHANGED <<body, dest, current_channel, locals, registers, ptr>>

\* TASKS_RXEN is heeded only by a disabled radio.
TaskRxen ==
  /\ Go("rxen", "listen")
  /\ radio' = IF radio = "disabled" THEN "rampup" ELSE radio
  /\ UNCHANGED <<body, dest, current_channel, locals, registers, ptr>>

WaitPhyend ==
  /\ EVENTS_PHYEND
  /\ Go("listen", "end")
  /\ UNCHANGED <<body, dest, current_channel, locals, registers, radio, ptr>>

ClearPhyend ==
  /\ Go("end", "fetch")
  /\ EVENTS_PHYEND' = FALSE
  /\ UNCHANGED <<body, dest, current_channel, locals, FREQUENCY, PACKETPTR,
                 EVENTS_DISABLED, radio, ptr>>

FetchDest ==
  /\ Go("fetch", "store")
  /\ oldDest' = dest
  /\ UNCHANGED <<body, dest, current_channel, buf, channel, registers, radio, ptr>>

StoreDest ==
  /\ Go("store", "argument")
  /\ dest' = NextSlot(oldDest)
  /\ UNCHANGED <<body, current_channel, locals, registers, radio, ptr>>

Main ==
  \/ BootFrequency \/ BootCurrent
  \/ Argument \/ ClearDisabled \/ TaskDisable \/ WaitDisabled
  \/ SetPointer \/ LoadChannel \/ SetFrequency \/ SetCurrent \/ TaskRxen
  \/ WaitPhyend \/ ClearPhyend \/ FetchDest \/ StoreDest

-----------------------------------------------------------------------------
(* The radio.                                                              *)

RadioDisabled ==
  /\ radio = "disabling"
  /\ radio' = "disabled" /\ EVENTS_DISABLED' = TRUE
  /\ UNCHANGED <<body, dest, current_channel, pc, locals, FREQUENCY, PACKETPTR,
                 EVENTS_PHYEND, ptr>>

\* The READY event starts the reception (SHORTS READY_START).
RadioReady ==
  /\ radio = "rampup"
  /\ radio' = "rx" /\ ptr' = PACKETPTR
  /\ UNCHANGED <<body, dest, current_channel, pc, locals, registers>>

RadioReceive(p) ==
  /\ radio = "rx"
  /\ body' = [body EXCEPT ![ptr] = p]
  /\ EVENTS_PHYEND' = TRUE
  /\ radio' = "rxidle"
  /\ UNCHANGED <<dest, current_channel, pc, locals, FREQUENCY, PACKETPTR,
                 EVENTS_DISABLED, ptr>>

-----------------------------------------------------------------------------
(* The handler's two commands that touch the radio.                        *)

MayInterrupt == Quiet => pc = "listen" /\ ~EVENTS_PHYEND

\* Broken variant: the radio goes on with the slot it had.
ReadDataOldSlot ==
  /\ EVENTS_DISABLED' = FALSE
  /\ FREQUENCY' = current_channel'
  /\ radio' = "rampup"
  /\ UNCHANGED <<pc, locals, PACKETPTR, ptr>>

\* read_data(LOOPBACK(radio_destination), true): radio_disable waits for the
\* DISABLED event and clears it, current_channel is applied, and the radio is
\* enabled again.
ReadDataAsync ==
  /\ EVENTS_DISABLED' = FALSE
  /\ PACKETPTR' = dest' /\ FREQUENCY' = current_channel'
  /\ radio' = "rampup"
  /\ UNCHANGED <<pc, locals, ptr>>

IsrSetChannel(cmd) ==
  /\ MayInterrupt
  /\ current_channel' = cmd
  /\ UNCHANGED <<body, dest, EVENTS_PHYEND>>
  /\ ReadDataAsync

\* Broken variant: the reset leaves the radio alone.
IsrResetOnly ==
  /\ MayInterrupt
  /\ dest' = 0 /\ body' = Cleared
  /\ UNCHANGED <<current_channel, pc, locals, registers, radio, ptr>>

\* A packet whose reception ends between reset_packs and radio_disable is
\* written to a slot that has been cleared.
IsrReset ==
  /\ MayInterrupt
  /\ dest' = 0
  /\ \/ body' = Cleared /\ UNCHANGED EVENTS_PHYEND
     \/ /\ ~Quiet /\ radio = "rx"
        /\ \E p \in Packets : body' = [Cleared EXCEPT ![ptr] = p]
        /\ EVENTS_PHYEND' = TRUE
  /\ UNCHANGED current_channel
  /\ ReadDataAsync

Isr == IsrReset \/ \E cmd \in ChannelCmds : IsrSetChannel(cmd)

Next ==
  \/ Main \/ Isr
  \/ RadioDisabled \/ RadioReady \/ \E p \in Packets : RadioReceive(p)

SafeSpec == Init /\ [][Next]_vars

\* The processor keeps running the main loop and the radio finishes what it
\* was told to do; nobody has to send a packet or a command.
Fairness == WF_vars(Main) /\ WF_vars(RadioDisabled) /\ WF_vars(RadioReady)

Spec == SafeSpec /\ Fairness

-----------------------------------------------------------------------------
\* After a reset the slots fill from the first one on, so a filled slot has no
\* empty one before it ("return writing pos to the start", spi_protocol.h:31).
FillsFromStart ==
  \A i \in SlotIds \ {0} : body[i] # Empty => body[i - 1] # Empty

\* radio_disable returns: the main loop gets back to waiting for packets
\* ("wait for packet and move to the next buffer", main.c:171).
MainListensAgain == pc = "wait" ~> pc = "listen"

\* The loop, the radio and the handler together keep the ring of slots; a
\* packet counts as received when the radio has written it.
Ring == INSTANCE PacketRing WITH
  Channels <- ChannelCmds,
  Home     <- DefaultChannel,
  channel  <- current_channel,
  dest     <- IF EVENTS_PHYEND \/ pc \in {"end", "fetch", "store"}
              THEN NextSlot(dest) ELSE dest

ImplementsRing == Ring!Spec
=============================================================================
