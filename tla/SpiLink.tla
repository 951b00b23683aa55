------------------------------ MODULE SpiLink ------------------------------
(***************************************************************************)
(* Delivery of one command from the transmitter board to the receiver      *)
(* board over a faulty SPI wire (cmd_deliver and its two phases in         *)
(* Transmitter/transmitter.c, composed with module Receiver).              *)
(*                                                                         *)
(* A transfer is full duplex: while the message goes out, the answer the   *)
(* receiver prepared after the LAST transfer it heard comes in.  The       *)
(* transmitter blocks inside the transfer and inside the delay after it,   *)
(* so each of its steps is one transfer; the receiver's main loop and the  *)
(* environment move between them.                                          *)
(***************************************************************************)
EXTENDS Receiver

CONSTANTS
  MaxProbes,   \* MAX_PROBES, status polls per delivery (16)
  Faults,      \* what may go wrong on this link, a part of AllFaults
  MaxSilence,  \* bound on the deliveries in a row that nobody hears
  Junk         \* the packet field of a frame that was damaged on the wire

AllFaults ==
  { "mosi",      \* a message reaches the receiver damaged
    "miso",      \* an answer reaches the transmitter damaged
    "deselect",  \* the receiver misses a transfer, the pulled-down line reads 0
    "busy",      \* the receiver is still in its handler and clocks out 0xFF
    "power",     \* the receiver loses power and boots again
    "txreset" }  \* the transmitter restarts

ASSUME LinkAssumption ==
  /\ MaxProbes \in Nat \ {0}
  /\ Faults \subseteq AllFaults
  /\ MaxSilence \in 1 .. PackMod - 1
  /\ Junk \notin Packets \cup {Empty, Unhashed}

VARIABLES
  pc,          \* "idle", or the phase of cmd_deliver that runs next
  pack_num,    \* number of the current command
  spi_cmd,     \* the current command
  probes,      \* spi_probes_left
  spi_status,  \* verdict shown to the client
  loopback,    \* packet field of spi_rx, the last frame read
  txChannel,   \* channel of the transmitter's radio
  executed,    \* history: the receiver has executed the current command
  exposed,     \* history: the last channel command the receiver has executed
               \* met a set_channel of the main loop for another channel
  silence      \* history: deliveries begun since the receiver heard anything

txVars   == <<pc, pack_num, spi_cmd, probes, spi_status, loopback, txChannel>>
histVars == <<executed, exposed, silence>>
linkVars == <<rxVars, txVars, histVars>>

Verdicts == {"SUCCESS", "PROBES_OUT", "DISCONNECTED", "UNKNOWN"}

TypeOK ==
  /\ ReceiverTypeOK
  /\ pc \in {"idle", "probe", "check"}
  /\ pack_num \in PackNum
  /\ spi_cmd \in ClientCmds \cup {0}
  /\ probes \in 0 .. MaxProbes
  /\ spi_status \in Verdicts
  /\ loopback \in Bodies \cup {Junk}
  /\ txChannel \in ChannelCmds
  /\ executed \in BOOLEAN /\ exposed \in BOOLEAN
  /\ silence \in 0 .. MaxSilence

Init ==
  /\ ReceiverInit
  /\ pc = "idle" /\ pack_num = 0 /\ spi_cmd = 0 /\ probes = 0
  /\ spi_status = "UNKNOWN" /\ loopback = Empty
  /\ txChannel = DefaultChannel
  /\ executed = FALSE /\ exposed = FALSE
  /\ silence = 0

-----------------------------------------------------------------------------
(* Frames the transmitter reads, [ok, num, status, body]; ok tells whether *)
(* check_hash accepts the frame.                                           *)

\* What the receiver has ready: intact unless its check byte was computed
\* over another body than the one the buffer holds now.
Answer == [ok |-> out.sealed = body[out.id], num |-> out.num,
           status |-> out.status, body |-> body[out.id]]

\* All bytes 0: an empty packet whose check byte is right.
Zeros == [ok |-> TRUE, num |-> 0, status |-> "NO_RESPONSE", body |-> Empty]

\* All bytes 0xFF: the length byte takes check_hash beyond spi_rx, so either
\* outcome can come out; 0xFF is no status of the protocol.
Ones == [ok : BOOLEAN, num : {PackMod - 1}, status : {"ONES"}, body : {Junk}]

Damaged == [ok |-> FALSE, num |-> 0, status |-> "NO_RESPONSE", body |-> Junk]

\* A frame f after the way to the transmitter.
Arrived(f) == {f} \cup (IF "miso" \in Faults THEN {Damaged} ELSE {})

\* A message cmd after the way to the receiver; a damaged one may carry any
\* number, and the receiver looks at nothing else in it.
Heard(cmd) ==
  {[ok |-> TRUE, num |-> pack_num, cmd |-> cmd]} \cup
  (IF "mosi" \in Faults THEN [ok : {FALSE}, num : PackNum, cmd : {cmd}]
                        ELSE {})

\* The frames read when the receiver does not take part in the transfer.
UnheardFrames ==
  (IF ~on \/ "deselect" \in Faults THEN {Zeros} ELSE {}) \cup
  (IF on /\ "busy" \in Faults THEN Ones ELSE {})

\* The message m carries the current command, and not a poll.
Executes(m) == m.ok /\ m.cmd = spi_cmd

TransferHeard(cmd, f) ==
  /\ f \in Arrived(Answer)
  /\ \E m \in Heard(cmd) :
       /\ SpisEventHandler(m)
       /\ executed' = (executed \/ Executes(m))
       /\ exposed' = IF Executes(m) /\ m.cmd \in ChannelCmds
                     THEN turn # "listen" /\ held # m.cmd ELSE exposed
  /\ silence' = 0

TransferUnheard(f) ==
  /\ \E g \in UnheardFrames : f \in Arrived(g)
  /\ UNCHANGED <<rxVars, histVars>>

\* push_message with cmd as the message, f as the frame read.
Transfer(cmd, f) ==
  /\ TransferHeard(cmd, f) \/ TransferUnheard(f)
  /\ loopback' = f.body

Frames == {Damaged, Answer, Zeros} \cup Ones

-----------------------------------------------------------------------------
(* The transmitter.                                                        *)

\* cmd_deliver.  The bound on silence keeps a number from coming round while
\* the answer to its last use is still in the receiver.
Deliver(cmd) ==
  /\ pc = "idle"
  /\ out.sealed # Unhashed => silence < MaxSilence
  /\ pack_num' = NextPack(pack_num)
  /\ spi_status' = "UNKNOWN"
  /\ probes' = MaxProbes
  /\ spi_cmd' = cmd
  /\ pc' = "probe"
  /\ executed' = FALSE
  /\ silence' = IF silence < MaxSilence THEN silence + 1 ELSE silence
  /\ UNCHANGED <<rxVars, loopback, exposed>>

DeliverRequest(cmd) ==
  /\ cmd \in RequestCmds \cup {ResetCmd}
  /\ Deliver(cmd)
  /\ UNCHANGED txChannel

\* transmitter_set_channel: the own radio first, the receiver after it.
SetChannel(ch) ==
  /\ txChannel' = TunedTo(ch)
  /\ Deliver(TunedTo(ch))

\* cmd_deliver_probe: send the command; the frame that comes in is not read.
Probe ==
  /\ pc = "probe"
  /\ \E f \in Frames : Transfer(spi_cmd, f)
  /\ pc' = "check"
  /\ UNCHANGED <<pack_num, spi_cmd, probes, spi_status, txChannel>>

\* What cmd_deliver_check makes of the frame f.
Recheck      == pc' = "check" /\ UNCHANGED spi_status
Resend       == pc' = "probe" /\ UNCHANGED spi_status
Succeed      == pc' = "idle"  /\ spi_status' = "SUCCESS"
Disconnected == pc' = "check" /\ spi_status' = "DISCONNECTED"

Judge(f) ==
  \/ ~f.ok /\ Recheck
  \/ f.ok /\ f.num # pack_num /\ Resend
  \/ /\ f.ok /\ f.num = pack_num
     /\ \/ f.status = "SUCCESS" /\ Succeed
        \/ f.status = "NO_RESPONSE" /\ Disconnected
        \/ f.status = "NOT_READY" /\ Recheck
        \/ f.status \notin {"SUCCESS", "NO_RESPONSE", "NOT_READY"} /\ Resend

\* --spi_probes_left.
ProbeUncounted == UNCHANGED probes  \* broken variant
ProbeCounted   == probes' = probes - 1

\* cmd_deliver_check with a probe left.
Check ==
  /\ pc = "check" /\ probes > 0
  /\ \E f \in Frames : Transfer(GetStatusCmd, f) /\ Judge(f)
  /\ ProbeCounted
  /\ UNCHANGED <<pack_num, spi_cmd, txChannel>>

\* cmd_deliver_check with no probe left.
Exhausted ==
  /\ pc = "check" /\ probes = 0
  /\ spi_status' = IF spi_status = "UNKNOWN" THEN "PROBES_OUT" ELSE spi_status
  /\ pc' = "idle"
  /\ UNCHANGED <<rxVars, pack_num, spi_cmd, probes, loopback, txChannel,
                 histVars>>

-----------------------------------------------------------------------------
(* What moves on its own: the receiver's main loop and radio, the power    *)
(* and the reset button of the transmitter.                                *)

Main == MainLoop /\ UNCHANGED <<txVars, histVars>>

Radio ==
  /\ \E i \in SlotIds, p \in Packets : ReceivePacket(i, p)
  /\ UNCHANGED <<txVars, histVars>>

LosePower ==
  /\ "power" \in Faults
  /\ PowerOff
  /\ executed' = FALSE /\ exposed' = FALSE
  /\ UNCHANGED <<txVars, silence>>

Reboot == PowerOn /\ UNCHANGED <<txVars, histVars>>

TxRestart ==
  /\ "txreset" \in Faults
  /\ pc' = "idle" /\ pack_num' = 0 /\ spi_cmd' = 0 /\ probes' = 0
  /\ spi_status' = "UNKNOWN" /\ loopback' = Empty
  /\ txChannel' = DefaultChannel
  /\ executed' = FALSE
  /\ UNCHANGED <<rxVars, exposed, silence>>

\* The client: any command, and any byte as the channel (one beyond each end
\* of the range stands for all the bytes that are no channel).
Client ==
  \/ \E cmd \in RequestCmds \cup {ResetCmd} : DeliverRequest(cmd)
  \/ \E ch \in MinChannel - 1 .. MaxChannel + 1 : SetChannel(ch)

Next ==
  \/ Client \/ Probe \/ Check \/ Exhausted
  \/ Main \/ Radio \/ LosePower \/ Reboot \/ TxRestart

SafeSpec == Init /\ [][Next]_linkVars

\* A delivery is a chain of calls: once begun it keeps running.
Fairness == WF_linkVars(Probe) /\ WF_linkVars(Check) /\ WF_linkVars(Exhausted)

Spec == SafeSpec /\ Fairness

-----------------------------------------------------------------------------
(* What the client relies on.                                              *)

\* A delivery ends now, with the verdict v.
Verdict(v) == pc # "idle" /\ pc' = "idle" /\ spi_status' = v

\* Success is said of a channel command only if the receiver's radio is then
\* on the transmitter's channel ("waits for confirmation", transmitter.c:172).
\* The one exception is a command that fell into the main loop's own
\* set_channel (allradio.c:139) or into the boot before main.c:162: an older
\* channel is stored over it, confirmed or not.
ChannelConfirmed ==
  [][Verdict("SUCCESS") /\ spi_cmd \in ChannelCmds /\ ~exposed
       => rxChannel' = txChannel]_linkVars

\* Success rests on an answer to this delivery, never on one the receiver had
\* prepared for an earlier delivery and kept while it heard nothing.
FreshSuccess == [][Verdict("SUCCESS") => silence = 0]_linkVars

\* After a successful request for slot i the client holds the packet of slot i
\* or an empty packet, never another slot's packet nor damaged bytes, however
\* the radio overwrites slots and whatever the wire does.
PayloadNotForeign ==
  [][Verdict("SUCCESS") /\ spi_cmd \in RequestCmds
       => loopback' \in {Empty, body[spi_cmd - RequestFloor]}]_linkVars

\* A successful request for slot i ends with the frame that carries slot i
\* ("command for requesting loopback of n'th pack", spi_protocol.h:37), not
\* with an answer to a status poll, whose packet field is always empty.
PayloadDelivered ==
  [][Verdict("SUCCESS") /\ spi_cmd \in RequestCmds
       => out.id = spi_cmd - RequestFloor]_linkVars

\* A delivery of which the receiver heard nothing ends in "no connection"
\* ("receiver is off", transmitter.c:141, and the report of cli.c:50).
OffIsDisconnected ==
  [][\A v \in Verdicts : Verdict(v) /\ silence' > 0 => v = "DISCONNECTED"]_linkVars

\* Every delivery returns to its caller: cmd_deliver_probe and
\* cmd_deliver_check call each other, but never without spending a probe.
DeliveryReturns == pc # "idle" ~> pc = "idle"

\* The link keeps the promise of CommandDelivery.
Delivery == INSTANCE CommandDelivery WITH
  Commands <- ClientCmds,
  Channels <- ChannelCmds,
  Home     <- DefaultChannel,
  busy     <- pc # "idle",
  cmd      <- spi_cmd,
  verdict  <- IF pc = "idle" THEN spi_status ELSE "UNKNOWN",
  channel  <- rxChannel

ImplementsDelivery == Delivery!Spec
=============================================================================
