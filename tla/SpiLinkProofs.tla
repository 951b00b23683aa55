--------------------------- MODULE SpiLinkProofs ---------------------------
(***************************************************************************)
(* Theorems of module SpiLink, for every number of slots, channels,        *)
(* probes and message numbers and every set of packets.                    *)
(***************************************************************************)
EXTENDS SpiLink, SpiProtocolLemmas

\* What the receiver can read in a message.
Messages == [ok : BOOLEAN, num : PackNum, cmd : ClientCmds \cup {GetStatusCmd}]

\* A run of the interrupt handler leaves a sealed answer with the number of
\* the message it answers and the status it remembers.
LEMMA HandlerAnswers ==
  ASSUME ReceiverTypeOK, NEW m \in Messages, SpisEventHandler(m)
  PROVE  /\ ReceiverTypeOK'
         /\ on /\ on'
         /\ out'.num = m.num /\ out'.status = status'
         /\ out'.sealed = body'[out'.id]
         /\ out'.sealed # Unhashed
<1>1. /\ on /\ on'
      /\ body' \in [BufferIds -> Bodies]
      /\ rxChannel' \in ChannelCmds /\ current' \in ChannelCmds
      /\ UNCHANGED mainVars
  BY ProtocolAssumption, TunedToType
     DEF SpisEventHandler, OnLoss, OnGetStatus, OnSetChannel, OnRequestPack,
         OnReset, OnUnknown, ReceiverTypeOK, Bodies, BufferIds, SlotIds
<1>2. \E id \in BufferIds, st \in RxStatus : Respond(id, m.num, st)
  <2>1. CASE OnLoss(m)
    BY <2>1, ProtocolAssumption
       DEF OnLoss, BufferIds, NoLoopback, RxStatus
  <2>2. CASE OnGetStatus(m)
    BY <2>2, ProtocolAssumption
       DEF OnGetStatus, BufferIds, NoLoopback, ReceiverTypeOK
  <2>3. CASE OnSetChannel(m)
    BY <2>3, ProtocolAssumption
       DEF OnSetChannel, BufferIds, NoLoopback, RxStatus
  <2>4. CASE OnRequestPack(m)
    <3>1. m.cmd - RequestFloor \in BufferIds
      BY <2>4, ProtocolAssumption DEF OnRequestPack, RequestCmds, BufferIds
    <3> QED BY <2>4, <3>1 DEF OnRequestPack, RxStatus
  <2>5. CASE OnReset(m)
    BY <2>5, ProtocolAssumption
       DEF OnReset, BufferIds, NoLoopback, RxStatus
  <2>6. CASE OnUnknown(m)
    BY <2>6, ProtocolAssumption
       DEF OnUnknown, BufferIds, NoLoopback, RxStatus
  <2> QED BY <2>1, <2>2, <2>3, <2>4, <2>5, <2>6 DEF SpisEventHandler
<1>3. PICK id \in BufferIds, st \in RxStatus : Respond(id, m.num, st)
  BY <1>2
<1>4. body'[id] \in Bodies
  BY <1>1
<1>5. /\ status' = st
      /\ out' = [id |-> id, num |-> m.num, status |-> st, sealed |-> body'[id]]
  BY <1>3 DEF Respond
<1> QED
  BY <1>1, <1>4, <1>5, PacketAssumption
     DEF ReceiverTypeOK, Messages, Bodies, mainVars

\* What may arrive at the receiver.
LEMMA HeardType ==
  ASSUME pack_num \in PackNum, NEW cmd \in ClientCmds \cup {GetStatusCmd}
  PROVE  Heard(cmd) \subseteq Messages
<1>1. [ok |-> TRUE, num |-> pack_num, cmd |-> cmd] \in Messages
  BY DEF Messages
<1>2. [ok : {FALSE}, num : PackNum, cmd : {cmd}] \subseteq Messages
  <2> SUFFICES ASSUME NEW m \in [ok : {FALSE}, num : PackNum, cmd : {cmd}]
               PROVE  m \in Messages
    OBVIOUS
  <2>1. m.ok \in BOOLEAN /\ m.num \in PackNum
        /\ m.cmd \in ClientCmds \cup {GetStatusCmd}
        /\ m = [ok |-> m.ok, num |-> m.num, cmd |-> m.cmd]
    OBVIOUS
  <2> QED BY <2>1 DEF Messages
<1> QED BY <1>1, <1>2 DEF Heard

\* The packet field of every frame.
LEMMA FrameBodies ==
  ASSUME ReceiverTypeOK, NEW f \in Frames
  PROVE  f.body \in Bodies \cup {Junk}
<1>1. CASE f = Damaged
  BY <1>1 DEF Damaged
<1>2. CASE f = Answer
  <2>1. body[out.id] \in Bodies
    BY DEF ReceiverTypeOK
  <2> QED BY <1>2, <2>1 DEF Answer
<1>3. CASE f = Zeros
  BY <1>3 DEF Zeros, Bodies
<1>4. CASE f \in Ones
  BY <1>4 DEF Ones
<1> QED BY <1>1, <1>2, <1>3, <1>4 DEF Frames

\* A transfer keeps the types of everything it touches.
LEMMA TransferType ==
  ASSUME TypeOK, NEW cmd \in ClientCmds \cup {GetStatusCmd}, NEW f \in Frames,
         Transfer(cmd, f)
  PROVE  /\ ReceiverTypeOK'
         /\ loopback' \in Bodies \cup {Junk}
         /\ executed' \in BOOLEAN /\ exposed' \in BOOLEAN
         /\ silence' \in 0 .. MaxSilence
<1>1. loopback' \in Bodies \cup {Junk}
  BY FrameBodies DEF Transfer, TypeOK
<1>2. CASE TransferHeard(cmd, f)
  <2>1. PICK m \in Heard(cmd) :
          /\ SpisEventHandler(m)
          /\ executed' = (executed \/ Executes(m))
          /\ exposed' = IF Executes(m) /\ m.cmd \in ChannelCmds
                        THEN turn # "listen" /\ held # m.cmd ELSE exposed
    BY <1>2 DEF TransferHeard
  <2>2. m \in Messages
    BY HeardType DEF TypeOK
  <2>3. ReceiverTypeOK'
    BY <2>1, <2>2, HandlerAnswers DEF TypeOK
  <2>4. executed' \in BOOLEAN /\ exposed' \in BOOLEAN
    BY <2>1 DEF TypeOK
  <2>5. silence' \in 0 .. MaxSilence
    BY <1>2, LinkAssumption, ProtocolAssumption DEF TransferHeard
  <2> QED BY <1>1, <2>3, <2>4, <2>5
<1>3. CASE TransferUnheard(f)
  BY <1>1, <1>3
     DEF TransferUnheard, TypeOK, ReceiverTypeOK, rxVars, mainVars, histVars
<1> QED BY <1>2, <1>3 DEF Transfer

-----------------------------------------------------------------------------
\* The values a receiver boots with.
LEMMA BootType ==
  /\ [i \in BufferIds |-> Empty] \in [BufferIds -> Bodies]
  /\ BootOut \in [id : BufferIds, num : PackNum, status : RxStatus,
                  sealed : Bodies \cup {Unhashed}]
<1>1. NoLoopback \in BufferIds /\ 0 \in PackNum
  BY ProtocolAssumption DEF NoLoopback, BufferIds, PackNum
<1> QED BY <1>1 DEF BootOut, Bodies, RxStatus

LEMMA InitType == Init => TypeOK
<1> SUFFICES ASSUME Init PROVE TypeOK
  OBVIOUS
<1>1. ReceiverTypeOK
  BY BootType, CodesApart DEF Init, ReceiverInit, ReceiverTypeOK, RxStatus
<1>2. /\ pack_num \in PackNum
      /\ probes \in 0 .. MaxProbes /\ silence \in 0 .. MaxSilence
  BY ProtocolAssumption, LinkAssumption DEF Init, PackNum
<1> QED BY <1>1, <1>2, CodesApart DEF Init, TypeOK, Verdicts, Bodies

LEMMA DeliverType ==
  ASSUME TypeOK, NEW cmd \in ClientCmds, Deliver(cmd), txChannel' \in ChannelCmds
  PROVE  TypeOK'
<1>1. ReceiverTypeOK' /\ loopback' \in Bodies \cup {Junk}
  BY DEF Deliver, TypeOK, ReceiverTypeOK, rxVars, mainVars
<1>2. pack_num' \in PackNum
  BY NextPackType DEF Deliver, TypeOK
<1>3. probes' \in 0 .. MaxProbes /\ silence' \in 0 .. MaxSilence
  BY LinkAssumption, ProtocolAssumption DEF Deliver, TypeOK
<1> QED BY <1>1, <1>2, <1>3 DEF Deliver, TypeOK, Verdicts

LEMMA ClientType ==
  ASSUME TypeOK, Client
  PROVE  TypeOK'
<1>1. CASE \E cmd \in RequestCmds \cup {ResetCmd} : DeliverRequest(cmd)
  BY <1>1, DeliverType DEF DeliverRequest, ClientCmds, TypeOK
<1>2. CASE \E ch \in MinChannel - 1 .. MaxChannel + 1 : SetChannel(ch)
  BY <1>2, DeliverType, TunedToType DEF SetChannel, ClientCmds
<1> QED BY <1>1, <1>2 DEF Client

\* The main loop, a packet, and the end and the return of the power keep the
\* types.
LEMMA ReceiverStepType ==
  ASSUME ReceiverTypeOK,
         MainLoop \/ PowerOff \/ PowerOn \/
           \E i \in SlotIds, p \in Packets : ReceivePacket(i, p)
  PROVE  ReceiverTypeOK'
<1>1. CASE PowerOff
  BY <1>1, CodesApart, BootType DEF PowerOff, ReceiverTypeOK, RxStatus
<1>2. CASE PowerOn
  BY <1>2 DEF PowerOn, ReceiverTypeOK, mainVars
<1>3. CASE MainLoop
  BY <1>3 DEF MainLoop, LoadChannel, SetFrequency, SetCurrent, ReceiverTypeOK
<1>4. CASE \E i \in SlotIds, p \in Packets : ReceivePacket(i, p)
  <2>1. PICK i \in SlotIds, p \in Packets : ReceivePacket(i, p)
    BY <1>4
  <2>2. i \in BufferIds
    BY ProtocolAssumption DEF SlotIds, BufferIds
  <2> QED BY <2>1, <2>2 DEF ReceivePacket, ReceiverTypeOK, Bodies, mainVars
<1> QED BY <1>1, <1>2, <1>3, <1>4

LEMMA ProbeType ==
  ASSUME TypeOK, Probe, spi_cmd \in ClientCmds
  PROVE  TypeOK'
<1>1. PICK f \in Frames : Transfer(spi_cmd, f)
  BY DEF Probe
<1> QED BY <1>1, TransferType DEF Probe, TypeOK

LEMMA CheckType ==
  ASSUME TypeOK, Check
  PROVE  TypeOK'
<1>1. PICK f \in Frames : Transfer(GetStatusCmd, f) /\ Judge(f)
  BY DEF Check
<1>2. pc' \in {"idle", "probe", "check"} /\ spi_status' \in Verdicts
  BY <1>1 DEF Judge, Recheck, Resend, Succeed, Disconnected, TypeOK, Verdicts
<1>3. probes' \in 0 .. MaxProbes
  BY LinkAssumption DEF Check, ProbeCounted, TypeOK
<1> QED BY <1>1, <1>2, <1>3, TransferType DEF Check, TypeOK

-----------------------------------------------------------------------------
(* Type correctness.  It is inductive once it says that a delivery under   *)
(* way has a command; that it has no verdict yet is needed further on.     *)

TypeInv ==
  /\ TypeOK
  /\ pc # "idle" => /\ spi_cmd \in ClientCmds
                    /\ spi_status \in {"UNKNOWN", "DISCONNECTED"}

LEMMA StepType ==
  ASSUME TypeInv, [Next]_linkVars
  PROVE  TypeInv'
<1> USE DEF TypeInv
<1>1. CASE Client
  <2>1. spi_cmd' \in ClientCmds
    BY <1>1, TunedToType
       DEF Client, DeliverRequest, SetChannel, Deliver, ClientCmds
  <2>2. spi_status' = "UNKNOWN"
    BY <1>1 DEF Client, DeliverRequest, SetChannel, Deliver
  <2> QED BY <1>1, <2>1, <2>2, ClientType
<1>2. CASE Probe
  BY <1>2, ProbeType DEF Probe
<1>3. CASE Check
  BY <1>3, CheckType
     DEF Check, Judge, Recheck, Resend, Succeed, Disconnected
<1>4. CASE Exhausted
  BY <1>4 DEF Exhausted, TypeOK, ReceiverTypeOK, rxVars, mainVars, histVars, Verdicts
<1>5. CASE Main \/ Radio \/ LosePower \/ Reboot
  <2>1. /\ ReceiverTypeOK'
        /\ UNCHANGED <<txVars, silence>>
        /\ executed' \in BOOLEAN /\ exposed' \in BOOLEAN
    BY <1>5, ReceiverStepType
       DEF Main, Radio, LosePower, Reboot, TypeOK, histVars
  <2> QED BY <2>1 DEF TypeOK, txVars
<1>6. CASE TxRestart
  <2>1. 0 \in PackNum /\ 0 \in 0 .. MaxProbes
    BY ProtocolAssumption, LinkAssumption DEF PackNum
  <2> QED BY <1>6, <2>1, CodesApart
          DEF TxRestart, TypeOK, ReceiverTypeOK, rxVars, mainVars, Verdicts, Bodies
<1>7. CASE UNCHANGED linkVars
  BY <1>7
     DEF linkVars, rxVars, mainVars, txVars, histVars, TypeOK, ReceiverTypeOK
<1> QED BY <1>1, <1>2, <1>3, <1>4, <1>5, <1>6, <1>7 DEF Next

LEMMA TypeInvariant == SafeSpec => []TypeInv
<1>1. Init => TypeInv
  BY InitType DEF Init, TypeInv
<1> QED BY <1>1, StepType, PTL DEF SafeSpec

\* Every variable of the link keeps its type: message numbers and probe
\* counts stay in their bytes, the radios on channels of the band, the buffer
\* that is sent one of the board's.
THEOREM TypeCorrect == SafeSpec => []TypeOK
BY TypeInvariant, PTL DEF TypeInv

-----------------------------------------------------------------------------
(* Success means executed.  The receiver answers a poll with the status it *)
(* remembers, so success can be read only when the last command it heard   *)
(* was executed; and while every transfer is heard, the last command heard *)
(* is the current one from its first transfer on.  The channel stays as it *)
(* was set because the main loop, unless a command fell into its own       *)
(* set_channel, only repeats what is already there.                        *)

Hearing == "deselect" \notin Faults /\ "busy" \notin Faults

StatusInv ==
  /\ out.status = status
  /\ ~on => status = "WAITING"
  /\ pc = "check" /\ status = "SUCCESS" => executed

\* The main loop has no older channel in hand.
Settled ==
  ~exposed => rxChannel = current /\ (turn # "listen" => held = current)

ChannelInv ==
  /\ Settled
  /\ pc # "idle" /\ spi_cmd \in ChannelCmds =>
       /\ spi_cmd = txChannel
       /\ executed /\ ~exposed => rxChannel = spi_cmd

ExecutedInv == TypeInv /\ StatusInv /\ ChannelInv

\* What the handler does to the channel, branch by branch.
LEMMA HandlerTunes ==
  ASSUME NEW m, SpisEventHandler(m), m.ok \in BOOLEAN,
         m.cmd \in ClientCmds \cup {GetStatusCmd}
  PROVE  /\ m.ok /\ m.cmd \in ChannelCmds => rxChannel' = m.cmd /\ current' = m.cmd
         /\ m.ok /\ m.cmd = ResetCmd => rxChannel' = current /\ current' = current
         /\ ~m.ok \/ m.cmd \notin ChannelCmds \cup {ResetCmd}
              => UNCHANGED <<rxChannel, current>>
         /\ UNCHANGED mainVars
<1>1. ResetCmd \notin ChannelCmds
  BY CodesApart
<1>2. UNCHANGED mainVars
  BY DEF SpisEventHandler
<1>3. CASE OnLoss(m)
  BY <1>2, <1>3 DEF OnLoss
<1>4. CASE OnGetStatus(m)
  BY <1>2, <1>4, CodesApart DEF OnGetStatus, ClientCmds
<1>5. CASE OnSetChannel(m)
  BY <1>1, <1>2, <1>5 DEF OnSetChannel, TunedTo
<1>6. CASE OnRequestPack(m)
  BY <1>2, <1>6, CodesApart DEF OnRequestPack
<1>7. CASE OnReset(m)
  BY <1>1, <1>2, <1>7 DEF OnReset
<1>8. CASE OnUnknown(m)
  BY <1>2, <1>8 DEF OnUnknown
<1> QED BY <1>3, <1>4, <1>5, <1>6, <1>7, <1>8 DEF SpisEventHandler

\* What hearing a transfer does to the channel and the history.
LEMMA HeardTunes ==
  ASSUME TypeInv, Settled, pc # "idle",
         NEW cmd \in {spi_cmd, GetStatusCmd}, NEW m \in Heard(cmd),
         SpisEventHandler(m),
         exposed' = IF Executes(m) /\ m.cmd \in ChannelCmds
                    THEN turn # "listen" /\ held # m.cmd ELSE exposed
  PROVE  /\ Settled'
         /\ m.ok \in BOOLEAN /\ m.cmd = cmd /\ m \in Messages
         /\ Executes(m) /\ spi_cmd \in ChannelCmds => rxChannel' = spi_cmd
         /\ ~Executes(m) => UNCHANGED <<rxChannel, exposed>>
         /\ spi_cmd \notin ChannelCmds =>
              /\ UNCHANGED exposed
              /\ rxChannel' \in IF exposed THEN ChannelCmds ELSE {rxChannel}
<1>1. spi_cmd \in ClientCmds /\ spi_cmd # GetStatusCmd
  BY CodesApart DEF TypeInv
<1>2. m.cmd = cmd /\ m.ok \in BOOLEAN
  <2>1. CASE m = [ok |-> TRUE, num |-> pack_num, cmd |-> cmd]
    BY <2>1
  <2>2. CASE m \in [ok : {FALSE}, num : PackNum, cmd : {cmd}]
    BY <2>2
  <2> QED BY <2>1, <2>2 DEF Heard
<1>3. m \in Messages
  BY <1>1, HeardType DEF TypeInv, TypeOK
<1>4. /\ m.ok /\ cmd \in ChannelCmds => rxChannel' = cmd /\ current' = cmd
      /\ m.ok /\ cmd = ResetCmd => rxChannel' = current /\ current' = current
      /\ ~m.ok \/ cmd \notin ChannelCmds \cup {ResetCmd}
           => UNCHANGED <<rxChannel, current>>
      /\ UNCHANGED mainVars
  BY <1>1, <1>2, HandlerTunes
<1>5. Executes(m) <=> m.ok /\ cmd = spi_cmd
  BY <1>2 DEF Executes
<1>6. /\ UNCHANGED <<turn, held>>
      /\ current \in ChannelCmds /\ rxChannel \in ChannelCmds /\ exposed \in BOOLEAN
  BY <1>4 DEF mainVars, TypeInv, TypeOK, ReceiverTypeOK
<1>7. GetStatusCmd \notin ChannelCmds \cup {ResetCmd}
  BY CodesApart DEF ClientCmds
<1>8. ResetCmd \notin ChannelCmds
  BY CodesApart
<1>9. CASE ~Executes(m)
  <2>1. UNCHANGED <<rxChannel, current, exposed>>
    BY <1>1, <1>2, <1>4, <1>5, <1>7, <1>9
  <2>2. Settled'
    BY <1>6, <2>1 DEF Settled
  <2> QED BY <1>2, <1>3, <1>6, <1>9, <2>1, <2>2
<1>10. CASE Executes(m) /\ spi_cmd \in ChannelCmds
  <2>1. rxChannel' = spi_cmd /\ current' = spi_cmd
    BY <1>4, <1>5, <1>10
  <2>2. exposed' = (turn # "listen" /\ held # spi_cmd)
    BY <1>2, <1>5, <1>10
  <2> QED BY <1>2, <1>3, <1>6, <1>10, <2>1, <2>2 DEF Settled
<1>11. CASE Executes(m) /\ spi_cmd \notin ChannelCmds
  <2>1. UNCHANGED <<current, exposed>>
    BY <1>2, <1>4, <1>5, <1>11
  <2>2. rxChannel' \in {rxChannel, current}
    BY <1>4, <1>5, <1>11
  <2>3. Settled'
    BY <1>6, <2>1, <2>2 DEF Settled
  <2>4. rxChannel' \in IF exposed THEN ChannelCmds ELSE {rxChannel}
    BY <1>6, <2>2 DEF Settled
  <2> QED BY <1>2, <1>3, <1>11, <2>1, <2>3, <2>4
<1> QED BY <1>9, <1>10, <1>11

\* What hearing a transfer does to status, channel and executed.
LEMMA HeardExecutes ==
  ASSUME ExecutedInv, pc # "idle",
         NEW cmd \in {spi_cmd, GetStatusCmd}, NEW f, TransferHeard(cmd, f)
  PROVE  /\ out'.status = status' /\ on'
         /\ status' = "SUCCESS" =>
              executed' \/ (cmd = GetStatusCmd /\ status = "SUCCESS")
         /\ executed => executed'
         /\ Settled'
         /\ spi_cmd \in ChannelCmds /\ executed' /\ ~exposed' => rxChannel' = spi_cmd
<1>1. spi_cmd \in ClientCmds /\ spi_cmd # GetStatusCmd
  BY CodesApart DEF ExecutedInv, TypeInv
<1>2. PICK m \in Heard(cmd) :
        /\ SpisEventHandler(m)
        /\ executed' = (executed \/ Executes(m))
        /\ exposed' = IF Executes(m) /\ m.cmd \in ChannelCmds
                      THEN turn # "listen" /\ held # m.cmd ELSE exposed
  BY DEF TransferHeard
<1>3. /\ Settled'
      /\ m.ok \in BOOLEAN /\ m.cmd = cmd /\ m \in Messages
      /\ Executes(m) /\ spi_cmd \in ChannelCmds => rxChannel' = spi_cmd
      /\ ~Executes(m) => UNCHANGED <<rxChannel, exposed>>
  BY <1>2, HeardTunes DEF ExecutedInv, ChannelInv
<1>4. out'.status = status' /\ on'
  BY <1>2, <1>3, HandlerAnswers DEF ExecutedInv, TypeInv, TypeOK
<1>5. ~m.ok => status' = "LOSS"
  BY <1>2 DEF SpisEventHandler, OnLoss, OnGetStatus, OnSetChannel,
              OnRequestPack, OnReset, OnUnknown, Respond
<1>6. m.ok /\ cmd = GetStatusCmd => status' = status
  BY <1>2, <1>3, CodesApart
     DEF SpisEventHandler, OnLoss, OnGetStatus, OnSetChannel,
         OnRequestPack, OnReset, OnUnknown, Respond, ClientCmds
<1>7. m.ok /\ cmd = spi_cmd => executed'
  BY <1>2, <1>3 DEF Executes
<1>8. executed => executed'
  BY <1>2
<1>9. ASSUME spi_cmd \in ChannelCmds, executed', ~exposed'
      PROVE  rxChannel' = spi_cmd
  <2>1. CASE Executes(m)
    BY <2>1, <1>3, <1>9
  <2>2. CASE ~Executes(m)
    <3>1. executed /\ ~exposed /\ rxChannel' = rxChannel
      BY <2>2, <1>2, <1>3, <1>9
    <3> QED BY <3>1, <1>9 DEF ExecutedInv, ChannelInv
  <2> QED BY <2>1, <2>2
<1>10. status' = "SUCCESS" => executed' \/ (cmd = GetStatusCmd /\ status = "SUCCESS")
  BY <1>3, <1>5, <1>6, <1>7
<1> QED BY <1>3, <1>4, <1>8, <1>9, <1>10

\* On a link whose receiver misses no transfer while it has power, a transfer
\* that is not heard means the receiver is off.
LEMMA UnheardMeansOff ==
  ASSUME Hearing, NEW f, TransferUnheard(f)
  PROVE  ~on /\ UNCHANGED <<rxVars, executed, exposed, silence>>
BY DEF Hearing, TransferUnheard, UnheardFrames, histVars

LEMMA ExecutedProbe ==
  ASSUME Hearing, ExecutedInv, Probe
  PROVE  StatusInv' /\ ChannelInv'
<1>1. PICK f \in Frames : Transfer(spi_cmd, f)
  BY DEF Probe
<1>2. pc # "idle" /\ pc' = "check" /\ UNCHANGED <<spi_cmd, txChannel>>
  BY DEF Probe
<1>3. spi_cmd # GetStatusCmd
  BY <1>2, CodesApart DEF ExecutedInv, TypeInv
<1>4. CASE TransferHeard(spi_cmd, f)
  <2>1. /\ out'.status = status' /\ on'
        /\ status' = "SUCCESS" =>
             executed' \/ (spi_cmd = GetStatusCmd /\ status = "SUCCESS")
        /\ executed => executed'
        /\ Settled'
        /\ spi_cmd \in ChannelCmds /\ executed' /\ ~exposed' => rxChannel' = spi_cmd
    BY <1>2, <1>4, HeardExecutes
  <2>2. StatusInv'
    BY <1>2, <1>3, <2>1 DEF ExecutedInv, StatusInv
  <2>3. ChannelInv'
    BY <1>2, <2>1 DEF ExecutedInv, ChannelInv
  <2> QED BY <2>2, <2>3
<1>5. CASE TransferUnheard(f)
  BY <1>2, <1>5, UnheardMeansOff
     DEF ExecutedInv, StatusInv, ChannelInv, Settled, rxVars, mainVars
<1> QED BY <1>1, <1>4, <1>5 DEF Transfer

LEMMA ExecutedCheck ==
  ASSUME Hearing, ExecutedInv, Check
  PROVE  StatusInv' /\ ChannelInv'
<1>1. PICK f \in Frames : Transfer(GetStatusCmd, f)
  BY DEF Check
<1>2. pc = "check" /\ UNCHANGED <<spi_cmd, txChannel>>
  BY DEF Check
<1>3. CASE TransferHeard(GetStatusCmd, f)
  <2>1. /\ out'.status = status' /\ on'
        /\ status' = "SUCCESS" =>
             executed' \/ (GetStatusCmd = GetStatusCmd /\ status = "SUCCESS")
        /\ executed => executed'
        /\ Settled'
        /\ spi_cmd \in ChannelCmds /\ executed' /\ ~exposed' => rxChannel' = spi_cmd
    BY <1>2, <1>3, HeardExecutes
  <2>2. StatusInv'
    BY <1>2, <2>1 DEF ExecutedInv, StatusInv
  <2>3. ChannelInv'
    BY <1>2, <2>1 DEF ExecutedInv, ChannelInv
  <2> QED BY <2>2, <2>3
<1>4. CASE TransferUnheard(f)
  BY <1>2, <1>4, UnheardMeansOff
     DEF ExecutedInv, StatusInv, ChannelInv, Settled, rxVars, mainVars
<1> QED BY <1>1, <1>3, <1>4 DEF Transfer

\* The main loop sets the channel only when it has an older one in hand.
LEMMA MainTunes ==
  ASSUME TypeOK, Settled, MainLoop
  PROVE  /\ exposed' = exposed => Settled'
         /\ rxChannel' \in IF exposed THEN ChannelCmds ELSE {rxChannel}
<1>1. CASE LoadChannel
  BY <1>1 DEF LoadChannel, Settled, TypeOK, ReceiverTypeOK
<1>2. CASE SetFrequency
  BY <1>2 DEF SetFrequency, Settled, TypeOK, ReceiverTypeOK
<1>3. CASE SetCurrent
  BY <1>3 DEF SetCurrent, Settled, TypeOK, ReceiverTypeOK
<1> QED BY <1>1, <1>2, <1>3 DEF MainLoop

LEMMA ExecutedMain ==
  ASSUME ExecutedInv, Main
  PROVE  StatusInv' /\ ChannelInv'
<1>1. MainLoop /\ UNCHANGED <<txVars, histVars>>
  BY DEF Main
<1>2. UNCHANGED <<on, status, out>>
  BY <1>1 DEF MainLoop, LoadChannel, SetFrequency, SetCurrent
<1>3. Settled' /\ (~exposed => rxChannel' = rxChannel)
  BY <1>1, MainTunes DEF histVars, ExecutedInv, ChannelInv, TypeInv
<1> QED BY <1>1, <1>2, <1>3
        DEF txVars, histVars, ExecutedInv, StatusInv, ChannelInv

LEMMA ExecutedStep ==
  ASSUME Hearing, ExecutedInv, [Next]_linkVars
  PROVE  ExecutedInv'
<1>1. TypeInv'
  BY StepType DEF ExecutedInv
<1>2. StatusInv' /\ ChannelInv'
  <2> USE DEF ExecutedInv, StatusInv, ChannelInv, Settled
  <2>1. CASE \E cmd \in RequestCmds \cup {ResetCmd} : DeliverRequest(cmd)
    BY <2>1, CodesApart DEF DeliverRequest, Deliver, rxVars, mainVars
  <2>2. CASE \E ch \in MinChannel - 1 .. MaxChannel + 1 : SetChannel(ch)
    BY <2>2 DEF SetChannel, Deliver, rxVars, mainVars
  <2>3. CASE Probe
    BY <2>3, ExecutedProbe
  <2>4. CASE Check
    BY <2>4, ExecutedCheck
  <2>5. CASE Exhausted
    BY <2>5 DEF Exhausted, rxVars, mainVars, histVars
  <2>6. CASE Main
    BY <2>6, ExecutedMain
  <2>7. CASE Radio
    BY <2>7 DEF Radio, ReceivePacket, txVars, mainVars, histVars
  <2>8. CASE LosePower
    BY <2>8 DEF LosePower, PowerOff, BootOut, txVars
  <2>9. CASE Reboot
    BY <2>9 DEF Reboot, PowerOn, txVars, mainVars, histVars
  <2>10. CASE TxRestart
    BY <2>10 DEF TxRestart, rxVars, mainVars
  <2>11. CASE UNCHANGED linkVars
    BY <2>11 DEF linkVars, rxVars, mainVars, txVars, histVars
  <2> QED
    BY <2>1, <2>2, <2>3, <2>4, <2>5, <2>6, <2>7, <2>8, <2>9, <2>10, <2>11
       DEF Next, Client
<1> QED BY <1>1, <1>2 DEF ExecutedInv

LEMMA ExecutedInvariant ==
  ASSUME Hearing
  PROVE  SafeSpec => []ExecutedInv
<1>1. Init => ExecutedInv
  BY InitType
     DEF Init, ReceiverInit, BootOut, ExecutedInv, TypeInv, StatusInv, ChannelInv,
         Settled
<1>2. ExecutedInv /\ [Next]_linkVars => ExecutedInv'
  BY ExecutedStep
<1> QED BY <1>1, <1>2, PTL DEF SafeSpec

\* A delivery that ends in success ended on an answer the receiver gave.
LEMMA SuccessReadsAnswer ==
  ASSUME TypeInv, Next, Verdict("SUCCESS")
  PROVE  /\ Check
         /\ out.status = "SUCCESS" /\ out.num = pack_num
         /\ out.sealed = body[out.id]
         /\ loopback' = body[out.id]
         /\ \E f \in Frames : TransferHeard(GetStatusCmd, f)
<1>1. Check /\ \E f \in Frames : /\ Transfer(GetStatusCmd, f)
                               /\ f.ok /\ f.num = pack_num /\ f.status = "SUCCESS"
  BY DEF Next, Verdict, Client, DeliverRequest, SetChannel, Deliver, Probe, Check,
         Judge, Recheck, Resend, Succeed, Disconnected, Exhausted, Main, Radio,
         LosePower, Reboot, TxRestart, txVars, TypeInv
<1>2. PICK f \in Frames : /\ Transfer(GetStatusCmd, f)
                         /\ f.ok /\ f.num = pack_num /\ f.status = "SUCCESS"
  BY <1>1
<1>3. ~TransferUnheard(f)
  BY <1>2 DEF TransferUnheard, UnheardFrames, Arrived, Zeros, Ones, Damaged
<1>4. TransferHeard(GetStatusCmd, f) /\ loopback' = f.body
  BY <1>2, <1>3 DEF Transfer
<1>5. f = Answer
  BY <1>2, <1>4 DEF TransferHeard, Arrived, Damaged
<1> QED BY <1>1, <1>2, <1>4, <1>5 DEF Answer

\* As long as the receiver misses no transfer while it has power, success of a
\* channel command leaves both radios on one channel, whatever the main loop of
\* the receiver re-applies in between: no damaged message or answer, power cut or
\* restart makes the transmitter believe in a channel the receiver did not set.
\* The command that falls into the main loop's own set_channel is excepted.
THEOREM ChannelIsConfirmed ==
  ASSUME Hearing
  PROVE  SafeSpec => ChannelConfirmed
<1>1. ASSUME ExecutedInv, [Next]_linkVars,
             Verdict("SUCCESS"), spi_cmd \in ChannelCmds, ~exposed
      PROVE  rxChannel' = txChannel
  <2>1. Next
    BY <1>1 DEF Verdict, linkVars, txVars
  <2>2. Check /\ out.status = "SUCCESS"
    BY <1>1, <2>1, SuccessReadsAnswer DEF ExecutedInv
  <2>3. PICK f \in Frames : TransferHeard(GetStatusCmd, f)
    BY <1>1, <2>1, SuccessReadsAnswer DEF ExecutedInv
  <2>4. pc = "check" /\ executed
    BY <1>1, <2>2 DEF Check, ExecutedInv, StatusInv
  <2>5. exposed' = exposed
    <3>1. PICK m \in Heard(GetStatusCmd) :
            /\ SpisEventHandler(m)
            /\ exposed' = IF Executes(m) /\ m.cmd \in ChannelCmds
                          THEN turn # "listen" /\ held # m.cmd ELSE exposed
      BY <2>3 DEF TransferHeard
    <3>2. m.cmd = GetStatusCmd
      <4>1. CASE m = [ok |-> TRUE, num |-> pack_num, cmd |-> GetStatusCmd]
        BY <4>1
      <4>2. CASE m \in [ok : {FALSE}, num : PackNum, cmd : {GetStatusCmd}]
        BY <4>2
      <4> QED BY <4>1, <4>2 DEF Heard
    <3> QED BY <1>1, <3>1, <3>2, CodesApart DEF Executes, ClientCmds
  <2>6. rxChannel' = spi_cmd
    BY <1>1, <2>3, <2>4, <2>5, HeardExecutes
  <2>7. spi_cmd = txChannel
    BY <1>1, <2>4 DEF ExecutedInv, ChannelInv
  <2> QED BY <2>6, <2>7
<1>2. ExecutedInv /\ [Next]_linkVars =>
        [Verdict("SUCCESS") /\ spi_cmd \in ChannelCmds /\ ~exposed
           => rxChannel' = txChannel]_linkVars
  BY <1>1
<1> QED BY <1>2, ExecutedInvariant, PTL DEF SafeSpec, ChannelConfirmed

-----------------------------------------------------------------------------
(* Fresh answers.  Silence counts the numbers spent since the receiver     *)
(* prepared its answer, so the answer carries the current number only when *)
(* it was prepared in this delivery.                                       *)

NoRestart == "txreset" \notin Faults

\* How many times NextPack takes a to b.
Lag(a, b) == IF a <= b THEN b - a ELSE b - a + PackMod

NumberInv ==
  out.sealed # Unhashed /\ out.status # "LOSS" => Lag(out.num, pack_num) = silence

\* An answer prepared in this delivery carries the requested slot or none.
SlotInv ==
  /\ body[NoLoopback] = Empty
  /\ silence = 0 /\ out.id # NoLoopback
       => spi_cmd \in RequestCmds /\ out.id = spi_cmd - RequestFloor

FreshInv == TypeInv /\ NumberInv /\ SlotInv

\* Spending a number adds one to the lag, as long as that fits in a byte.
LEMMA LagGrows ==
  ASSUME NEW a \in PackNum, NEW b \in PackNum, Lag(a, b) < PackMod - 1
  PROVE  Lag(a, NextPack(b)) = Lag(a, b) + 1
BY ProtocolAssumption DEF Lag, NextPack, PackNum

\* No lag, and only that, means the same number.
LEMMA LagZero ==
  ASSUME NEW a \in PackNum, NEW b \in PackNum
  PROVE  Lag(a, b) = 0 <=> a = b
BY ProtocolAssumption DEF Lag, PackNum

\* What hearing a transfer does to the number and the slot of the answer.
LEMMA HeardPrepares ==
  ASSUME FreshInv, pc # "idle",
         NEW cmd \in {spi_cmd, GetStatusCmd}, NEW f, TransferHeard(cmd, f)
  PROVE  /\ silence' = 0
         /\ out'.status # "LOSS" => out'.num = pack_num
         /\ body'[NoLoopback] = Empty
         /\ out'.id # NoLoopback =>
              spi_cmd \in RequestCmds /\ out'.id = spi_cmd - RequestFloor
<1>1. spi_cmd \in ClientCmds
  BY DEF FreshInv, TypeInv
<1>2. PICK m \in Heard(cmd) : SpisEventHandler(m)
  BY DEF TransferHeard
<1>3. m.cmd = cmd /\ (m.ok => m.num = pack_num)
  <2>1. CASE m = [ok |-> TRUE, num |-> pack_num, cmd |-> cmd]
    BY <2>1
  <2>2. CASE m \in [ok : {FALSE}, num : PackNum, cmd : {cmd}]
    BY <2>2
  <2> QED BY <2>1, <2>2 DEF Heard
<1>4. m \in Messages
  BY <1>1, HeardType DEF FreshInv, TypeInv, TypeOK
<1>5. out'.num = m.num /\ out'.status = status'
  BY <1>2, <1>4, HandlerAnswers DEF FreshInv, TypeInv, TypeOK
<1>6. ~m.ok => status' = "LOSS"
  BY <1>2 DEF SpisEventHandler, OnLoss, OnGetStatus, OnSetChannel,
              OnRequestPack, OnReset, OnUnknown, Respond
<1>7. body'[NoLoopback] = Empty
  <2>1. NoLoopback \in BufferIds
    BY ProtocolAssumption DEF NoLoopback, BufferIds
  <2> QED BY <1>2, <2>1
          DEF SpisEventHandler, OnLoss, OnGetStatus, OnSetChannel,
              OnRequestPack, OnReset, OnUnknown, FreshInv, SlotInv
<1>8. out'.id # NoLoopback =>
        m.cmd \in RequestCmds /\ out'.id = m.cmd - RequestFloor
  BY <1>2 DEF SpisEventHandler, OnLoss, OnGetStatus, OnSetChannel,
              OnRequestPack, OnReset, OnUnknown, Respond
<1>9. GetStatusCmd \notin RequestCmds
  BY CodesApart DEF ClientCmds
<1>10. silence' = 0
  BY DEF TransferHeard
<1> QED BY <1>3, <1>5, <1>6, <1>7, <1>8, <1>9, <1>10

LEMMA FreshTransfer ==
  ASSUME FreshInv, pc # "idle", UNCHANGED <<pack_num, spi_cmd>>,
         NEW cmd \in {spi_cmd, GetStatusCmd}, NEW f, Transfer(cmd, f)
  PROVE  NumberInv' /\ SlotInv'
<1>1. CASE TransferHeard(cmd, f)
  <2>1. pack_num \in PackNum
    BY DEF FreshInv, TypeInv, TypeOK
  <2>2. Lag(pack_num, pack_num) = 0
    BY <2>1, LagZero
  <2>3. NumberInv'
    BY <1>1, <2>2, HeardPrepares DEF NumberInv
  <2>4. SlotInv'
    BY <1>1, HeardPrepares DEF SlotInv
  <2> QED BY <2>3, <2>4
<1>2. CASE TransferUnheard(f)
  BY <1>2 DEF TransferUnheard, rxVars, histVars, FreshInv, NumberInv, SlotInv
<1> QED BY <1>1, <1>2 DEF Transfer

\* A delivery that begins makes the prepared answer one number older.
LEMMA FreshDeliver ==
  ASSUME FreshInv, NEW cmd, Deliver(cmd)
  PROVE  NumberInv' /\ SlotInv'
<1>1. out.num \in PackNum /\ pack_num \in PackNum /\ silence \in 0 .. MaxSilence
  BY DEF FreshInv, TypeInv, TypeOK, ReceiverTypeOK
<1>2. NumberInv'
  <2> SUFFICES ASSUME out.sealed # Unhashed, out.status # "LOSS"
               PROVE  Lag(out.num, pack_num') = silence'
    BY DEF Deliver, rxVars, NumberInv
  <2>1. Lag(out.num, pack_num) = silence /\ silence < MaxSilence
    BY DEF Deliver, FreshInv, NumberInv
  <2>2. silence < PackMod - 1
    BY <1>1, <2>1, LinkAssumption, ProtocolAssumption
  <2> QED BY <1>1, <2>1, <2>2, LagGrows DEF Deliver
<1>3. silence' # 0
  BY <1>1, LinkAssumption, ProtocolAssumption DEF Deliver
<1> QED BY <1>2, <1>3 DEF Deliver, rxVars, FreshInv, SlotInv

LEMMA FreshStep ==
  ASSUME NoRestart, FreshInv, [Next]_linkVars
  PROVE  FreshInv'
<1>1. TypeInv'
  BY StepType DEF FreshInv
<1>2. NumberInv' /\ SlotInv'
  <2>1. CASE Client
    BY <2>1, FreshDeliver DEF Client, DeliverRequest, SetChannel
  <2>2. CASE Probe
    BY <2>2, FreshTransfer DEF Probe
  <2>3. CASE Check
    BY <2>3, FreshTransfer DEF Check
  <2>4. CASE Exhausted
    BY <2>4 DEF Exhausted, rxVars, histVars, FreshInv, NumberInv, SlotInv
  <2>5. CASE Main
    BY <2>5 DEF Main, MainLoop, LoadChannel, SetFrequency, SetCurrent, txVars,
                histVars, FreshInv, NumberInv, SlotInv
  <2>6. CASE Radio
    <3>1. PICK i \in SlotIds, p \in Packets : ReceivePacket(i, p)
      BY <2>6 DEF Radio
    <3>2. i # NoLoopback
      BY ProtocolAssumption DEF SlotIds, NoLoopback
    <3>3. body'[NoLoopback] = body[NoLoopback]
      BY <3>1, <3>2, ProtocolAssumption
         DEF ReceivePacket, FreshInv, TypeInv, TypeOK, ReceiverTypeOK,
             BufferIds, NoLoopback
    <3> QED BY <2>6, <3>1, <3>3
            DEF Radio, ReceivePacket, txVars, histVars, FreshInv, NumberInv, SlotInv
  <2>7. CASE LosePower
    <3>1. NoLoopback \in BufferIds
      BY ProtocolAssumption DEF NoLoopback, BufferIds
    <3> QED BY <2>7, <3>1
            DEF LosePower, PowerOff, BootOut, FreshInv, NumberInv, SlotInv
  <2>8. CASE Reboot
    BY <2>8 DEF Reboot, PowerOn, txVars, histVars, FreshInv, NumberInv, SlotInv
  <2>9. CASE UNCHANGED linkVars
    BY <2>9 DEF linkVars, rxVars, txVars, histVars, FreshInv, NumberInv, SlotInv
  <2>10. ~TxRestart
    BY DEF TxRestart, NoRestart
  <2> QED BY <2>1, <2>2, <2>3, <2>4, <2>5, <2>6, <2>7, <2>8, <2>9, <2>10 DEF Next
<1> QED BY <1>1, <1>2 DEF FreshInv

LEMMA FreshInvariant ==
  ASSUME NoRestart
  PROVE  SafeSpec => []FreshInv
<1>1. Init => FreshInv
  <2>1. NoLoopback \in BufferIds
    BY ProtocolAssumption DEF NoLoopback, BufferIds
  <2> QED BY <2>1, InitType
          DEF Init, ReceiverInit, BootOut, FreshInv, TypeInv, NumberInv, SlotInv
<1>2. FreshInv /\ [Next]_linkVars => FreshInv'
  BY FreshStep
<1> QED BY <1>1, <1>2, PTL DEF SafeSpec

\* The step that ends a delivery in success reads an answer of this delivery.
LEMMA SuccessIsFresh ==
  ASSUME FreshInv, [Next]_linkVars, Verdict("SUCCESS")
  PROVE  silence = 0 /\ loopback' = body[out.id]
<1>1. Next
  BY DEF Verdict, linkVars, txVars
<1>2. /\ out.status = "SUCCESS" /\ out.num = pack_num
      /\ out.sealed = body[out.id] /\ loopback' = body[out.id]
  BY <1>1, SuccessReadsAnswer DEF FreshInv
<1>3. out.num \in PackNum /\ body[out.id] \in Bodies
  BY DEF FreshInv, TypeInv, TypeOK, ReceiverTypeOK
<1>4. Lag(out.num, pack_num) = 0
  BY <1>2, <1>3, LagZero
<1>5. out.sealed # Unhashed
  BY <1>2, <1>3, PacketAssumption DEF Bodies
<1> QED BY <1>2, <1>4, <1>5 DEF FreshInv, NumberInv

\* Whatever the wire, the radio and the power do, success rests on an answer
\* prepared in this delivery: the number tells it from every older one.
THEOREM SuccessFresh ==
  ASSUME NoRestart
  PROVE  SafeSpec => FreshSuccess
<1>1. FreshInv /\ [Next]_linkVars => [Verdict("SUCCESS") => silence = 0]_linkVars
  BY SuccessIsFresh
<1> QED BY <1>1, FreshInvariant, PTL DEF SafeSpec, FreshSuccess

\* A successful request for slot i leaves the packet of slot i or an empty one
\* in the client's hands, for every number of slots.
THEOREM PayloadIsNotForeign ==
  ASSUME NoRestart
  PROVE  SafeSpec => PayloadNotForeign
<1>1. ASSUME FreshInv, [Next]_linkVars,
             Verdict("SUCCESS"), spi_cmd \in RequestCmds
      PROVE  loopback' \in {Empty, body[spi_cmd - RequestFloor]}
  BY <1>1, SuccessIsFresh DEF FreshInv, SlotInv
<1>2. FreshInv /\ [Next]_linkVars =>
        [Verdict("SUCCESS") /\ spi_cmd \in RequestCmds
           => loopback' \in {Empty, body[spi_cmd - RequestFloor]}]_linkVars
  BY <1>1
<1> QED BY <1>2, FreshInvariant, PTL DEF SafeSpec, PayloadNotForeign

-----------------------------------------------------------------------------
(* The link implements CommandDelivery.                                    *)

\* A message heard executes the command or leaves no trace in the abstract
\* state; a status poll never leaves one.
LEMMA HeardMaps ==
  ASSUME ExecutedInv, pc # "idle",
         NEW cmd \in {spi_cmd, GetStatusCmd}, NEW f, TransferHeard(cmd, f)
  PROVE  \/ UNCHANGED <<executed, exposed, rxChannel>>
         \/ /\ cmd = spi_cmd
            /\ executed' = TRUE
            /\ \/ /\ spi_cmd \in ChannelCmds
                  /\ rxChannel' = spi_cmd /\ exposed' \in BOOLEAN
               \/ /\ spi_cmd \notin ChannelCmds
                  /\ rxChannel' \in Delivery!Drift /\ exposed' = exposed
<1>1. PICK m \in Heard(cmd) :
        /\ SpisEventHandler(m)
        /\ executed' = (executed \/ Executes(m))
        /\ exposed' = IF Executes(m) /\ m.cmd \in ChannelCmds
                      THEN turn # "listen" /\ held # m.cmd ELSE exposed
  BY DEF TransferHeard
<1>2. /\ m.cmd = cmd
      /\ Executes(m) /\ spi_cmd \in ChannelCmds => rxChannel' = spi_cmd
      /\ ~Executes(m) => UNCHANGED <<rxChannel, exposed>>
      /\ spi_cmd \notin ChannelCmds =>
           /\ UNCHANGED exposed
           /\ rxChannel' \in IF exposed THEN ChannelCmds ELSE {rxChannel}
  BY <1>1, HeardTunes DEF ExecutedInv, ChannelInv
<1>3. executed \in BOOLEAN /\ exposed \in BOOLEAN
  BY DEF ExecutedInv, TypeInv, TypeOK
<1>4. exposed' \in BOOLEAN
  BY <1>1, <1>3
<1>5. CASE ~Executes(m)
  BY <1>1, <1>2, <1>3, <1>5
<1>6. CASE Executes(m)
  <2>1. cmd = spi_cmd /\ executed' = TRUE
    BY <1>1, <1>2, <1>3, <1>6 DEF Executes
  <2> QED BY <1>2, <1>4, <1>6, <2>1 DEF Delivery!Drift
<1> QED BY <1>5, <1>6

LEMMA ProbeMaps ==
  ASSUME Hearing, ExecutedInv, Probe
  PROVE  [Delivery!Next]_(Delivery!vars)
<1>1. PICK f \in Frames : Transfer(spi_cmd, f)
  BY DEF Probe
<1>2. pc = "probe" /\ pc' = "check" /\ UNCHANGED <<spi_cmd, spi_status>>
  BY DEF Probe
<1>3. UNCHANGED <<executed, exposed, rxChannel>> => UNCHANGED Delivery!vars
  BY <1>2 DEF Delivery!vars
<1>4. CASE TransferHeard(spi_cmd, f)
  BY <1>2, <1>3, <1>4, HeardMaps
     DEF ExecutedInv, Delivery!Next, Delivery!Execute
<1>5. CASE TransferUnheard(f)
  BY <1>3, <1>5 DEF TransferUnheard, rxVars, histVars
<1> QED BY <1>1, <1>4, <1>5 DEF Transfer

LEMMA CheckMaps ==
  ASSUME Hearing, ExecutedInv, Check
  PROVE  [Delivery!Next]_(Delivery!vars)
<1>1. PICK f \in Frames : Transfer(GetStatusCmd, f) /\ Judge(f)
  BY DEF Check
<1>2. pc = "check" /\ UNCHANGED spi_cmd
  BY DEF Check
<1>3. spi_cmd # GetStatusCmd
  BY <1>2, CodesApart DEF ExecutedInv, TypeInv
<1>4. UNCHANGED <<executed, exposed, rxChannel>>
  <2>1. CASE TransferHeard(GetStatusCmd, f)
    BY <1>2, <1>3, <2>1, HeardMaps
  <2>2. CASE TransferUnheard(f)
    BY <2>2 DEF TransferUnheard, rxVars, histVars
  <2> QED BY <1>1, <2>1, <2>2 DEF Transfer
<1>5. CASE pc' = "idle"
  <2>1. spi_status' = "SUCCESS"
    BY <1>1, <1>5 DEF Judge, Recheck, Resend, Succeed, Disconnected
  <2>2. out.status = "SUCCESS"
    BY <1>2, <1>5, <2>1, SuccessReadsAnswer DEF Verdict, Next, ExecutedInv
  <2>3. executed
    BY <1>2, <2>2 DEF ExecutedInv, StatusInv
  <2> QED BY <1>2, <1>4, <1>5, <2>1, <2>3
          DEF Delivery!Next, Delivery!AnyReturn, Delivery!Return
<1>6. CASE pc' # "idle"
  BY <1>2, <1>4, <1>6 DEF Delivery!vars
<1> QED BY <1>5, <1>6

LEMMA StepMaps ==
  ASSUME Hearing, ExecutedInv, [Next]_linkVars
  PROVE  [Delivery!Next]_(Delivery!vars)
<1>1. CASE Client
  <2>1. PICK cmd \in ClientCmds : Deliver(cmd)
    BY <1>1, TunedToType DEF Client, DeliverRequest, SetChannel, ClientCmds
  <2>2. Delivery!Begin(cmd)
    BY <2>1 DEF Deliver, rxVars, Delivery!Begin
  <2> QED BY <2>2 DEF Delivery!Next
<1>2. CASE Probe
  BY <1>2, ProbeMaps
<1>3. CASE Check
  BY <1>3, CheckMaps
<1>4. CASE Exhausted
  BY <1>4 DEF Exhausted, rxVars, histVars, ExecutedInv, TypeInv,
              Delivery!Next, Delivery!AnyReturn, Delivery!Return
<1>5. CASE Main
  <2>1. rxChannel' \in Delivery!Drift
    BY <1>5, MainTunes
       DEF Main, ExecutedInv, TypeInv, ChannelInv, Delivery!Drift
  <2> QED BY <1>5, <2>1
          DEF Main, txVars, histVars, Delivery!Next, Delivery!Revert
<1>6. CASE Radio
  BY <1>6 DEF Radio, ReceivePacket, txVars, histVars, Delivery!vars
<1>7. CASE LosePower
  BY <1>7 DEF LosePower, PowerOff, txVars, Delivery!Next, Delivery!Lose
<1>8. CASE Reboot
  BY <1>8 DEF Reboot, PowerOn, txVars, histVars, Delivery!vars
<1>9. CASE TxRestart
  BY <1>9, CodesApart DEF TxRestart, rxVars, Delivery!Next, Delivery!Abort
<1>10. CASE UNCHANGED linkVars
  BY <1>10 DEF linkVars, rxVars, txVars, histVars, Delivery!vars
<1> QED
  BY <1>1, <1>2, <1>3, <1>4, <1>5, <1>6, <1>7, <1>8, <1>9, <1>10 DEF Next

\* Numbers, check bytes, damaged frames, resends, power cuts, restarts and the
\* channel the main loop re-applies add nothing to what CommandDelivery lets the
\* client see: success only of a command that was executed, and no change of
\* channel but by a command, a power cut, or the return of an older channel
\* after a command that met the main loop's own set_channel.  (Its promise that
\* every delivery returns is a liveness property and is model-checked.)
THEOREM LinkImplementsDelivery ==
  ASSUME Hearing
  PROVE  SafeSpec => Delivery!Init /\ [][Delivery!Next]_(Delivery!vars)
<1>1. Init => Delivery!Init
  BY CodesApart DEF Init, ReceiverInit, Delivery!Init
<1>2. ExecutedInv /\ [Next]_linkVars => [Delivery!Next]_(Delivery!vars)
  BY StepMaps
<1> QED BY <1>1, <1>2, ExecutedInvariant, PTL DEF SafeSpec
=============================================================================
