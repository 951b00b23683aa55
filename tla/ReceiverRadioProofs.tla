------------------------ MODULE ReceiverRadioProofs ------------------------
(***************************************************************************)
(* Theorems of module ReceiverRadio, for every number of slots and         *)
(* channels and every set of packets.  All but the first are about a       *)
(* receiver whose commands come while it waits for a packet (Quiet), the   *)
(* case the firmware is written for; the run RadioReset shows that they    *)
(* are false without it.                                                   *)
(***************************************************************************)
EXTENDS ReceiverRadio, SpiProtocolLemmas

-----------------------------------------------------------------------------
(* Types.                                                                  *)

LEMMA InitType == Init => TypeOK
BY RingCloses, CodesApart
   DEF Init, TypeOK, Cleared, MainPoints, RadioStates

\* Every access keeps the types, whenever commands come.
LEMMA StepType == TypeOK /\ [Next]_vars => TypeOK'
<1> SUFFICES ASSUME TypeOK, [Next]_vars PROVE TypeOK'
  OBVIOUS
<1> USE DEF TypeOK, MainPoints, RadioStates, locals, registers, Go
<1>1. CASE Main
  <2>1. CASE BootFrequency \/ BootCurrent \/ Argument \/ ClearDisabled \/ TaskDisable \/ WaitDisabled
    BY <2>1, CodesApart
       DEF BootFrequency, BootCurrent, Argument, ClearDisabled, TaskDisable, WaitDisabled
  <2>2. CASE SetPointer \/ LoadChannel \/ SetFrequency \/ SetCurrent
    BY <2>2 DEF SetPointer, LoadChannel, SetFrequency, SetCurrent
  <2>3. CASE TaskRxen \/ WaitPhyend \/ ClearPhyend \/ FetchDest
    BY <2>3 DEF TaskRxen, WaitPhyend, ClearPhyend, FetchDest
  <2>4. CASE StoreDest
    BY <2>4, RingCloses DEF StoreDest
  <2> QED BY <1>1, <2>1, <2>2, <2>3, <2>4 DEF Main
<1>2. CASE IsrReset
  <2>1. dest' = 0 /\ dest' \in SlotIds
    BY <1>2, RingCloses DEF IsrReset
  <2>2. body' \in [SlotIds -> Packets \cup {Empty}]
    BY <1>2 DEF IsrReset, Cleared
  <2> QED BY <1>2, <2>1, <2>2 DEF IsrReset, ReadDataAsync
<1>3. ASSUME NEW cmd \in ChannelCmds, IsrSetChannel(cmd) PROVE TypeOK'
  BY <1>3 DEF IsrSetChannel, ReadDataAsync
<1>4. CASE RadioDisabled \/ RadioReady
  BY <1>4 DEF RadioDisabled, RadioReady
<1>5. ASSUME NEW p \in Packets, RadioReceive(p) PROVE TypeOK'
  BY <1>5 DEF RadioReceive
<1>6. CASE UNCHANGED vars
  BY <1>6 DEF vars
<1> QED BY <1>1, <1>2, <1>3, <1>4, <1>5, <1>6 DEF Next, Isr

\* Every variable keeps its type, even if commands come at any moment.
THEOREM RadioTypeCorrect == SafeSpec => []TypeOK
<1> QED BY InitType, StepType, PTL DEF SafeSpec

-----------------------------------------------------------------------------
(* The inductive invariant.                                                *)

\* What the program counter of the main loop tells about the radio.
RadioFollowsMain ==
  /\ pc \in {"boot", "booted"} =>
       radio = "disabled" /\ ~EVENTS_PHYEND /\ current_channel = DefaultChannel
  /\ pc \in {"argument", "clear", "disable"} =>
       radio \in {"disabled", "rxidle"} /\ ~EVENTS_PHYEND
  /\ pc = "disable" => ~EVENTS_DISABLED
  /\ pc = "wait" => /\ radio = IF EVENTS_DISABLED THEN "disabled" ELSE "disabling"
                    /\ ~EVENTS_PHYEND
  /\ pc \in {"ack", "pointer", "load", "frequency", "current", "rxen"} =>
       radio = "disabled" /\ ~EVENTS_PHYEND
  /\ pc = "listen" =>
       IF EVENTS_PHYEND THEN radio = "rxidle" ELSE radio \in {"rampup", "rx"}
  /\ pc = "end" => radio = "rxidle" /\ EVENTS_PHYEND
  /\ pc \in {"fetch", "store"} => radio = "rxidle" /\ ~EVENTS_PHYEND

\* The main loop, the radio and the handler agree on slot and channel.
AgreeOnSlot ==
  /\ pc \in {"clear", "disable", "wait", "ack", "pointer"} => buf = dest
  /\ pc \in {"load", "frequency", "current", "rxen", "listen"} => PACKETPTR = dest
  /\ radio = "rx" => ptr = dest
  /\ pc = "store" => oldDest = dest
  /\ pc \in {"frequency", "current"} => channel = current_channel

\* The slot the next packet goes to, as PacketRing has it.
NextDest == IF EVENTS_PHYEND \/ pc \in {"end", "fetch", "store"}
            THEN NextSlot(dest) ELSE dest

\* The slots are filled up to the next one, or all of them.
FilledTo(d) ==
  \/ \A i \in SlotIds : body[i] # Empty
  \/ \A i \in SlotIds : body[i] # Empty <=> i < d

RadioInv == TypeOK /\ RadioFollowsMain /\ AgreeOnSlot /\ FilledTo(NextDest)

-----------------------------------------------------------------------------
(* The invariant is inductive.                                             *)

LEMMA InitInv == Init => RadioInv
<1> SUFFICES ASSUME Init PROVE RadioInv
  OBVIOUS
<1>1. RadioFollowsMain /\ AgreeOnSlot
  BY DEF Init, RadioFollowsMain, AgreeOnSlot
<1>2. NextDest = 0
  BY DEF Init, NextDest
<1>3. FilledTo(0)
  BY DEF Init, FilledTo, Cleared, SlotIds
<1> QED BY InitType, <1>1, <1>2, <1>3 DEF RadioInv

\* The radio stays in step with the main loop.
LEMMA StepFollows ==
  ASSUME Quiet, TypeOK, RadioFollowsMain, [Next]_vars
  PROVE  RadioFollowsMain'
<1> USE DEF RadioFollowsMain, locals, registers, Go
<1>1. CASE BootFrequency \/ BootCurrent \/ Argument \/ ClearDisabled \/ TaskDisable \/ WaitDisabled
  BY <1>1 DEF BootFrequency, BootCurrent, Argument, ClearDisabled, TaskDisable, WaitDisabled
<1>2. CASE SetPointer \/ LoadChannel \/ SetFrequency \/ SetCurrent
  BY <1>2 DEF SetPointer, LoadChannel, SetFrequency, SetCurrent
<1>3. CASE TaskRxen \/ WaitPhyend \/ ClearPhyend \/ FetchDest \/ StoreDest
  BY <1>3 DEF TaskRxen, WaitPhyend, ClearPhyend, FetchDest, StoreDest
<1>4. CASE Isr
  BY <1>4 DEF Isr, IsrReset, IsrSetChannel, MayInterrupt, ReadDataAsync
<1>5. CASE RadioDisabled \/ RadioReady
  BY <1>5, TypeOK DEF RadioDisabled, RadioReady, TypeOK, MainPoints
<1>6. ASSUME NEW p \in Packets, RadioReceive(p) PROVE RadioFollowsMain'
  BY <1>6, TypeOK DEF RadioReceive, TypeOK, MainPoints
<1>7. CASE UNCHANGED vars
  BY <1>7 DEF vars
<1> QED BY <1>1, <1>2, <1>3, <1>4, <1>5, <1>6, <1>7 DEF Next, Main

\* Main loop, radio and handler go on agreeing.
LEMMA StepAgree ==
  ASSUME Quiet, TypeOK, RadioFollowsMain, AgreeOnSlot, [Next]_vars
  PROVE  AgreeOnSlot'
<1> USE DEF AgreeOnSlot, locals, registers, Go
<1>1. CASE BootFrequency \/ BootCurrent \/ Argument \/ ClearDisabled \/ TaskDisable \/ WaitDisabled
  BY <1>1 DEF BootFrequency, BootCurrent, Argument, ClearDisabled, TaskDisable, WaitDisabled, RadioFollowsMain
<1>2. CASE SetPointer \/ LoadChannel \/ SetFrequency \/ SetCurrent
  BY <1>2 DEF SetPointer, LoadChannel, SetFrequency, SetCurrent
<1>3. CASE TaskRxen \/ WaitPhyend \/ ClearPhyend \/ FetchDest \/ StoreDest
  BY <1>3 DEF TaskRxen, WaitPhyend, ClearPhyend, FetchDest, StoreDest, RadioFollowsMain
<1>4. CASE Isr
  BY <1>4 DEF Isr, IsrReset, IsrSetChannel, MayInterrupt, ReadDataAsync
<1>5. CASE RadioDisabled \/ RadioReady
  BY <1>5, TypeOK DEF RadioDisabled, RadioReady, TypeOK, MainPoints, RadioFollowsMain
<1>6. ASSUME NEW p \in Packets, RadioReceive(p) PROVE AgreeOnSlot'
  BY <1>6 DEF RadioReceive
<1>7. CASE UNCHANGED vars
  BY <1>7 DEF vars
<1> QED BY <1>1, <1>2, <1>3, <1>4, <1>5, <1>6, <1>7 DEF Next, Main

-----------------------------------------------------------------------------
(* The ring of slots.                                                      *)

\* What a step may do to the ring, in the terms of PacketRing.
Received(p) == /\ body' = [body EXCEPT ![NextDest] = p]
               /\ NextDest' = NextSlot(NextDest)
               /\ UNCHANGED current_channel
Tuned(c)    == current_channel' = c /\ UNCHANGED <<body, NextDest>>
Emptied     == body' = Cleared /\ NextDest' = 0 /\ UNCHANGED current_channel
NoRingStep  == UNCHANGED <<body, NextDest, current_channel>>

RingStep == \/ \E p \in Packets : Received(p)
            \/ \E c \in ChannelCmds : Tuned(c)
            \/ Emptied \/ NoRingStep

\* The steps of the main loop leave the ring alone: radio_destination moves to
\* where the next packet goes anyway, and the channel is re-applied.
LEMMA MainKeepsRing ==
  ASSUME Quiet, TypeOK, RadioFollowsMain, AgreeOnSlot, Main
  PROVE  NoRingStep
<1> USE DEF NoRingStep, NextDest, locals, registers, Go
<1>1. CASE BootFrequency \/ BootCurrent \/ Argument \/ ClearDisabled \/ TaskDisable \/ WaitDisabled
  BY <1>1 DEF BootFrequency, BootCurrent, Argument, ClearDisabled, TaskDisable, WaitDisabled,
              RadioFollowsMain
<1>2. CASE SetPointer \/ LoadChannel \/ SetFrequency \/ SetCurrent
  BY <1>2 DEF SetPointer, LoadChannel, SetFrequency, SetCurrent, AgreeOnSlot
<1>3. CASE TaskRxen \/ WaitPhyend \/ ClearPhyend \/ FetchDest \/ StoreDest
  BY <1>3 DEF TaskRxen, WaitPhyend, ClearPhyend, FetchDest, StoreDest,
              RadioFollowsMain, AgreeOnSlot
<1> QED BY <1>1, <1>2, <1>3 DEF Main

LEMMA EveryStepOnRing ==
  ASSUME Quiet, TypeOK, RadioFollowsMain, AgreeOnSlot, [Next]_vars
  PROVE  RingStep
<1>1. CASE Main
  BY <1>1, MainKeepsRing DEF RingStep
<1>2. CASE IsrReset
  <2>1. body' = Cleared /\ NextDest' = 0 /\ UNCHANGED current_channel
    BY <1>2 DEF IsrReset, ReadDataAsync, MayInterrupt, NextDest
  <2> QED BY <2>1 DEF RingStep, Emptied
<1>3. ASSUME NEW cmd \in ChannelCmds, IsrSetChannel(cmd) PROVE RingStep
  <2>1. current_channel' = cmd /\ UNCHANGED <<body, NextDest>>
    BY <1>3 DEF IsrSetChannel, ReadDataAsync, NextDest
  <2> QED BY <2>1 DEF RingStep, Tuned
<1>4. CASE RadioDisabled \/ RadioReady
  BY <1>4 DEF RadioDisabled, RadioReady, registers, RingStep, NoRingStep, NextDest
<1>5. ASSUME NEW p \in Packets, RadioReceive(p) PROVE RingStep
  <2>1. radio = "rx" /\ pc = "listen" /\ ~EVENTS_PHYEND /\ ptr = dest
    BY <1>5 DEF RadioReceive, RadioFollowsMain, AgreeOnSlot, TypeOK, MainPoints
  <2>2. Received(p)
    BY <1>5, <2>1 DEF RadioReceive, Received, NextDest
  <2> QED BY <2>2 DEF RingStep
<1>6. CASE UNCHANGED vars
  BY <1>6 DEF vars, registers, RingStep, NoRingStep, NextDest
<1> QED BY <1>1, <1>2, <1>3, <1>4, <1>5, <1>6 DEF Next, Isr

\* A ring filled up to its next slot stays so.
LEMMA StepFills ==
  ASSUME TypeOK, FilledTo(NextDest), RingStep
  PROVE  FilledTo(NextDest)'
<1> USE DEF FilledTo
<1>1. NextDest \in SlotIds
  BY RingCloses DEF TypeOK, NextDest
<1>2. ASSUME NEW p \in Packets, Received(p) PROVE FilledTo(NextDest)'
  <2>1. \A i \in SlotIds : body'[i] = IF i = NextDest THEN p ELSE body[i]
    BY <1>1, <1>2 DEF Received, TypeOK
  <2>2. p # Empty
    BY RadioAssumption
  <2>3. CASE \A i \in SlotIds : body[i] # Empty
    BY <2>1, <2>2, <2>3
  <2>4. CASE /\ \A i \in SlotIds : body[i] # Empty <=> i < NextDest
             /\ NextDest = Slots - 1
    <3>1. \A i \in SlotIds : i < NextDest \/ i = NextDest
      BY <1>1, <2>4, ProtocolAssumption DEF SlotIds
    <3> QED BY <2>1, <2>2, <2>4, <3>1
  <2>5. CASE /\ \A i \in SlotIds : body[i] # Empty <=> i < NextDest
             /\ NextDest # Slots - 1
    <3>1. NextSlot(NextDest) = NextDest + 1
      BY <1>1, <2>5, ProtocolAssumption DEF SlotIds, NextSlot
    <3>2. \A i \in SlotIds : i < NextDest + 1 <=> i < NextDest \/ i = NextDest
      BY <1>1 DEF SlotIds
    <3>3. NextDest' = NextDest + 1
      BY <1>2, <3>1 DEF Received
    <3> HIDE DEF NextDest
    <3> QED BY <2>1, <2>2, <2>5, <3>2, <3>3
  <2> QED BY <2>3, <2>4, <2>5
<1>3. ASSUME NEW c \in ChannelCmds, Tuned(c) PROVE FilledTo(NextDest)'
  BY <1>3 DEF Tuned
<1>4. CASE Emptied
  BY <1>4 DEF Emptied, Cleared, SlotIds
<1>5. CASE NoRingStep
  BY <1>5 DEF NoRingStep
<1> QED BY <1>2, <1>3, <1>4, <1>5 DEF RingStep

LEMMA StepInv == Quiet /\ RadioInv /\ [Next]_vars => RadioInv'
<1> SUFFICES ASSUME Quiet, RadioInv, [Next]_vars PROVE RadioInv'
  OBVIOUS
<1> QED
  BY StepType, StepFollows, StepAgree, EveryStepOnRing, StepFills DEF RadioInv

LEMMA RadioInvariant == Quiet => (SafeSpec => []RadioInv)
<1> SUFFICES ASSUME Quiet PROVE SafeSpec => []RadioInv
  OBVIOUS
<1>1. RadioInv /\ [Next]_vars => RadioInv'
  BY StepInv
<1> QED BY <1>1, InitInv, PTL DEF SafeSpec

-----------------------------------------------------------------------------
(* What the invariant gives.                                               *)

\* The slots fill from the first one on.
THEOREM SlotsFillFromStart == Quiet => (SafeSpec => []FillsFromStart)
<1>1. RadioInv => FillsFromStart
  <2> SUFFICES ASSUME FilledTo(NextDest), TypeOK,
                      NEW i \in SlotIds \ {0}, body[i] # Empty
               PROVE  body[i - 1] # Empty
    BY DEF RadioInv, FillsFromStart
  <2>1. i - 1 \in SlotIds
    BY ProtocolAssumption DEF SlotIds
  <2>2. NextDest \in SlotIds
    BY RingCloses DEF TypeOK, NextDest
  <2>3. i < NextDest => i - 1 < NextDest
    BY <2>2 DEF SlotIds
  <2> HIDE DEF NextDest
  <2> QED BY <2>1, <2>3 DEF FilledTo
<1> SUFFICES ASSUME Quiet PROVE SafeSpec => []FillsFromStart
  OBVIOUS
<1> QED BY <1>1, RadioInvariant, PTL

\* At the grain of single accesses the receiver is the ring of PacketRing.
THEOREM RadioImplementsRing == Quiet => (SafeSpec => ImplementsRing)
<1>1. Init => Ring!Init
  BY DEF Init, Ring!Init, Ring!Blank, Cleared, SlotIds
<1>2. Quiet /\ RadioInv /\ [Next]_vars => [Ring!Next]_(Ring!vars)
  <2> SUFFICES ASSUME Quiet, RadioInv, [Next]_vars PROVE [Ring!Next]_(Ring!vars)
    OBVIOUS
  <2>1. RingStep
    BY EveryStepOnRing DEF RadioInv
  <2> USE DEF NextDest
  <2>2. ASSUME NEW p \in Packets, Received(p) PROVE Ring!Next
    <3>1. Ring!Receive(p)
      BY <2>2 DEF Received, NextSlot, Ring!Receive
    <3> QED BY <3>1 DEF Ring!Next
  <2>3. ASSUME NEW c \in ChannelCmds, Tuned(c) PROVE Ring!Next
    BY <2>3 DEF Tuned, Ring!Next, Ring!Tune
  <2>4. CASE Emptied
    BY <2>4 DEF Emptied, Cleared, SlotIds, Ring!Next, Ring!Reset, Ring!Blank
  <2>5. CASE NoRingStep
    BY <2>5 DEF NoRingStep, Ring!vars
  <2> QED BY <2>1, <2>2, <2>3, <2>4, <2>5 DEF RingStep
<1> SUFFICES ASSUME Quiet PROVE SafeSpec => ImplementsRing
  OBVIOUS
<1> QED BY <1>1, <1>2, RadioInvariant, PTL DEF SafeSpec, ImplementsRing, Ring!Spec
=============================================================================
