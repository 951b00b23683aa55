------------------------- MODULE TestSessionProofs -------------------------
(***************************************************************************)
(* Theorems of module TestSession, for every number of slots, channels and *)
(* powers and every combination of faults.                                 *)
(***************************************************************************)
EXTENDS TestSession, SpiProtocolLemmas

-----------------------------------------------------------------------------
(* The inductive invariant, in parts.                                      *)

InSurvey == pc \in {"level", "reset", "send", "collect", "judge", "restore"}

\* Which command is where.
KindFits ==
  /\ kind = "none" <=> pc = "idle"
  /\ pc = "switch" => kind = "on"
  /\ pc \in {"visit", "compare"} => kind = "range"
  /\ pc = "back" => kind \in {"on", "range"}
  /\ pc \in {"survey", "level", "restore"} => kind # "test"

\* The figures of a series never count more packets than were asked for.
SeriesFits ==
  /\ pc = "send" => result = NoResult
  /\ pc = "collect" => result.lost + result.damaged <= count

\* The power of the client's last command is in use, or kept in old_power.
PowerKept ==
  /\ ~InSurvey \/ kind = "test" => power = Dispatched(asked)
  /\ InSurvey /\ kind # "test" => old_power = Dispatched(asked)

\* The client's channel is in use, or kept in old_channel.
ChannelKept ==
  /\ kind \in {"none", "test", "channel"} => txChannel = home
  /\ kind \in {"on", "range"} => old_channel = home
  /\ kind = "range" /\ pc = "sync" => txChannel = home

\* A range test goes through its range upwards; a range below the band is one
\* byte long.
GoesUp ==
  kind = "range" =>
    /\ end <= MaxChannel /\ ch <= end
    /\ seen = <<>> \/ DOMAIN seen # {}
    /\ pc # "back" =>
         /\ ch \in ChannelCmds \/ (ch = end /\ seen = <<>>)
         /\ \A c \in DOMAIN seen : c \in ChannelCmds /\ c < ch
    /\ pc = "back" =>
         /\ seen # <<>>
         /\ \A c \in DOMAIN seen : c \in ChannelCmds \/ DOMAIN seen = {c}

\* The best so far is the best of the channels seen, the first one of several.
BestSoFar ==
  kind = "range" /\ seen # <<>> =>
    /\ best.channel \in DOMAIN seen /\ best.info = seen[best.channel]
    /\ \A c \in DOMAIN seen :
         /\ Merit(seen[c]) <= Merit(best.info)
         /\ c < best.channel => Merit(seen[c]) < Merit(best.info)

SessionInv == /\ TypeOK /\ KindFits /\ SeriesFits /\ PowerKept /\ ChannelKept
              /\ GoesUp /\ BestSoFar

-----------------------------------------------------------------------------
(* Initial states.                                                         *)

\* Every byte that a channel setting can take is a whole number.
LEMMA BytesAreIntegers ==
  /\ Bytes \subseteq Int /\ ChannelCmds \subseteq Bytes
  /\ \A c \in Bytes : c < MinChannel => c = MinChannel - 1
  /\ \A c \in Bytes : c <= MaxChannel => c \in ChannelCmds \/ c = MinChannel - 1
BY ProtocolAssumption DEF Bytes, ChannelCmds, ResetCmd

LEMMA NoInfoType == NoInfo \in Infos
BY SessionAssumption DEF NoInfo, Infos

LEMMA InitInv == Init => SessionInv
<1> SUFFICES ASSUME Init PROVE SessionInv
  OBVIOUS
<1>1. BoardTypeOK
  <2>1. slots \in [SlotIds -> Packets] /\ dest \in SlotIds
    BY RingCloses DEF Init, Cleared, Packets
  <2>2. {1, Levels, DefaultPower} \subseteq 1 .. Levels
    BY SessionAssumption
  <2> QED BY <2>1, <2>2, CodesApart DEF Init, BoardTypeOK
<1>2. RangeTypeOK
  <2>1. DOMAIN seen = {}
    BY DEF Init
  <2> QED BY <2>1, CodesApart, BytesAreIntegers, NoInfoType DEF Init, RangeTypeOK
<1>3. SeriesTypeOK
  <2>1. InAir = 0
    BY DEF Init, InAir, NoAir, Packets
  <2>2. stored \in [Packets -> 0 .. Slots] /\ 0 <= Slots
    BY ProtocolAssumption DEF Init, NoAir
  <2>3. /\ result \in [lost : 0 .. Slots, damaged : 0 .. Slots]
        /\ result.lost + result.damaged <= Slots /\ count \in 0 .. Slots
    BY ProtocolAssumption DEF Init, NoResult
  <2> QED BY <2>1, <2>2, <2>3 DEF Init, SeriesTypeOK
<1>4. TypeOK
  BY <1>1, <1>2, <1>3 DEF Init, TypeOK
<1>5. /\ KindFits /\ SeriesFits /\ PowerKept /\ ChannelKept
      /\ GoesUp /\ BestSoFar
  BY SessionAssumption
     DEF Init, KindFits, SeriesFits, PowerKept, ChannelKept, GoesUp, BestSoFar,
         InSurvey, Dispatched
<1> QED BY <1>4, <1>5 DEF SessionInv

-----------------------------------------------------------------------------
(* Types.                                                                  *)

\* A command of the client begins.
LEMMA CommandTypes ==
  ASSUME TypeOK, Command
  PROVE  TypeOK'
<1> USE DEF TypeOK, BoardTypeOK, RangeTypeOK, SeriesTypeOK, InAir, rxVars,
            settings, range, survey, series, airVars
<1>1. CASE SetChannelCmd
  BY <1>1, TunedToType DEF SetChannelCmd, SetChannel
<1>2. CASE SetPowerCmd
  BY <1>2, SessionAssumption DEF SetPowerCmd, Dispatched
<1>3. CASE TestOn
  BY <1>3 DEF TestOn
<1>4. ASSUME NEW k \in {"test", "channel"}, Test(k) PROVE TypeOK'
  BY <1>4 DEF Test
<1>5. ASSUME NEW b \in Bytes, NEW e \in Bytes, TestRange(b, e) PROVE TypeOK'
  <2>1. end' \in Bytes /\ ch' \in Bytes
    BY <1>5, ProtocolAssumption
       DEF TestRange, Min2, Max2, Bytes, ChannelCmds, ResetCmd
  <2> QED BY <1>5, <2>1, NoInfoType DEF TestRange
<1> QED BY <1>1, <1>2, <1>3, <1>4, <1>5 DEF Command

\* Locals that are not alive have values of their type.
LEMMA OverTypes ==
  /\ RangeOver /\ UNCHANGED info /\ info \in Infos
       => RangeTypeOK' /\ old_channel' \in ChannelCmds
  /\ SeriesOver => SeriesTypeOK'
<1>1. ASSUME RangeOver, UNCHANGED info, info \in Infos
      PROVE  RangeTypeOK' /\ old_channel' \in ChannelCmds
  <2>1. DOMAIN seen' = {}
    BY <1>1 DEF RangeOver
  <2> QED BY <1>1, <2>1, CodesApart, BytesAreIntegers, NoInfoType
          DEF RangeOver, RangeTypeOK
<1>2. ASSUME SeriesOver PROVE SeriesTypeOK'
  <2>1. /\ stored' = NoAir /\ result' = NoResult /\ count' = 0 /\ clean' = FALSE
    BY <1>2 DEF SeriesOver
  <2>2. InAir' = 0 /\ stored' \in [Packets -> 0 .. Slots]
    BY <2>1, ProtocolAssumption DEF InAir, NoAir, Packets
  <2>3. /\ result' \in [lost : 0 .. Slots, damaged : 0 .. Slots]
        /\ result'.lost + result'.damaged <= Slots
        /\ count' \in 0 .. Slots /\ 0 <= Slots
    BY <2>1, ProtocolAssumption DEF NoResult
  <2> QED BY <2>1, <2>2, <2>3 DEF SeriesTypeOK
<1> QED BY <1>1, <1>2

\* The channels move, the packets stay.
LEMMA ChannelStepTypes ==
  ASSUME TypeOK, KindFits, GoesUp, Switch \/ Visit \/ Back \/ Sync \/ Compare
  PROVE  TypeOK'
<1> USE DEF rxVars, settings, range, survey, series, airVars
<1>1. ASSUME SeriesTypeOK, UNCHANGED <<series, airVars>> PROVE SeriesTypeOK'
  BY <1>1 DEF SeriesTypeOK, InAir
<1>2. CASE Switch \/ Visit
  BY <1>1, <1>2, TunedToType
     DEF Switch, Visit, GoTo, SetChannel, TypeOK, BoardTypeOK, RangeTypeOK
<1>3. CASE Back
  BY <1>1, <1>3, TunedToType, OverTypes
     DEF Back, GoTo, SetChannel, TypeOK, BoardTypeOK, RangeTypeOK
<1>4. CASE Sync
  <2>1. BoardTypeOK' /\ RangeTypeOK'
    <3>1. PICK o \in Outcomes : SetChannel(txChannel, o)
      BY <1>4 DEF Sync
    <3>2. {rxChannel', txChannel'} \subseteq ChannelCmds
      BY <3>1, TunedToType DEF SetChannel, TypeOK, BoardTypeOK
    <3>3. UNCHANGED <<slots, dest, power, asked, survey>>
      BY <1>4 DEF Sync, SetChannel
    <3>4. RangeOver \/ UNCHANGED range
      BY <1>4 DEF Sync
    <3>5. home' \in {txChannel', home}
      BY <1>4 DEF Sync
    <3> QED BY <3>2, <3>3, <3>4, <3>5, OverTypes DEF TypeOK, BoardTypeOK, RangeTypeOK
  <2> QED BY <1>1, <1>4, <2>1 DEF Sync, TypeOK
<1>5. CASE Compare
  <2>1. ch' \in Bytes
    <3>1. end <= MaxChannel
      BY <1>5 DEF Compare, KindFits, GoesUp
    <3>2. ch < end => ch + 1 \in Bytes
      BY <3>1, ProtocolAssumption DEF TypeOK, RangeTypeOK, Bytes, ChannelCmds, ResetCmd
    <3> QED BY <1>5, <3>2 DEF Compare, TypeOK, RangeTypeOK
  <2>2. best' \in [channel : Bytes, info : Infos]
    BY <1>5 DEF Compare, TypeOK, RangeTypeOK
  <2>3. DOMAIN seen' \subseteq Bytes /\ \A c \in DOMAIN seen' : seen'[c] \in Infos
    BY <1>5 DEF Compare, TypeOK, RangeTypeOK
  <2>4. RangeTypeOK'
    BY <1>5, <2>1, <2>2, <2>3, NoInfoType DEF Compare, TypeOK, RangeTypeOK
  <2>5. BoardTypeOK'
    BY <1>5 DEF Compare, TypeOK, BoardTypeOK
  <2> QED BY <1>1, <1>5, <2>4, <2>5 DEF Compare, TypeOK
<1> QED BY <1>2, <1>3, <1>4, <1>5

\* The power moves.
LEMMA SurveyStepTypes ==
  ASSUME TypeOK, Survey \/ Level \/ Judge \/ Restore
  PROVE  TypeOK'
<1> USE DEF rxVars, settings, range, survey, series, airVars
<1>1. ASSUME SeriesTypeOK, UNCHANGED <<series, airVars>> PROVE SeriesTypeOK'
  BY <1>1 DEF SeriesTypeOK, InAir
<1>2. 1 \in 1 .. Levels /\ Levels \in 1 .. Levels
  BY SessionAssumption
<1>3. CASE Survey
  BY <1>1, <1>2, <1>3, NoInfoType DEF Survey, TypeOK, BoardTypeOK, RangeTypeOK
<1>4. CASE Level
  <2>1. info' \in Infos
    BY <1>4, SessionAssumption DEF Level, TypeOK, RangeTypeOK, Infos, Max2
  <2> QED BY <1>1, <1>4, <2>1 DEF Level, TypeOK, BoardTypeOK, RangeTypeOK
<1>5. CASE Judge
  <2>1. info' \in Infos
    BY <1>5 DEF Judge, TypeOK, BoardTypeOK, RangeTypeOK, Infos
  <2>2. level' \in 1 .. Levels
    BY <1>5, SessionAssumption DEF Judge, NextLevel, TypeOK, BoardTypeOK
  <2> QED BY <1>5, <2>1, <2>2, OverTypes DEF Judge, TypeOK, BoardTypeOK, RangeTypeOK
<1>6. CASE Restore
  BY <1>1, <1>2, <1>6, NoInfoType
     DEF Restore, EndSurvey, TypeOK, BoardTypeOK, RangeTypeOK
<1> QED BY <1>3, <1>4, <1>5, <1>6

\* The account of a series stays within the slots of the receiver.
LEMMA AccountTypes ==
  ASSUME NEW c \in BOOLEAN, NEW s, Account(c, s),
         c => /\ s \in [Packets -> Nat]
              /\ s["intact"] + s["damaged"] + s["empty"] <= Slots
  PROVE  /\ clean' \in BOOLEAN
         /\ stored' \in [Packets -> 0 .. Slots] /\ InAir' <= Slots
<1>1. clean' = c /\ stored' = IF c THEN s ELSE NoAir
  BY DEF Account
<1>2. stored' \in [Packets -> Nat]
  BY <1>1 DEF NoAir
<1>3. InAir' <= Slots
  BY <1>1, ProtocolAssumption DEF InAir, NoAir, Packets
<1>4. \A p \in Packets : stored'[p] <= Slots
  BY <1>2, <1>3, ProtocolAssumption DEF InAir, Packets
<1> QED BY <1>1, <1>2, <1>3, <1>4, ProtocolAssumption

\* The receiver stores a packet.
LEMMA StoreTypes ==
  ASSUME TypeOK, NEW p \in Packets, Store(p)
  PROVE  /\ slots' \in [SlotIds -> Packets] /\ dest' \in SlotIds
         /\ clean' \in BOOLEAN
         /\ stored' \in [Packets -> 0 .. Slots] /\ InAir' <= Slots
<1> DEFINE s == [stored EXCEPT ![p] = @ + 1]
           c == clean /\ pc = "send" /\ InAir < Slots
<1>1. slots' \in [SlotIds -> Packets] /\ dest' \in SlotIds
  BY RingCloses DEF Store, TypeOK, BoardTypeOK
<1>2. stored \in [Packets -> Nat] /\ clean \in BOOLEAN
  BY ProtocolAssumption DEF TypeOK, SeriesTypeOK
<1>3. s \in [Packets -> Nat]
  BY <1>2
<1>4. s["intact"] + s["damaged"] + s["empty"] = InAir + 1
  BY <1>2 DEF InAir, Packets
<1>5. InAir \in Nat
  BY <1>2 DEF InAir, Packets
<1>6. c => s["intact"] + s["damaged"] + s["empty"] <= Slots
  BY <1>4, <1>5, ProtocolAssumption
<1>7. Account(c, s) /\ c \in BOOLEAN
  BY <1>2 DEF Store
<1> QED BY <1>1, <1>3, <1>6, <1>7, AccountTypes

\* One loopback adds at most one to the figures.
LEMMA CountedTypes ==
  ASSUME NEW r \in [lost : Nat, damaged : Nat], NEW loopback
  PROVE  /\ Counted(r, loopback) \in [lost : Nat, damaged : Nat]
         /\ Counted(r, loopback).lost + Counted(r, loopback).damaged
              <= r.lost + r.damaged + 1
<1>1. r.lost \in Nat /\ r.damaged \in Nat
  OBVIOUS
<1>2. loopback = "empty" => loopback # "damaged"
  OBVIOUS
<1> QED BY <1>1, <1>2 DEF Counted

\* Packets and reports move.
LEMMA SeriesStepTypes ==
  ASSUME TypeOK, SeriesFits,
         Reset \/ Send \/ AllSent \/ Collect \/ AllCollected \/ Noise \/ Reboot
  PROVE  TypeOK'
<1> USE DEF rxVars, settings, range, survey, series, airVars
<1>1. ASSUME RangeTypeOK, UNCHANGED <<range, survey>> PROVE RangeTypeOK'
  BY <1>1 DEF RangeTypeOK
<1>2. Cleared \in [SlotIds -> Packets] /\ 0 \in SlotIds /\ DefaultChannel \in ChannelCmds
  BY RingCloses, CodesApart DEF Cleared, Packets
<1>3. NoAir \in [Packets -> Nat] /\ NoAir["intact"] + NoAir["damaged"] + NoAir["empty"] <= Slots
  BY ProtocolAssumption DEF NoAir, Packets
<1>4. /\ NoResult \in [lost : 0 .. Slots, damaged : 0 .. Slots]
      /\ NoResult.lost + NoResult.damaged <= Slots /\ 0 \in 0 .. Slots
  BY ProtocolAssumption DEF NoResult
<1>5. CASE Reset
  <2>1. PICK o \in Outcomes :
             /\ IF o.done THEN ResetPacks ELSE UNCHANGED <<slots, dest>>
             /\ Account(o.done, NoAir)
    BY <1>5 DEF Reset
  <2>2. slots' \in [SlotIds -> Packets] /\ dest' \in SlotIds
    BY <1>2, <2>1 DEF ResetPacks, TypeOK, BoardTypeOK
  <2>3. SeriesTypeOK'
    <3>1. o.done \in BOOLEAN
      <4>1. CASE "spi" \in Faults
        BY <4>1 DEF Outcomes
      <4>2. CASE "spi" \notin Faults
        <5>1. o = [done |-> TRUE, verdict |-> "SUCCESS"]
          BY <4>2 DEF Outcomes
        <5> QED BY <5>1
      <4> QED BY <4>1, <4>2
    <3>2. /\ clean' \in BOOLEAN
          /\ stored' \in [Packets -> 0 .. Slots] /\ InAir' <= Slots
      BY <1>3, <2>1, <3>1, AccountTypes
    <3> QED BY <1>4, <1>5, <3>2 DEF Reset, SeriesTypeOK
  <2> QED BY <1>1, <1>5, <2>2, <2>3 DEF Reset, TypeOK, BoardTypeOK
<1>6. CASE Send
  <2>1. count' \in 0 .. Slots /\ UNCHANGED result
    BY <1>6, ProtocolAssumption DEF Send, TypeOK, SeriesTypeOK
  <2>2. CASE UNCHANGED <<slots, dest, airVars>>
    BY <1>1, <1>6, <2>1, <2>2 DEF Send, TypeOK, BoardTypeOK, SeriesTypeOK, InAir
  <2>3. CASE \E p \in Packets : Store(p)
    <3>1. /\ slots' \in [SlotIds -> Packets] /\ dest' \in SlotIds
          /\ clean' \in BOOLEAN
          /\ stored' \in [Packets -> 0 .. Slots] /\ InAir' <= Slots
      BY <2>3, StoreTypes
    <3> QED BY <1>1, <1>6, <2>1, <3>1 DEF Send, TypeOK, BoardTypeOK, SeriesTypeOK
  <2> QED BY <1>6, <2>2, <2>3 DEF Send
<1>7. CASE AllSent \/ AllCollected
  BY <1>1, <1>4, <1>7 DEF AllSent, AllCollected, TypeOK, BoardTypeOK, SeriesTypeOK, InAir
<1>8. CASE Collect
  <2>1. PICK o, loopback :
          /\ result' = Counted(result, loopback)
          /\ Account(clean /\ loopback = slots[count], stored)
    BY <1>8 DEF Collect
  <2>2. /\ stored \in [Packets -> Nat] /\ clean \in BOOLEAN
        /\ stored["intact"] + stored["damaged"] + stored["empty"] <= Slots
    BY ProtocolAssumption DEF TypeOK, SeriesTypeOK, InAir
  <2>3. /\ clean' \in BOOLEAN
        /\ stored' \in [Packets -> 0 .. Slots] /\ InAir' <= Slots
    BY <2>1, <2>2, AccountTypes
  <2>4. /\ count < Slots /\ count' = count + 1
        /\ result \in [lost : Nat, damaged : Nat]
        /\ result.lost + result.damaged <= count
    <3>1. pc = "collect" /\ count < Slots /\ count' = count + 1
      BY <1>8 DEF Collect
    <3> QED BY <3>1, ProtocolAssumption DEF SeriesFits, TypeOK, SeriesTypeOK
  <2>5. /\ result' \in [lost : Nat, damaged : Nat]
        /\ result'.lost + result'.damaged <= count + 1
    BY <2>1, <2>4, CountedTypes DEF TypeOK, SeriesTypeOK
  <2>6. /\ result' \in [lost : 0 .. Slots, damaged : 0 .. Slots]
        /\ result'.lost + result'.damaged <= Slots
        /\ count' \in 0 .. Slots
    BY <2>4, <2>5, ProtocolAssumption DEF TypeOK, SeriesTypeOK
  <2> QED BY <1>1, <1>8, <2>3, <2>6 DEF Collect, TypeOK, BoardTypeOK, SeriesTypeOK
<1>9. CASE Noise
  <2>1. /\ slots' \in [SlotIds -> Packets] /\ dest' \in SlotIds
        /\ clean' \in BOOLEAN
        /\ stored' \in [Packets -> 0 .. Slots] /\ InAir' <= Slots
    BY <1>9, StoreTypes DEF Noise, Packets
  <2> QED BY <1>1, <1>9, <2>1 DEF Noise, TypeOK, BoardTypeOK, SeriesTypeOK
<1>10. CASE Reboot
  <2>1. /\ clean' \in BOOLEAN
        /\ stored' \in [Packets -> 0 .. Slots] /\ InAir' <= Slots
    BY <1>3, <1>10, AccountTypes DEF Reboot
  <2> QED BY <1>1, <1>2, <1>10, <2>1 DEF Reboot, TypeOK, BoardTypeOK, SeriesTypeOK
<1> QED BY <1>5, <1>6, <1>7, <1>8, <1>9, <1>10

LEMMA StepType ==
  ASSUME TypeOK, KindFits, SeriesFits, GoesUp, [Next]_vars
  PROVE  TypeOK'
<1>1. CASE UNCHANGED vars
  BY <1>1 DEF vars, rxVars, settings, range, survey, series, airVars, TypeOK,
              BoardTypeOK, RangeTypeOK, SeriesTypeOK, InAir
<1> QED BY <1>1, CommandTypes, ChannelStepTypes, SurveyStepTypes, SeriesStepTypes
        DEF Next, Step

-----------------------------------------------------------------------------
(* The other parts of the invariant, step by step.                         *)

\* A command stays in the places it may visit.
LEMMA StepKind ==
  ASSUME TypeOK, KindFits, [Next]_vars
  PROVE  KindFits'
<1> USE DEF KindFits, rxVars, settings, range, survey, series, airVars
<1>1. CASE Command
  BY <1>1
     DEF Command, SetChannelCmd, SetPowerCmd, TestOn, Test, TestRange
<1>2. CASE Switch \/ Visit \/ Back \/ Sync \/ Compare
  BY <1>2
     DEF Switch, Visit, Back, Sync, Compare, GoTo, RangeOver
<1>3. CASE Survey \/ Level \/ Judge \/ Restore
  BY <1>3
     DEF Survey, Level, Judge, Restore, EndSurvey
<1>4. CASE Reset \/ Send \/ AllSent \/ Collect \/ AllCollected \/ Noise \/ Reboot
  BY <1>4
     DEF Reset, Send, AllSent, Collect, AllCollected, Noise, Reboot
<1>5. CASE UNCHANGED vars
  BY <1>5 DEF vars
<1> QED BY <1>1, <1>2, <1>3, <1>4, <1>5 DEF Next, Step

\* The power is restored on every way out of a survey.
LEMMA StepPower ==
  ASSUME TypeOK, KindFits, PowerKept, [Next]_vars
  PROVE  PowerKept'
<1> USE DEF KindFits, PowerKept, InSurvey, rxVars, settings, range, survey, series, airVars
<1>1. CASE Command
  BY <1>1
     DEF Command, SetChannelCmd, SetPowerCmd, TestOn, Test, TestRange
<1>2. CASE Switch \/ Visit \/ Back \/ Sync \/ Compare
  BY <1>2
     DEF Switch, Visit, Back, Sync, Compare, GoTo, RangeOver
<1>3. CASE Survey \/ Level \/ Judge \/ Restore
  BY <1>3
     DEF Survey, Level, Judge, Restore, EndSurvey
<1>4. CASE Reset \/ Send \/ AllSent \/ Collect \/ AllCollected \/ Noise \/ Reboot
  BY <1>4
     DEF Reset, Send, AllSent, Collect, AllCollected, Noise, Reboot
<1>5. CASE UNCHANGED vars
  BY <1>5 DEF vars
<1> QED BY <1>1, <1>2, <1>3, <1>4, <1>5 DEF Next, Step

\* The channel is restored on every way out of a test.
LEMMA StepChannel ==
  ASSUME TypeOK, KindFits, ChannelKept, [Next]_vars
  PROVE  ChannelKept'
<1> USE DEF KindFits, ChannelKept, rxVars, settings, range, survey, series, airVars
<1>1. CASE Command
  BY <1>1
     DEF Command, SetChannelCmd, SetPowerCmd, TestOn, Test, TestRange,
         SetChannel
<1>2. CASE Switch \/ Visit \/ Back \/ Sync \/ Compare
  BY <1>2
     DEF Switch, Visit, Back, Sync, Compare, GoTo, RangeOver,
         SetChannel, TunedTo, TypeOK, BoardTypeOK
<1>3. CASE Survey \/ Level \/ Judge \/ Restore
  BY <1>3
     DEF Survey, Level, Judge, Restore, EndSurvey
<1>4. CASE Reset \/ Send \/ AllSent \/ Collect \/ AllCollected \/ Noise \/ Reboot
  BY <1>4
     DEF Reset, Send, AllSent, Collect, AllCollected, Noise, Reboot
<1>5. CASE UNCHANGED vars
  BY <1>5 DEF vars
<1> QED BY <1>1, <1>2, <1>3, <1>4, <1>5 DEF Next, Step

\* The figures of a series grow with its loop.
LEMMA StepSeries ==
  ASSUME TypeOK, SeriesFits, [Next]_vars
  PROVE  SeriesFits'
<1> USE DEF SeriesFits, rxVars, settings, range, survey, series, airVars
<1>1. CASE Command
  BY <1>1 DEF Command, SetChannelCmd, SetPowerCmd, TestOn, Test, TestRange
<1>2. CASE Switch \/ Visit \/ Back \/ Sync \/ Compare
  BY <1>2 DEF Switch, Visit, Back, Sync, Compare, GoTo, RangeOver
<1>3. CASE Survey \/ Level \/ Judge \/ Restore
  BY <1>3 DEF Survey, Level, Judge, Restore, EndSurvey
<1>4. CASE Reset \/ Send \/ AllCollected \/ Noise \/ Reboot
  BY <1>4 DEF Reset, Send, AllCollected, Noise, Reboot
<1>5. CASE AllSent
  BY <1>5 DEF AllSent, NoResult
<1>6. CASE Collect
  <2>1. PICK loopback : result' = Counted(result, loopback)
    BY <1>6 DEF Collect
  <2>2. pc = "collect" /\ count' = count + 1 /\ pc' = pc
    BY <1>6 DEF Collect
  <2>3. result \in [lost : Nat, damaged : Nat] /\ count \in Nat
    BY ProtocolAssumption DEF TypeOK, SeriesTypeOK
  <2>4. /\ result'.lost + result'.damaged <= result.lost + result.damaged + 1
        /\ result' \in [lost : Nat, damaged : Nat]
    BY <2>1, <2>3, CountedTypes
  <2> QED BY <2>2, <2>3, <2>4
<1>7. CASE UNCHANGED vars
  BY <1>7 DEF vars
<1> QED BY <1>1, <1>2, <1>3, <1>4, <1>5, <1>6, <1>7 DEF Next, Step

\* A range test goes through its range upwards.
LEMMA StepGoesUp ==
  ASSUME TypeOK, KindFits, GoesUp, [Next]_vars
  PROVE  GoesUp'
<1> USE DEF KindFits, rxVars, settings, range, survey, series, airVars
<1>1. CASE Command
  <2>1. ASSUME NEW b \in Bytes, NEW e \in Bytes, TestRange(b, e) PROVE GoesUp'
    <3>1. end' <= MaxChannel /\ ch' <= end' /\ (ch' \in ChannelCmds \/ ch' = end')
      BY <2>1, BytesAreIntegers, ProtocolAssumption
         DEF TestRange, Min2, Max2, ChannelCmds
    <3>2. pc' = "sync" /\ seen' = <<>> /\ DOMAIN seen' = {}
      BY <2>1 DEF TestRange
    <3> QED BY <3>1, <3>2 DEF GoesUp
  <2>2. CASE SetChannelCmd \/ SetPowerCmd \/ TestOn \/ \E k \in {"test", "channel"} : Test(k)
    BY <2>2 DEF SetChannelCmd, SetPowerCmd, TestOn, Test, GoesUp
  <2> QED BY <1>1, <2>1, <2>2 DEF Command
<1>2. CASE Switch \/ Visit \/ Back \/ Sync
  BY <1>2 DEF Switch, Visit, Back, Sync, GoTo, RangeOver, GoesUp
<1>3. CASE Compare
  <2>1. /\ ch \in Int /\ end \in Int /\ end <= MaxChannel /\ ch <= end
        /\ ch \in ChannelCmds \/ (ch = end /\ seen = <<>>)
        /\ \A c \in DOMAIN seen : c \in ChannelCmds /\ c < ch
    BY <1>3, BytesAreIntegers DEF Compare, GoesUp, TypeOK, RangeTypeOK
  <2>2. DOMAIN seen' = DOMAIN seen \cup {ch}
    BY <1>3 DEF Compare
  <2>3. seen' # <<>> /\ DOMAIN seen' # {}
    BY <2>2
  <2>4. CASE ch < end
    <3>1. ch' = ch + 1 /\ pc' = "visit" /\ end' = end
      BY <1>3, <2>4 DEF Compare
    <3>2. ch \in ChannelCmds /\ ch + 1 \in ChannelCmds
      BY <2>1, <2>4, ProtocolAssumption DEF ChannelCmds
    <3>3. \A c \in DOMAIN seen' : c \in ChannelCmds /\ c < ch + 1
      BY <2>1, <2>2, <3>2, ProtocolAssumption DEF ChannelCmds
    <3> QED BY <2>1, <2>3, <2>4, <3>1, <3>2, <3>3 DEF GoesUp
  <2>5. CASE ~(ch < end)
    <3>1. ch' = ch /\ pc' = "back" /\ end' = end
      BY <1>3, <2>5 DEF Compare
    <3>2. \A c \in DOMAIN seen' : c \in ChannelCmds \/ DOMAIN seen' = {c}
      BY <2>1, <2>2
    <3> QED BY <2>1, <2>3, <3>1, <3>2 DEF GoesUp
  <2> QED BY <2>4, <2>5
<1>4. CASE Survey \/ Level \/ Judge \/ Restore
  BY <1>4 DEF Survey, Level, Judge, Restore, EndSurvey, GoesUp
<1>5. CASE Reset \/ Send \/ AllSent \/ Collect \/ AllCollected \/ Noise \/ Reboot
  BY <1>5 DEF Reset, Send, AllSent, Collect, AllCollected, Noise, Reboot, GoesUp
<1>6. CASE UNCHANGED vars
  BY <1>6 DEF vars, GoesUp
<1> QED BY <1>1, <1>2, <1>3, <1>4, <1>5, <1>6 DEF Next, Step

-----------------------------------------------------------------------------
(* The choice of a channel.                                                *)

\* The comparison of test_range is the order of Merit.
LEMMA BetterIsMerit ==
  ASSUME NEW i \in Infos, NEW j \in Infos
  PROVE  /\ Merit(i) \in Int
         /\ Better(i, j) <=> Merit(i) > Merit(j)
<1>1. /\ i.loss \in 1 .. Levels /\ j.loss \in 1 .. Levels
      /\ i.noise \in 0 .. 255 /\ j.noise \in 0 .. 255
      /\ i.flag \in {"OK", "LOSS"} /\ j.flag \in {"OK", "LOSS"}
  BY SessionAssumption DEF Infos
<1>2. PICK a \in Int, b \in Int :
        /\ a = (IF i.flag = "OK" THEN Levels ELSE 0) + i.loss
        /\ b = (IF j.flag = "OK" THEN Levels ELSE 0) + j.loss
  BY <1>1, SessionAssumption
<1>3. PICK x \in 0 .. 255, y \in 0 .. 255 : x = i.noise /\ y = j.noise
  BY <1>1
<1>4. Merit(i) = a * 256 - x /\ Merit(j) = b * 256 - y
  BY <1>2, <1>3 DEF Merit
<1>5. Better(i, j) <=> a > b \/ (a = b /\ x < y)
  BY <1>1, <1>2, <1>3, SessionAssumption DEF Better
<1>6. a * 256 - x > b * 256 - y <=> a > b \/ (a = b /\ x < y)
  OBVIOUS
<1> QED BY <1>4, <1>5, <1>6

LEMMA StepBest ==
  ASSUME TypeOK, KindFits, GoesUp, BestSoFar, [Next]_vars
  PROVE  BestSoFar'
<1> USE DEF KindFits, rxVars, settings, range, survey, series, airVars
<1>1. CASE Command
  BY <1>1 DEF Command, SetChannelCmd, SetPowerCmd, TestOn, Test, TestRange, BestSoFar
<1>2. CASE Switch \/ Visit \/ Back \/ Sync
  BY <1>2 DEF Switch, Visit, Back, Sync, GoTo, RangeOver, BestSoFar
<1>3. CASE Compare
  <2>1. /\ kind = "range" /\ \A c \in DOMAIN seen : c \in Int /\ c < ch
        /\ ch \in Int /\ info \in Infos /\ \A c \in DOMAIN seen : seen[c] \in Infos
    BY <1>3, BytesAreIntegers DEF Compare, GoesUp, TypeOK, RangeTypeOK
  <2>2. seen' = [c \in DOMAIN seen \cup {ch} |-> IF c = ch THEN info ELSE seen[c]]
    BY <1>3 DEF Compare
  <2>3. /\ DOMAIN seen' = DOMAIN seen \cup {ch} /\ seen'[ch] = info
        /\ \A c \in DOMAIN seen : seen'[c] = seen[c]
    BY <2>1, <2>2
  <2>4. CASE seen = <<>>
    <3>1. DOMAIN seen' = {ch} /\ best' = [channel |-> ch, info |-> info]
      BY <1>3, <2>3, <2>4 DEF Compare
    <3>2. Merit(info) \in Int
      BY <2>1, BetterIsMerit
    <3> QED BY <2>1, <2>3, <3>1, <3>2 DEF BestSoFar
  <2>5. CASE seen # <<>> /\ Better(info, best.info)
    <3>1. /\ best.channel \in DOMAIN seen /\ best.info = seen[best.channel]
          /\ \A c \in DOMAIN seen : Merit(seen[c]) <= Merit(best.info)
      BY <2>1, <2>5 DEF BestSoFar
    <3>2. best' = [channel |-> ch, info |-> info]
      BY <1>3, <2>5 DEF Compare
    <3>3. Merit(info) > Merit(best.info) /\ Merit(info) \in Int
      BY <2>1, <2>5, <3>1, BetterIsMerit
    <3>4. \A c \in DOMAIN seen : Merit(seen[c]) \in Int /\ Merit(seen[c]) < Merit(info)
      BY <2>1, <3>1, <3>3, BetterIsMerit
    <3> QED BY <2>1, <2>3, <3>2, <3>3, <3>4 DEF BestSoFar
  <2>6. CASE seen # <<>> /\ ~Better(info, best.info)
    <3>1. /\ best.channel \in DOMAIN seen /\ best.info = seen[best.channel]
          /\ \A c \in DOMAIN seen :
               /\ Merit(seen[c]) <= Merit(best.info)
               /\ c < best.channel => Merit(seen[c]) < Merit(best.info)
      BY <2>1, <2>6 DEF BestSoFar
    <3>2. best' = best
      BY <1>3, <2>6 DEF Compare
    <3>3. Merit(info) <= Merit(best.info)
      BY <2>1, <2>6, <3>1, BetterIsMerit
    <3>4. ~(ch < best.channel)
      BY <2>1, <3>1
    <3> QED BY <2>3, <3>1, <3>2, <3>3, <3>4 DEF BestSoFar
  <2> QED BY <2>4, <2>5, <2>6
<1>4. CASE Survey \/ Level \/ Judge \/ Restore
  BY <1>4 DEF Survey, Level, Judge, Restore, EndSurvey, BestSoFar
<1>5. CASE Reset \/ Send \/ AllSent \/ Collect \/ AllCollected \/ Noise \/ Reboot
  BY <1>5 DEF Reset, Send, AllSent, Collect, AllCollected, Noise, Reboot, BestSoFar
<1>6. CASE UNCHANGED vars
  BY <1>6 DEF vars, BestSoFar
<1> QED BY <1>1, <1>2, <1>3, <1>4, <1>5, <1>6 DEF Next, Step

-----------------------------------------------------------------------------
(* What the invariant gives.                                               *)

LEMMA StepInv == SessionInv /\ [Next]_vars => SessionInv'
<1> SUFFICES ASSUME SessionInv, [Next]_vars PROVE SessionInv'
  OBVIOUS
<1> QED
  BY StepType, StepKind, StepSeries, StepPower, StepChannel, StepGoesUp, StepBest
     DEF SessionInv

LEMMA SessionInvariant == Spec => []SessionInv
<1> QED BY InitInv, StepInv, PTL DEF Spec

\* Every variable of a session keeps its type, whatever fails.
THEOREM SessionTypeCorrect == Spec => []TypeOK
<1>1. SessionInv => TypeOK
  BY DEF SessionInv
<1> QED BY <1>1, SessionInvariant, PTL

\* A test leaves the power that the client's last power command has set, on every
\* way out of it.
THEOREM PowerIsRestored == Spec => []PowerRestored
<1>1. SessionInv => PowerRestored
  BY DEF SessionInv, PowerKept, InSurvey, PowerRestored
<1> QED BY <1>1, SessionInvariant, PTL

\* A test leaves the channel the client has set, with the exception named.
THEOREM ChannelIsRestored == Spec => []ChannelRestored
<1>1. SessionInv => ChannelRestored
  BY DEF SessionInv, KindFits, ChannelKept, ChannelRestored
<1> QED BY <1>1, SessionInvariant, PTL

\* A range test chooses the best of its channels, however many there are.
THEOREM RangeIsBest == Spec => []RangeChoosesBest
<1>1. SessionInv => RangeChoosesBest
  BY DEF SessionInv, BestSoFar, GoesUp, RangeChoosesBest
<1> QED BY <1>1, SessionInvariant, PTL
=============================================================================
