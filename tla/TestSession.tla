---------------------------- MODULE TestSession ----------------------------
(***************************************************************************)
(* The test commands of the transmitter's command line                     *)
(* (Transmitter/cli.c over transmitter.c), from the prompt back to the     *)
(* prompt: agree on a channel with the receiver, and at each power from    *)
(* the highest down send a series of packets and read back what arrived.   *)
(*                                                                         *)
(* A delivery is one step: executed or not, confirmed or not, in any       *)
(* combination once the wire may fail.  The receiver is a ring of slots    *)
(* and a channel.  A packet is intact or damaged; one whose length byte    *)
(* was damaged to 0 looks like no packet at all.  A power is its place in  *)
(* powers[], 1 the highest.                                                *)
(***************************************************************************)
EXTENDS SpiProtocol

CONSTANTS
  Levels,       \* sizeof(powers) (15), the place of -40 dBm
  DefaultPower, \* place of DEFAULT_POWER, 0 dBm (8)
  Neg4,         \* place of -4 dBm (9)
  NoiseLevels,  \* what check_power can return (a uint8_t)
  Faults        \* a part of {"spi", "reboot", "noise"}

ASSUME SessionAssumption ==
  /\ Levels \in Nat \ {0} /\ {DefaultPower, Neg4} \subseteq 1 .. Levels
  /\ DefaultPower # Neg4
  /\ NoiseLevels \subseteq 0 .. 255 /\ 0 \in NoiseLevels
  /\ Faults \subseteq {"spi", "reboot", "noise"}

\* spi_status is no variable of its own: it is read only right after the
\* delivery that set it, as the verdict of that delivery.
VARIABLES
  \* The receiver.
  slots, dest, rxChannel,
  \* The transmitter.
  pc, kind,           \* where it is, and in which command
  txChannel, power,   \* settings of its radio
  old_channel,        \* local of the command: the channel to return to
  ch, end,            \* locals of test_range: channel under test, last one
  best,               \* locals best_channel and best_info of test_range
  old_power,          \* local of transmitter_test_channel
  level, info,        \* locals of transmitter_test_channel
  count, result,      \* locals of test_series_raw
  \* History.
  asked,   \* power the client last asked for
  home,    \* channel the client asked for, or was left on by a failed test
  clean,   \* the series is as it should be so far, see Account
  stored,  \* what the receiver has stored since the reset, while clean
  seen     \* the channels test_range has tested, with what it found

rxVars   == <<slots, dest, rxChannel>>
settings == <<txChannel, power, asked, home>>
range    == <<old_channel, ch, end, best, seen>>
survey   == <<old_power, level, info>>
series   == <<count, result>>
airVars  == <<clean, stored>>
vars     == <<rxVars, pc, kind, settings, range, survey, series, airVars>>

Cleared == [i \in SlotIds |-> "empty"]
Packets == {"intact", "damaged", "empty"}
Bytes   == {MinChannel - 1, MaxChannel + 1} \cup ChannelCmds  \* as arguments
Max2(a, b) == IF a >= b THEN a ELSE b
Min2(a, b) == IF a <= b THEN a ELSE b

NoInfo   == [flag |-> "OK", loss |-> Levels, noise |-> 0]
NoResult == [lost |-> 0, damaged |-> 0]
NoAir    == [p \in Packets |-> 0]
Infos    == [flag : {"OK", "LOSS"}, loss : 1 .. Levels, noise : NoiseLevels]
InAir    == stored["intact"] + stored["damaged"] + stored["empty"]

BoardTypeOK ==
  /\ slots \in [SlotIds -> Packets] /\ dest \in SlotIds
  /\ {rxChannel, txChannel, home, old_channel} \subseteq ChannelCmds
  /\ {power, old_power, asked, level} \subseteq 1 .. Levels

RangeTypeOK ==
  /\ ch \in Bytes /\ end \in Bytes /\ info \in Infos
  /\ best \in [channel : Bytes, info : Infos]
  /\ DOMAIN seen \subseteq Bytes /\ \A c \in DOMAIN seen : seen[c] \in Infos

SeriesTypeOK ==
  /\ count \in 0 .. Slots
  /\ result \in [lost : 0 .. Slots, damaged : 0 .. Slots]
  /\ result.lost + result.damaged <= Slots
  /\ clean \in BOOLEAN
  /\ stored \in [Packets -> 0 .. Slots] /\ InAir <= Slots

TypeOK ==
  /\ pc \in {"idle", "switch", "sync", "visit", "survey", "level", "reset",
             "send", "collect", "judge", "restore", "compare", "back"}
  /\ kind \in {"none", "test", "channel", "on", "range"}
  /\ BoardTypeOK /\ RangeTypeOK /\ SeriesTypeOK

\* Locals that are not alive have these values.
RangeOver  == /\ old_channel' = DefaultChannel
              /\ ch' = DefaultChannel /\ end' = DefaultChannel
              /\ best' = [channel |-> DefaultChannel, info |-> NoInfo]
              /\ seen' = <<>>
SeriesOver == /\ count' = 0 /\ result' = NoResult
              /\ clean' = FALSE /\ stored' = NoAir

Init ==
  /\ slots = Cleared /\ dest = 0 /\ rxChannel = DefaultChannel
  /\ pc = "idle" /\ kind = "none"
  /\ txChannel = DefaultChannel /\ home = DefaultChannel
  /\ power = DefaultPower /\ asked = DefaultPower
  /\ old_channel = DefaultChannel /\ ch = DefaultChannel /\ end = DefaultChannel
  /\ best = [channel |-> DefaultChannel, info |-> NoInfo] /\ seen = <<>>
  /\ old_power = Levels /\ level = 1 /\ info = NoInfo
  /\ count = 0 /\ result = NoResult
  /\ clean = FALSE /\ stored = NoAir

-----------------------------------------------------------------------------
(* Deliveries.                                                             *)

\* Whether the receiver has executed the command when the delivery is over, and
\* the verdict; PROBES_OUT stands for every verdict that is no success.  Success
\* may be said of a command that the receiver missed (the run FalseSuccess of
\* SpiLink), or whose channel its main loop has taken back at once (exposed).
Outcomes ==
  IF "spi" \in Faults
  THEN [done : BOOLEAN, verdict : {"SUCCESS", "PROBES_OUT"}]
  ELSE {[done |-> TRUE, verdict |-> "SUCCESS"]}

\* transmitter_set_channel(c), with the outcome o.
SetChannel(c, o) ==
  /\ txChannel' = TunedTo(c)
  /\ rxChannel' = IF o.done THEN TunedTo(c) ELSE rxChannel
  /\ UNCHANGED <<slots, dest>>

\* What check_rx finds in the loopback after the request for slot i.  Success
\* may come without the packet, failure with whatever was read last.
Loopbacks(i, verdict) ==
  IF "spi" \notin Faults THEN {slots[i]}
  ELSE IF verdict = "SUCCESS" THEN {slots[i], "empty"} ELSE Packets

-----------------------------------------------------------------------------
(* The commands.                                                           *)

SetChannelCmd ==
  /\ pc = "idle"
  /\ \E c \in Bytes, o \in Outcomes : SetChannel(c, o)
  /\ home' = txChannel'
  /\ UNCHANGED <<pc, kind, power, asked, range, survey, series, airVars>>

\* The power that the handler sets which sub_power has for the option of power
\* l: "-4dBm" has the handler of -40 dBm.
Dispatched(l) == IF l = Neg4 THEN Levels ELSE l

SetPowerCmd ==
  /\ pc = "idle"
  /\ asked' \in 1 .. Levels /\ power' = Dispatched(asked')
  /\ UNCHANGED <<rxVars, pc, kind, txChannel, home, range, survey, series,
                 airVars>>

\* cmd_test with no argument, cmd_test_channel.
Test(k) ==
  /\ pc = "idle" /\ pc' = "sync"
  /\ kind' = k
  /\ UNCHANGED <<rxVars, settings, range, survey, series, airVars>>

\* cmd_test with one argument.
TestOn ==
  /\ pc = "idle" /\ pc' = "switch"
  /\ kind' = "on"
  /\ ch' \in Bytes
  /\ old_channel' = txChannel
  /\ UNCHANGED <<rxVars, settings, end, best, seen, survey, series, airVars>>

\* test_range: the bounds are clipped one by one, the first to the last.
TestRange(b, e) ==
  /\ pc = "idle" /\ pc' = "sync"
  /\ kind' = "range"
  /\ end' = Min2(e, MaxChannel)
  /\ ch' = Min2(Max2(b, MinChannel), end')
  /\ best' = [channel |-> ch', info |-> NoInfo] /\ seen' = <<>>
  /\ old_channel' = txChannel
  /\ UNCHANGED <<rxVars, settings, survey, series, airVars>>

\* transmitter_set_channel in cmd_test and test_range: nobody looks at the
\* verdict.
GoTo(from, c, to) ==
  /\ pc = from /\ pc' = to
  /\ \E o \in Outcomes : SetChannel(c, o)
  /\ UNCHANGED <<power, asked, home, survey, series, airVars>>

Switch == GoTo("switch", ch, "sync") /\ UNCHANGED <<kind, range>>
Visit  == GoTo("visit", ch, "survey") /\ UNCHANGED <<kind, range>>
\* Broken variant: a test leaves the transmitter on the channel it liked best.
BackToBest == GoTo("back", best.channel, "idle") /\ kind' = "none" /\ RangeOver
Back == GoTo("back", old_channel, "idle") /\ kind' = "none" /\ RangeOver

Confirmed(o) == o.verdict = "SUCCESS"

\* sync_channels and the return on anything but success.  A test that began
\* by moving to a channel of its own stays there.
Sync ==
  /\ pc = "sync"
  /\ \E o \in Outcomes :
       /\ SetChannel(txChannel, o)
       /\ \/ /\ ~Confirmed(o)
             /\ pc' = "idle" /\ kind' = "none" /\ RangeOver
             /\ home' = IF kind = "on" THEN txChannel' ELSE home
          \/ /\ Confirmed(o)
             /\ pc' = CASE kind = "test"  -> "reset"
                         [] kind = "range" -> "visit"
                         [] OTHER          -> "survey"
             /\ UNCHANGED <<kind, range, home>>
  /\ UNCHANGED <<power, asked, survey, series, airVars>>

\* Broken variant: the flags need not be the same.
BetterAnyFlag(i, j) ==
  \/ j.flag # "OK" /\ i.flag = "OK"
  \/ i.loss > j.loss \/ (i.loss = j.loss /\ i.noise < j.noise)

\* The comparison of test_range.
Better(i, j) ==
  \/ j.flag # "OK" /\ i.flag = "OK"
  \/ /\ i.flag = j.flag
     /\ i.loss > j.loss \/ (i.loss = j.loss /\ i.noise < j.noise)

Compare ==
  /\ pc = "compare"
  /\ best' = IF seen = <<>> \/ Better(info, best.info)
             THEN [channel |-> ch, info |-> info] ELSE best
  /\ seen' = [c \in DOMAIN seen \cup {ch} |-> IF c = ch THEN info ELSE seen[c]]
  /\ IF ch < end THEN ch' = ch + 1 /\ pc' = "visit"
                 ELSE UNCHANGED ch /\ pc' = "back"
  /\ info' = NoInfo
  /\ UNCHANGED <<rxVars, kind, settings, old_channel, end, old_power, level,
                 series, airVars>>

-----------------------------------------------------------------------------
(* transmitter_test_channel.                                               *)

Survey ==
  /\ pc = "survey" /\ pc' = "level"
  /\ old_power' = power
  /\ info' = NoInfo /\ level' = 1
  /\ UNCHANGED <<rxVars, kind, settings, range, series, airVars>>

Level ==
  /\ pc = "level" /\ pc' = "reset"
  /\ \E sample \in NoiseLevels :
       info' = [info EXCEPT !.noise = Max2(info.noise, sample)]
  /\ power' = level
  /\ UNCHANGED <<rxVars, kind, txChannel, asked, home, range, old_power, level,
                 series, airVars>>

NextLevelSame(l) == l  \* broken variant
NextLevel(l)     == l + 1

\* After test_series_raw: report the single test, or stop at the first power
\* with damage or losses, or go on to the next one.
Judge ==
  /\ pc = "judge"
  /\ \/ /\ kind = "test"
        /\ pc' = "idle" /\ kind' = "none"
        /\ UNCHANGED <<level, info>>
     \/ /\ kind # "test" /\ (result.damaged # 0 \/ result.lost # 0)
        /\ info' = [info EXCEPT !.flag = "LOSS", !.loss = level]
        /\ pc' = "restore"
        /\ UNCHANGED <<kind, level>>
     \/ /\ kind # "test" /\ result.damaged = 0 /\ result.lost = 0
        /\ IF level < Levels THEN level' = NextLevel(level) /\ pc' = "level"
                             ELSE UNCHANGED level /\ pc' = "restore"
        /\ UNCHANGED <<kind, info>>
  /\ SeriesOver
  /\ UNCHANGED <<rxVars, settings, range, old_power>>

EndSurvey ==
  /\ pc = "restore"
  /\ old_power' = Levels /\ level' = 1
  /\ \/ kind = "channel" /\ pc' = "idle" /\ kind' = "none" /\ info' = NoInfo
     \/ kind = "on" /\ pc' = "back" /\ info' = NoInfo /\ UNCHANGED kind
     \/ kind = "range" /\ pc' = "compare" /\ UNCHANGED <<kind, info>>
  /\ UNCHANGED <<rxVars, txChannel, asked, home, range, series, airVars>>

Unrestored == EndSurvey /\ UNCHANGED power  \* broken variant
Restore    == EndSurvey /\ power' = old_power

-----------------------------------------------------------------------------
(* test_series_raw.                                                        *)

\* A series is clean if the receiver has executed its reset and has not rebooted
\* since, every request has brought the packet of its slot, the ring has not
\* gone round and nothing came in once the reading had begun.
Account(c, s) == clean' = c /\ stored' = IF c THEN s ELSE NoAir

ResetDestOnly == dest' = 0 /\ UNCHANGED slots  \* broken variant
ResetPacks    == dest' = 0 /\ slots' = Cleared

\* The verdict of the reset is not looked at either.
Reset ==
  /\ pc = "reset" /\ pc' = "send"
  /\ count' = 0 /\ result' = NoResult
  /\ \E o \in Outcomes :
       /\ IF o.done THEN ResetPacks ELSE UNCHANGED <<slots, dest>>
       /\ Account(o.done, NoAir)
  /\ UNCHANGED <<rxChannel, kind, settings, range, survey>>

\* The receiver stores p.
Store(p) ==
  /\ slots' = [slots EXCEPT ![dest] = p]
  /\ dest' = NextSlot(dest)
  /\ Account(clean /\ pc = "send" /\ InAir < Slots,
             [stored EXCEPT ![p] = @ + 1])

Send ==
  /\ pc = "send" /\ count < Slots
  /\ count' = count + 1
  /\ \/ UNCHANGED <<slots, dest, airVars>>
     \/ txChannel = rxChannel /\ \E p \in Packets : Store(p)
  /\ UNCHANGED <<rxChannel, pc, kind, settings, range, survey, result>>

AllSent ==
  /\ pc = "send" /\ count = Slots
  /\ pc' = "collect" /\ count' = 0
  /\ UNCHANGED <<rxVars, kind, settings, range, survey, result, airVars>>

\* check_rx and tx_result_sum.
Counted(r, loopback) ==
  [lost    |-> r.lost + (IF loopback = "empty" THEN 1 ELSE 0),
   damaged |-> r.damaged + (IF loopback = "damaged" THEN 1 ELSE 0)]

\* cmd_deliver(TX_REQUEST_PACK(i)) and what becomes of its loopback.
Collect ==
  /\ pc = "collect" /\ count < Slots
  /\ count' = count + 1
  /\ \E o \in Outcomes : \E loopback \in Loopbacks(count, o.verdict) :
       /\ result' = Counted(result, loopback)
       /\ Account(clean /\ loopback = slots[count], stored)
  /\ UNCHANGED <<rxVars, pc, kind, settings, range, survey>>

AllCollected ==
  /\ pc = "collect" /\ count = Slots
  /\ pc' = "judge"
  /\ UNCHANGED <<rxVars, kind, settings, range, survey, series, airVars>>

-----------------------------------------------------------------------------
(* What moves on its own.                                                  *)

\* A packet of somebody else, while a series is on its way.
Noise ==
  /\ "noise" \in Faults /\ pc \in {"send", "collect"}
  /\ \E p \in {"damaged", "empty"} : Store(p)
  /\ UNCHANGED <<rxChannel, pc, kind, settings, range, survey, series>>

Reboot ==
  /\ "reboot" \in Faults
  /\ slots' = Cleared /\ dest' = 0 /\ rxChannel' = DefaultChannel
  /\ Account(FALSE, NoAir)
  /\ UNCHANGED <<pc, kind, settings, range, survey, series>>

Command ==
  \/ SetChannelCmd \/ SetPowerCmd \/ TestOn
  \/ \E k \in {"test", "channel"} : Test(k)
  \/ \E b \in Bytes, e \in Bytes : TestRange(b, e)

Step ==
  \/ Switch \/ Sync \/ Visit \/ Survey \/ Level \/ Reset \/ Send \/ AllSent
  \/ Collect \/ AllCollected \/ Judge \/ Restore \/ Compare \/ Back

Next == Command \/ Step \/ Noise \/ Reboot

\* A command runs to its end in the main loop.
Spec == Init /\ [][Next]_vars /\ WF_vars(Step)

-----------------------------------------------------------------------------
\* Whatever goes wrong, a test leaves the power that the client's last power
\* command has set, though it walks through every power and leaves the loop at
\* any of them (transmitter.c:364).  That power is the one the client asked for,
\* save that "-4dBm" sets -40 dBm (cli.c:371).
PowerRestored == pc = "idle" => power = Dispatched(asked)

\* A test leaves the channel the client has set, whatever channels it visits.
\* The one exception: a test of another channel that is not confirmed returns
\* before it goes back (cli.c:299), and the client is left on that channel.
ChannelRestored == pc = "idle" => txChannel = home

\* The report accounts for the air: after a clean series (see Account) the
\* packets reported lost are those that did not arrive or arrived without a
\* length, and those reported damaged are those that arrived damaged.
ReportAccountsForAir ==
  pc = "judge" /\ clean =>
    /\ result.lost = Slots - (stored["intact"] + stored["damaged"])
    /\ result.damaged = stored["damaged"]

\* A series is found good only on a channel that both radios were on.  Nobody
\* looks at the verdict of a change of channel in a range test (cli.c:253), and a
\* receiver that reboots between two powers goes back to the default channel: what
\* keeps a channel from being praised for packets heard on another one is the
\* reset before each series.  (A reboot within a series makes it unclean.)
GoodOnlyTogether ==
  pc = "judge" /\ clean /\ result = NoResult => txChannel = rxChannel

\* "chooses the best one" (cli.c:145): a channel without losses before one
\* with, then the channel that loses at the lower power, then the quieter one
\* (noise is a uint8_t).  Comparing each channel only with the best so far
\* finds the best of all, and the first one of several.  Only for a range that
\* ends below the band is the best one no channel, and then it is the only one
\* that was tested (the radio fell back to the first channel).
Merit(i) == ((IF i.flag = "OK" THEN Levels ELSE 0) + i.loss) * 256 - i.noise

RangeChoosesBest ==
  pc = "back" /\ kind = "range" =>
    /\ best.channel \in DOMAIN seen /\ best.info = seen[best.channel]
    /\ \A c \in DOMAIN seen :
         /\ Merit(seen[c]) <= Merit(best.info)
         /\ c < best.channel => Merit(seen[c]) < Merit(best.info)
    /\ best.channel \notin ChannelCmds => DOMAIN seen = {best.channel}

\* Every test command comes back to the prompt.
TestReturns == pc # "idle" ~> pc = "idle"
=============================================================================
