--------------------------- MODULE ChannelSearch ---------------------------
(***************************************************************************)
(* "set channel": the automatic choice of a channel (cmd_set_channel in    *)
(* Transmitter/cli.c, best_channel_in_range and check_power in             *)
(* common/radio/allradio.c).  The search moves the transmitter's radio     *)
(* from channel to channel to measure each of them, in bytes that wrap.    *)
(* What the receiver makes of the chosen channel is in module TestSession. *)
(***************************************************************************)
EXTENDS SpiProtocol, FiniteSetsExt

CONSTANTS
  ByteMod,   \* values of a uint8_t (256)
  EdScale,   \* ED_RSSISCALE (4)
  MaxSample, \* last sample that is scaled (63)
  Samples    \* what EDSAMPLE may read

ASSUME SearchAssumption ==
  /\ ByteMod \in Nat /\ MaxChannel < ByteMod - 1
  /\ EdScale \in Nat \ {0} /\ MaxSample \in Nat
  /\ EdScale * MaxSample < ByteMod - 1
  /\ Samples \subseteq Nat

VARIABLES
  current_channel,
  pc,            \* "idle", or the place in best_channel_in_range
  start, end,    \* its arguments, clipped
  i,             \* its loop index
  best_channel, min_power,
  last_channel,  \* local of check_power
  \* History.
  home,          \* channel of the radio when the search began
  asked,         \* the arguments of the search
  heard          \* the sample of each channel of the range measured so far

search == <<start, end, i, best_channel, min_power>>
vars   == <<current_channel, pc, search, last_channel, home, asked, heard>>

Byte == 0 .. ByteMod - 1

TypeOK ==
  /\ {current_channel, last_channel, home} \subseteq ChannelCmds
  /\ pc \in {"idle", "tune", "sample", "loop"}
  /\ start \in Byte /\ end \in Byte /\ i \in Byte
  /\ best_channel \in Byte /\ min_power \in Byte
  /\ asked \in Byte \X Byte
  /\ DOMAIN heard \subseteq Byte /\ \A c \in DOMAIN heard : heard[c] \in Samples

\* Locals that are not alive have these values.
LocalsOver == /\ start' = 0 /\ end' = 0 /\ i' = 0 /\ best_channel' = 0
              /\ min_power' = 0 /\ asked' = <<0, 0>> /\ heard' = <<>>

Init ==
  /\ current_channel = DefaultChannel /\ last_channel = DefaultChannel
  /\ home = DefaultChannel
  /\ pc = "idle" /\ start = 0 /\ end = 0 /\ i = 0
  /\ best_channel = 0 /\ min_power = 0 /\ asked = <<0, 0>> /\ heard = <<>>

-----------------------------------------------------------------------------
\* The return of check_power: a scaled sample that stays in its byte.
LevelWraps(s) == (s * EdScale) % ByteMod  \* broken variant
Level(s)      == IF s > MaxSample THEN ByteMod - 1 ELSE s * EdScale

FirstUnclipped(a) == a  \* broken variant
First(a)          == Max({a, MinChannel})

IncWide(c) == c + 1  \* broken variants
IncNot(c)  == c
Inc(c)     == (c + 1) % ByteMod

\* cmd_set_channel with two arguments, or with none or "auto" (the whole band).
\* Reading the arguments into bytes is left out: every byte is one of them.
Search(a, b) ==
  /\ pc = "idle" /\ pc' = "tune"
  /\ start' = First(a)
  /\ end' = Max({start', Min({b, MaxChannel})})
  /\ i' = start'
  /\ asked' = <<a, b>> /\ home' = current_channel /\ heard' = <<>>
  /\ UNCHANGED <<current_channel, last_channel, best_channel, min_power>>

\* cmd_set_channel with one argument.
SetOne(c) ==
  /\ pc = "idle"
  /\ current_channel' = TunedTo(c)
  /\ UNCHANGED <<pc, search, last_channel, home, asked, heard>>

\* check_power(i): move to the channel, ...
Tune ==
  /\ pc = "tune" /\ pc' = "sample"
  /\ last_channel' = current_channel
  /\ current_channel' = TunedTo(i)
  /\ UNCHANGED <<search, home, asked, heard>>

StayTuned == UNCHANGED current_channel  \* broken variant
ComeBack  == current_channel' = TunedTo(last_channel)

\* ... measure it and come back.  The first channel is the best so far.
Sample ==
  /\ pc = "sample" /\ pc' = "loop"
  /\ ComeBack
  /\ \E s \in Samples :
       /\ heard' = [c \in (DOMAIN heard \cup {i}) \cap start .. end |->
                     IF c = i THEN s ELSE heard[c]]
       /\ IF heard = <<>> \/ Level(s) < min_power
          THEN best_channel' = i /\ min_power' = Level(s)
          ELSE UNCHANGED <<best_channel, min_power>>
  /\ i' = Inc(i)
  /\ UNCHANGED <<start, end, last_channel, home, asked>>

Again ==
  /\ pc = "loop" /\ i <= end /\ pc' = "tune"
  /\ UNCHANGED <<current_channel, search, last_channel, home, asked, heard>>

\* The search is over: transmitter_set_channel.
Choose ==
  /\ pc = "loop" /\ i > end /\ pc' = "idle"
  /\ current_channel' = TunedTo(best_channel)
  /\ LocalsOver
  /\ UNCHANGED <<last_channel, home>>

Step == Tune \/ Sample \/ Again \/ Choose
Next == Step \/ \E a, b \in Byte : Search(a, b) \/ SetOne(a)

\* The command runs to its end in the main loop.
Spec == Init /\ [][Next]_vars /\ WF_vars(Step)

-----------------------------------------------------------------------------
Chosen == pc = "loop" /\ i > end

\* The channel chosen "has minimum level of incoming signal" (allradio.h:41):
\* every channel of the range was measured, and one that was heard at a lower
\* sample can only be beyond the scale, like the chosen one itself; of several
\* equal ones it is the first.
FindsQuietest ==
  Chosen =>
    /\ DOMAIN heard = start .. end /\ best_channel \in start .. end
    /\ \A c \in start .. end :
         /\ heard[c] < heard[best_channel] => heard[c] > MaxSample
         /\ c < best_channel => heard[c] > heard[best_channel]

\* A search of a range with a channel of the band in it chooses a channel of
\* both, though start and end are clipped one after the other.
StaysInRange ==
  Chosen /\ (asked[1] .. asked[2]) \cap ChannelCmds # {} =>
    best_channel \in (asked[1] .. asked[2]) \cap ChannelCmds

\* Measuring leaves the radio where it was, whatever channels it visits and
\* however long it takes: until the choice is made, the boards stay together.
RadioComesBack == pc \in {"tune", "loop"} => current_channel = home

\* The search returns, unless it is asked to begin at the last byte: the index
\* wraps below the end for ever then (allradio.c:196).
SearchReturns == pc # "idle" /\ start < ByteMod - 1 ~> pc = "idle"
=============================================================================
