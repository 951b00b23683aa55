------------------------ MODULE ChannelSearchProofs ------------------------
(***************************************************************************)
(* Theorems of module ChannelSearch, for every band, every width of the    *)
(* byte that holds it and every scale of the samples.                      *)
(***************************************************************************)
EXTENDS ChannelSearch, SpiProtocolLemmas

-----------------------------------------------------------------------------
(* The inductive invariant, in parts.                                      *)

\* The radio is home between two measurements, and check_power knows the way
\* back during one.
KnowsHome ==
  /\ pc \in {"tune", "loop"} => current_channel = home
  /\ pc = "sample" => last_channel = home

\* The bounds are the arguments, clipped.
ClippedBounds ==
  pc # "idle" =>
    /\ asked[1] <= start /\ MinChannel <= start /\ start <= end
    /\ start \in {asked[1], MinChannel}
    /\ end <= MaxChannel \/ end = start
    /\ end <= asked[2] \/ end = start
    /\ end = asked[2] \/ MaxChannel <= end \/ end = start

\* What is known of the channels measured so far: they reach from the start to
\* the index, and the best of them has the lowest level.  The last byte as the
\* start is left out, since the index wraps then.
BestOfHeard ==
  pc # "idle" /\ start < ByteMod - 1 =>
    /\ end < ByteMod - 1
    /\ start <= i
    /\ pc = "loop" => start < i /\ i <= end + 1
    /\ pc # "loop" => i <= end
    /\ DOMAIN heard = start .. i - 1
    /\ heard = <<>> \/ DOMAIN heard # {}
    /\ heard # <<>> =>
         /\ best_channel \in DOMAIN heard
         /\ min_power = Level(heard[best_channel])
         /\ \A c \in DOMAIN heard :
              /\ Level(heard[c]) >= min_power
              /\ c < best_channel => Level(heard[c]) > min_power

SearchInv == TypeOK /\ KnowsHome /\ ClippedBounds /\ BestOfHeard

-----------------------------------------------------------------------------
(* The operators.                                                          *)

LEMMA MaxOfTwo ==
  ASSUME NEW a \in Int, NEW b \in Int
  PROVE  Max({a, b}) = IF a >= b THEN a ELSE b
<1>1. \A x \in {a, b} : (\A y \in {a, b} : x >= y) <=> x = IF a >= b THEN a ELSE b
  OBVIOUS
<1> QED BY <1>1 DEF Max

LEMMA MinOfTwo ==
  ASSUME NEW a \in Int, NEW b \in Int
  PROVE  Min({a, b}) = IF a <= b THEN a ELSE b
<1>1. \A x \in {a, b} : (\A y \in {a, b} : x =< y) <=> x = IF a <= b THEN a ELSE b
  OBVIOUS
<1> QED BY <1>1 DEF Min

\* A byte is incremented, or wraps.
LEMMA IncWraps ==
  \A c \in Byte : /\ Inc(c) \in Byte
                  /\ c # ByteMod - 1 => Inc(c) = c + 1
<1>1. \A a \in Nat, b \in Nat \ {0} : a % b \in 0 .. b - 1 /\ (a < b => a % b = a)
  OBVIOUS
<1>2. ByteMod \in Nat \ {0} /\ \A c \in Byte : c + 1 \in Nat
  BY SearchAssumption, ProtocolAssumption DEF Byte
<1>3. ASSUME NEW c \in Byte PROVE Inc(c) \in Byte /\ (c # ByteMod - 1 => Inc(c) = c + 1)
  <2>1. c + 1 \in Nat /\ (c # ByteMod - 1 => c + 1 < ByteMod)
    BY <1>2 DEF Byte
  <2>2. /\ (c + 1) % ByteMod \in 0 .. ByteMod - 1
        /\ c + 1 < ByteMod => (c + 1) % ByteMod = c + 1
    BY <1>1, <1>2, <2>1
  <2> QED BY <2>1, <2>2 DEF Inc, Byte
<1> QED BY <1>3

\* A level is a byte, and orders the samples that are not beyond the scale.
LEMMA LevelOrders ==
  ASSUME NEW s \in Nat, NEW t \in Nat
  PROVE  /\ Level(s) \in Byte
         /\ t < s /\ t <= MaxSample => Level(t) < Level(s)
<1>1. \A x, y \in Nat : x <= y => x * EdScale <= y * EdScale
  BY SearchAssumption
<1>2. \A x, y \in Nat : x < y => x * EdScale < y * EdScale
  BY SearchAssumption
<1>3. \A x \in Nat : x * EdScale \in Nat
  BY SearchAssumption
<1>4. \A x \in Nat : x <= MaxSample => x * EdScale < ByteMod - 1
  BY <1>1, <1>3, SearchAssumption, ProtocolAssumption
<1> QED BY <1>2, <1>3, <1>4, SearchAssumption DEF Level, Byte

-----------------------------------------------------------------------------
(* Initial states and steps.                                               *)

LEMMA InitInv == Init => SearchInv
<1> SUFFICES ASSUME Init PROVE SearchInv
  OBVIOUS
<1>1. 0 \in Byte /\ DOMAIN heard = {}
  BY SearchAssumption, ProtocolAssumption DEF Init, Byte
<1> QED
  BY <1>1, CodesApart DEF Init, SearchInv, TypeOK, KnowsHome, ClippedBounds, BestOfHeard

LEMMA StepType ==
  ASSUME TypeOK, [Next]_vars
  PROVE  TypeOK'
<1> USE DEF TypeOK, search
<1>1. ASSUME NEW a \in Byte, NEW b \in Byte, Search(a, b) PROVE TypeOK'
  <2>1. start' \in Byte /\ end' \in Byte
    <3>1. a \in Int /\ b \in Int /\ MinChannel \in Byte /\ MaxChannel \in Byte
      BY SearchAssumption, ProtocolAssumption DEF Byte
    <3>2. start' \in Byte
      BY <1>1, <3>1, MaxOfTwo DEF Search, First, Byte
    <3>3. Min({b, MaxChannel}) \in Byte
      BY <3>1, MinOfTwo DEF Byte
    <3>4. end' = Max({start', Min({b, MaxChannel})})
      BY <1>1 DEF Search
    <3> HIDE DEF TypeOK
    <3>5. Max({start', Min({b, MaxChannel})}) \in Byte
      <4>1. start' \in Int /\ Min({b, MaxChannel}) \in Int
        BY <3>2, <3>3 DEF Byte
      <4> QED BY <3>2, <3>3, <4>1, MaxOfTwo
    <3> QED BY <3>2, <3>4, <3>5
  <2>2. DOMAIN heard' = {} /\ asked' \in Byte \X Byte
    BY <1>1 DEF Search
  <2> QED BY <1>1, <2>1, <2>2 DEF Search
<1>2. ASSUME NEW a \in Byte, SetOne(a) PROVE TypeOK'
  BY <1>2, TunedToType DEF SetOne
<1>3. CASE Tune
  BY <1>3, TunedToType DEF Tune
<1>4. CASE Sample
  <2>1. PICK s \in Samples :
          /\ heard' = [c \in (DOMAIN heard \cup {i}) \cap start .. end |->
                        IF c = i THEN s ELSE heard[c]]
          /\ {best_channel', min_power'} \subseteq {best_channel, i, min_power, Level(s)}
          /\ best_channel' \in {best_channel, i} /\ min_power' \in {min_power, Level(s)}
    BY <1>4 DEF Sample
  <2>2. Level(s) \in Byte
    BY SearchAssumption, LevelOrders
  <2> QED BY <1>4, <2>1, <2>2, IncWraps, TunedToType DEF Sample, ComeBack
<1>5. CASE Again
  BY <1>5 DEF Again
<1>6. CASE Choose
  <2>1. 0 \in Byte /\ DOMAIN heard' = {} /\ asked' \in Byte \X Byte
    BY <1>6, SearchAssumption, ProtocolAssumption DEF Choose, LocalsOver, Byte
  <2> QED BY <1>6, <2>1, TunedToType DEF Choose, LocalsOver
<1>7. CASE UNCHANGED vars
  BY <1>7 DEF vars
<1> QED BY <1>1, <1>2, <1>3, <1>4, <1>5, <1>6, <1>7 DEF Next, Step

\* check_power comes back to the channel it found.
LEMMA StepHome ==
  ASSUME TypeOK, KnowsHome, [Next]_vars
  PROVE  KnowsHome'
<1>1. \A c \in ChannelCmds : TunedTo(c) = c
  BY DEF TunedTo
<1>2. home \in ChannelCmds
  BY DEF TypeOK
<1> QED
  BY <1>1, <1>2 DEF KnowsHome, Next, Step, Search, SetOne, Tune, Sample, ComeBack,
                    Again, Choose, LocalsOver, vars, search

LEMMA StepBounds ==
  ASSUME TypeOK, ClippedBounds, [Next]_vars
  PROVE  ClippedBounds'
<1>1. ASSUME NEW a \in Byte, NEW b \in Byte, Search(a, b) PROVE ClippedBounds'
  <2>1. a \in Int /\ b \in Int /\ MinChannel \in Int /\ MaxChannel \in Int
    BY SearchAssumption, ProtocolAssumption DEF Byte
  <2>2. start' = IF a >= MinChannel THEN a ELSE MinChannel
    BY <1>1, <2>1, MaxOfTwo DEF Search, First
  <2>3. Min({b, MaxChannel}) = IF b <= MaxChannel THEN b ELSE MaxChannel
    BY <2>1, MinOfTwo
  <2>4. end' = IF start' >= Min({b, MaxChannel}) THEN start' ELSE Min({b, MaxChannel})
    BY <1>1, <2>1, <2>2, <2>3, MaxOfTwo DEF Search
  <2>5. asked'[1] = a /\ asked'[2] = b
    BY <1>1 DEF Search
  <2> QED BY <2>1, <2>2, <2>3, <2>4, <2>5 DEF ClippedBounds
<1>2. CASE Choose
  BY <1>2 DEF Choose, ClippedBounds
<1>3. CASE (\E a \in Byte : SetOne(a)) \/ Tune \/ Sample \/ Again \/ UNCHANGED vars
  BY <1>3 DEF SetOne, Tune, Sample, Again, vars, search, ClippedBounds
<1> QED BY <1>1, <1>2, <1>3 DEF Next, Step

\* Measuring one more channel keeps the best so far.
LEMMA StepBest ==
  ASSUME TypeOK, ClippedBounds, BestOfHeard, [Next]_vars
  PROVE  BestOfHeard'
<1> USE DEF search
<1>1. ASSUME NEW a \in Byte, NEW b \in Byte, Search(a, b) PROVE BestOfHeard'
  <2>1. ClippedBounds'
    BY <1>1, StepBounds DEF Next
  <2>2. pc' = "tune" /\ i' = start' /\ heard' = <<>> /\ DOMAIN heard' = {}
    BY <1>1 DEF Search
  <2>3. start' \in Byte /\ end' \in Byte
    BY <1>1, StepType DEF Next, TypeOK
  <2>4. start' .. i' - 1 = {}
    <3>1. start' \in Int /\ i' = start'
      BY <2>2, <2>3, SearchAssumption DEF Byte
    <3>2. \A x \in Int : x .. x - 1 = {}
      OBVIOUS
    <3> QED BY <3>1, <3>2
  <2>5. /\ start' <= end'
        /\ start' < ByteMod - 1 => end' < ByteMod - 1
    BY <2>1, <2>2, <2>3, SearchAssumption, ProtocolAssumption DEF ClippedBounds, Byte
  <2>6. start' <= i' /\ i' <= end'
    BY <2>2, <2>3, <2>5, SearchAssumption DEF Byte
  <2> QED BY <2>2, <2>4, <2>5, <2>6 DEF BestOfHeard
<1>2. CASE Sample
  <2> SUFFICES ASSUME start < ByteMod - 1 PROVE BestOfHeard'
    BY <1>2 DEF Sample, BestOfHeard
  <2>1. /\ start \in Int /\ end \in Int /\ i \in Int /\ ByteMod \in Int
        /\ start <= i /\ i <= end /\ end < ByteMod - 1
        /\ DOMAIN heard = start .. i - 1 /\ (heard = <<>> \/ DOMAIN heard # {})
        /\ i \in Byte
    BY <1>2, SearchAssumption DEF Sample, BestOfHeard, TypeOK, Byte
  <2>2. pc' = "loop" /\ start' = start /\ end' = end /\ i' = i + 1
    BY <1>2, <2>1, IncWraps DEF Sample
  <2>3. PICK s \in Samples :
          /\ heard' = [c \in (DOMAIN heard \cup {i}) \cap start .. end |->
                        IF c = i THEN s ELSE heard[c]]
          /\ IF heard = <<>> \/ Level(s) < min_power
             THEN best_channel' = i /\ min_power' = Level(s)
             ELSE UNCHANGED <<best_channel, min_power>>
    BY <1>2 DEF Sample
  <2>4. /\ DOMAIN heard' = start .. i /\ heard'[i] = s
        /\ \A c \in DOMAIN heard : c < i /\ heard'[c] = heard[c]
        /\ \A c \in DOMAIN heard' : c = i \/ c \in DOMAIN heard
    <3>1. (DOMAIN heard \cup {i}) \cap start .. end = start .. i
      BY <2>1
    <3> QED BY <2>1, <2>3, <3>1
  <2>5. /\ Level(s) \in Int
        /\ \A c \in DOMAIN heard : Level(heard[c]) \in Int
    <3>1. s \in Nat /\ \A c \in DOMAIN heard : heard[c] \in Nat
      BY SearchAssumption DEF TypeOK
    <3> QED BY <3>1, SearchAssumption, LevelOrders DEF Byte
  <2> DEFINE Best(bc, mp) == /\ bc \in DOMAIN heard'
                             /\ mp = Level(heard'[bc])
                             /\ \A c \in DOMAIN heard' :
                                  /\ Level(heard'[c]) >= mp
                                  /\ c < bc => Level(heard'[c]) > mp
  <2>6. Best(best_channel', min_power')
    <3>1. CASE heard = <<>>
      <4>1. DOMAIN heard = {}
        BY <3>1
      <4> QED BY <2>1, <2>3, <2>4, <2>5, <3>1, <4>1
    <3>2. CASE heard # <<>> /\ Level(s) < min_power
      <4>1. \A c \in DOMAIN heard : Level(heard[c]) >= min_power
        BY <1>2, <3>2 DEF Sample, BestOfHeard
      <4>2. min_power \in Int /\ i \in DOMAIN heard'
        BY <2>1, <2>4 DEF TypeOK, Byte
      <4>3. \A c \in DOMAIN heard : Level(heard'[c]) > Level(s)
        BY <2>4, <2>5, <3>2, <4>1, <4>2
      <4>4. best_channel' = i /\ min_power' = Level(s) /\ heard'[i] = s
        BY <2>3, <2>4, <3>2
      <4>5. \A c \in DOMAIN heard' :
              Level(heard'[c]) >= Level(s) /\ (c < i => Level(heard'[c]) > Level(s))
        <5>1. ASSUME NEW c \in DOMAIN heard, c # i
              PROVE  Level(heard'[c]) >= Level(s) /\ Level(heard'[c]) > Level(s)
          BY <2>4, <2>5, <4>3, <5>1
        <5>2. Level(heard'[i]) >= Level(s) /\ ~(i < i)
          BY <2>1, <2>5, <4>4
        <5> QED BY <2>1, <2>4, <5>1, <5>2
      <4> QED BY <4>2, <4>4, <4>5
    <3>3. CASE heard # <<>> /\ ~(Level(s) < min_power)
      <4>1. /\ best_channel \in DOMAIN heard
            /\ min_power = Level(heard[best_channel])
            /\ \A c \in DOMAIN heard :
                 /\ Level(heard[c]) >= min_power
                 /\ c < best_channel => Level(heard[c]) > min_power
        BY <1>2, <3>3 DEF Sample, BestOfHeard
      <4>2. /\ Level(s) >= min_power /\ ~(i < best_channel)
            /\ best_channel \in DOMAIN heard'
        BY <2>1, <2>4, <2>5, <3>3, <4>1
      <4> QED BY <2>3, <2>4, <3>3, <4>1, <4>2
    <3> QED BY <3>1, <3>2, <3>3
  <2>7. i \in DOMAIN heard'
    BY <2>1, <2>4
  <2>8. DOMAIN heard' = start' .. i' - 1
    BY <2>1, <2>2, <2>4
  <2> QED BY <2>1, <2>2, <2>6, <2>7, <2>8 DEF BestOfHeard
<1>3. CASE Again
  BY <1>3 DEF Again, BestOfHeard
<1>4. CASE Tune
  BY <1>4 DEF Tune, BestOfHeard
<1>5. CASE (\E a \in Byte : SetOne(a)) \/ Choose \/ UNCHANGED vars
  BY <1>5 DEF SetOne, Choose, vars, BestOfHeard
<1> QED BY <1>1, <1>2, <1>3, <1>4, <1>5 DEF Next, Step

LEMMA SearchInvariant == Spec => []SearchInv
<1>1. SearchInv /\ [Next]_vars => SearchInv'
  BY StepType, StepHome, StepBounds, StepBest DEF SearchInv
<1> QED BY InitInv, <1>1, PTL DEF Spec

-----------------------------------------------------------------------------
(* What the invariant gives.                                               *)

\* Every variable of a search keeps its type: the index and the levels stay
\* bytes, whatever the arguments and the samples.
THEOREM SearchTypeCorrect == Spec => []TypeOK
<1>1. SearchInv => TypeOK
  BY DEF SearchInv
<1> QED BY <1>1, SearchInvariant, PTL

\* The boards stay together until the choice is made.
THEOREM SearchComesBack == Spec => []RadioComesBack
<1>1. SearchInv => RadioComesBack
  BY DEF SearchInv, KnowsHome, RadioComesBack
<1> QED BY <1>1, SearchInvariant, PTL

\* When the loop ends, every channel of the range has been measured.
LEMMA WhenChosen ==
  ASSUME SearchInv, Chosen
  PROVE  /\ start \in Int /\ end \in Int /\ best_channel \in start .. end
         /\ DOMAIN heard = start .. end
         /\ \A c \in start .. end :
              /\ Level(heard[c]) >= Level(heard[best_channel])
              /\ c < best_channel => Level(heard[c]) > Level(heard[best_channel])
<1>1. /\ start \in Byte /\ end \in Byte /\ i \in Byte /\ pc = "loop" /\ i > end
      /\ start <= end
  BY DEF SearchInv, TypeOK, Chosen, ClippedBounds
<1>2. start < ByteMod - 1
  BY <1>1, SearchAssumption DEF Byte
<1>3. /\ i = end + 1 /\ DOMAIN heard = start .. i - 1
      /\ heard = <<>> \/ DOMAIN heard # {}
  BY <1>1, <1>2 DEF SearchInv, BestOfHeard, Byte
<1>4. DOMAIN heard = start .. end /\ start \in DOMAIN heard
  BY <1>1, <1>3 DEF Byte
<1>5. heard # <<>>
  <2>1. DOMAIN <<>> = {}
    OBVIOUS
  <2> QED BY <1>4, <2>1
<1> QED BY <1>1, <1>2, <1>4, <1>5 DEF SearchInv, BestOfHeard, Byte

\* The choice is the quietest channel of the range, the first of several.
THEOREM ChoiceIsQuietest == Spec => []FindsQuietest
<1>1. ASSUME SearchInv, Chosen
      PROVE  /\ DOMAIN heard = start .. end /\ best_channel \in start .. end
             /\ \A c \in start .. end :
                  /\ heard[c] < heard[best_channel] => heard[c] > MaxSample
                  /\ c < best_channel => heard[c] > heard[best_channel]
  <2>1. /\ DOMAIN heard = start .. end /\ best_channel \in start .. end
        /\ \A c \in start .. end : heard[c] \in Nat
    BY <1>1, WhenChosen, SearchAssumption DEF SearchInv, TypeOK
  <2>2. ASSUME NEW c \in start .. end
        PROVE  /\ heard[c] < heard[best_channel] => heard[c] > MaxSample
               /\ c < best_channel => heard[c] > heard[best_channel]
    <3>1. PICK s \in Nat, t \in Nat : s = heard[c] /\ t = heard[best_channel]
      BY <2>1
    <3>2. Level(s) >= Level(t) /\ (c < best_channel => Level(s) > Level(t))
      BY <1>1, <3>1, WhenChosen
    <3>3. Level(s) \in Int /\ Level(t) \in Int /\ MaxSample \in Int
      BY LevelOrders, SearchAssumption DEF Byte
    <3>4. s < t => s > MaxSample
      BY <3>2, <3>3, LevelOrders
    <3>5. Level(s) > Level(t) => s > t
      <4>1. CASE s = t
        BY <3>3, <4>1
      <4>2. CASE s < t /\ s <= MaxSample
        BY <3>3, <4>2, LevelOrders
      <4>3. CASE s < t /\ s > MaxSample
        BY <3>3, <4>3, SearchAssumption DEF Level
      <4> QED BY <3>3, <4>1, <4>2, <4>3
    <3> QED BY <3>1, <3>2, <3>4, <3>5
  <2> QED BY <2>1, <2>2
<1>2. SearchInv => FindsQuietest
  BY <1>1 DEF FindsQuietest
<1> QED BY <1>2, SearchInvariant, PTL

\* The choice lies in the range the client asked for.
THEOREM ChoiceInRange == Spec => []StaysInRange
<1>1. ASSUME SearchInv, Chosen,
             NEW c \in (asked[1] .. asked[2]) \cap ChannelCmds
      PROVE  best_channel \in (asked[1] .. asked[2]) \cap ChannelCmds
  <2>1. /\ asked[1] \in Int /\ asked[2] \in Int /\ MinChannel \in Int
        /\ MaxChannel \in Int /\ start \in Int /\ end \in Int
        /\ best_channel \in start .. end
    BY <1>1, WhenChosen, ProtocolAssumption DEF SearchInv, TypeOK, Byte
  <2>2. /\ asked[1] <= c /\ c <= asked[2] /\ MinChannel <= c /\ c <= MaxChannel
        /\ c \in Int
    BY <1>1, <2>1 DEF ChannelCmds
  <2>3. /\ asked[1] <= start /\ MinChannel <= start /\ start <= c
        /\ end <= MaxChannel \/ end = start
        /\ end <= asked[2] \/ end = start
    BY <1>1, <2>1, <2>2 DEF SearchInv, ClippedBounds, Chosen
  <2> QED BY <2>1, <2>2, <2>3 DEF ChannelCmds
<1>2. SearchInv => StaysInRange
  BY <1>1 DEF StaysInRange
<1> QED BY <1>2, SearchInvariant, PTL
=============================================================================
