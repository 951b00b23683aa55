-------------------------- MODULE TestSeriesProofs --------------------------
(***************************************************************************)
(* The theorems of module TestSession about the figures of a report, for   *)
(* every number of slots and every combination of faults.  They count      *)
(* slots, so they rest on the library's facts about finite sets.           *)
(***************************************************************************)
EXTENDS TestSessionProofs, FiniteSetTheorems

-----------------------------------------------------------------------------
(* Counting slots.                                                         *)

\* The slots among the first n of f that hold p, and how many they are.
Holding(f, p, n) == {i \in 0 .. n - 1 : f[i] = p}
Held(f, p, n)    == Cardinality(Holding(f, p, n))

LEMMA HoldingIsFinite ==
  ASSUME NEW f, NEW p, NEW n \in Nat
  PROVE  IsFiniteSet(Holding(f, p, n)) /\ Held(f, p, n) \in Nat
<1>1. IsFiniteSet(0 .. n - 1) /\ Holding(f, p, n) \in SUBSET (0 .. n - 1)
  BY FS_Interval DEF Holding
<1>2. IsFiniteSet(Holding(f, p, n))
  BY <1>1, FS_Subset
<1> QED BY <1>2, FS_CardinalityType DEF Held

LEMMA HeldNone ==
  ASSUME NEW f, NEW p
  PROVE  Held(f, p, 0) = 0
<1>1. Holding(f, p, 0) = {}
  BY DEF Holding
<1> QED BY <1>1, FS_EmptySet DEF Held

\* Looking at one more slot.
LEMMA HeldNext ==
  ASSUME NEW f, NEW p, NEW n \in Nat
  PROVE  Held(f, p, n + 1) = Held(f, p, n) + IF f[n] = p THEN 1 ELSE 0
<1>1. CASE f[n] = p
  <2>1. Holding(f, p, n + 1) = Holding(f, p, n) \cup {n} /\ n \notin Holding(f, p, n)
    BY <1>1 DEF Holding
  <2> QED BY <1>1, <2>1, HoldingIsFinite, FS_AddElement DEF Held
<1>2. CASE f[n] # p
  <2>1. Holding(f, p, n + 1) = Holding(f, p, n)
    BY <1>2 DEF Holding
  <2> QED BY <1>2, <2>1, HoldingIsFinite DEF Held
<1> QED BY <1>1, <1>2

\* Storing q in an empty slot.
LEMMA HeldStored ==
  ASSUME NEW f \in [SlotIds -> Packets], NEW d \in SlotIds, f[d] = "empty",
         NEW p \in Packets \ {"empty"}, NEW q \in Packets
  PROVE  Held([f EXCEPT ![d] = q], p, Slots)
           = Held(f, p, Slots) + IF q = p THEN 1 ELSE 0
<1> DEFINE g == [f EXCEPT ![d] = q]
<1>1. Slots \in Nat
  BY ProtocolAssumption
<1>2. /\ Holding(g, p, Slots) = {i \in SlotIds : g[i] = p}
      /\ Holding(f, p, Slots) = {i \in SlotIds : f[i] = p}
      /\ d \notin Holding(f, p, Slots)
  BY DEF Holding, SlotIds
<1>3. g[d] = q /\ \A i \in SlotIds \ {d} : g[i] = f[i]
  OBVIOUS
<1> HIDE DEF g
<1>4. CASE q = p
  <2>1. Holding(g, p, Slots) = Holding(f, p, Slots) \cup {d}
    <3>1. ASSUME NEW i \in SlotIds
          PROVE  g[i] = p <=> f[i] = p \/ i = d
      BY <1>3, <1>4
    <3> DEFINE G == {i \in SlotIds : g[i] = p}
               F == {i \in SlotIds : f[i] = p}
    <3>2. G = F \cup {d}
      BY <3>1
    <3> QED BY <1>2, <3>2
  <2>2. Held(g, p, Slots) = Held(f, p, Slots) + 1
    <3>1. IsFiniteSet(Holding(f, p, Slots))
      BY <1>1, HoldingIsFinite
    <3>2. Cardinality(Holding(f, p, Slots) \cup {d}) = Cardinality(Holding(f, p, Slots)) + 1
      BY <1>2, <3>1, FS_AddElement
    <3> QED BY <2>1, <3>2 DEF Held
  <2> QED BY <1>4, <2>2 DEF g
<1>5. CASE q # p
  <2>1. Holding(g, p, Slots) = Holding(f, p, Slots)
    BY <1>2, <1>3, <1>5
  <2> QED BY <1>1, <1>5, <2>1, HoldingIsFinite DEF Held, g
<1> QED BY <1>4, <1>5

\* Every slot holds something.
LEMMA HeldInAll ==
  ASSUME NEW f \in [SlotIds -> Packets]
  PROVE  Held(f, "intact", Slots) + Held(f, "damaged", Slots)
           + Held(f, "empty", Slots) = Slots
<1> DEFINE I == Holding(f, "intact", Slots)
           D == Holding(f, "damaged", Slots)
           E == Holding(f, "empty", Slots)
<1>1. Slots \in Nat \ {0}
  BY ProtocolAssumption
<1>2. IsFiniteSet(I) /\ IsFiniteSet(D) /\ IsFiniteSet(E)
  BY <1>1, HoldingIsFinite
<1>3. I \cap D = {} /\ (I \cup D) \cap E = {} /\ (I \cup D) \cup E = 0 .. Slots - 1
  BY DEF Holding, SlotIds, Packets
<1>4. Cardinality(0 .. Slots - 1) = Slots
  BY <1>1, FS_Interval
<1>5. Cardinality({}) = 0
  BY FS_EmptySet
<1> HIDE DEF I, D, E
<1>6. Cardinality(I) \in Nat /\ Cardinality(D) \in Nat /\ Cardinality(E) \in Nat
  BY <1>2, FS_CardinalityType
<1>7. ASSUME NEW S, IsFiniteSet(S), NEW T, IsFiniteSet(T), S \cap T = {}
      PROVE  IsFiniteSet(S \cup T) /\ Cardinality(S \cup T) = Cardinality(S) + Cardinality(T)
  <2>1. /\ IsFiniteSet(S \cup T)
        /\ Cardinality(S \cup T) = Cardinality(S) + Cardinality(T) - Cardinality(S \cap T)
    BY <1>7, FS_Union
  <2>2. Cardinality(S) \in Nat /\ Cardinality(T) \in Nat /\ Cardinality(S \cap T) = 0
    BY <1>5, <1>7, FS_CardinalityType
  <2> QED BY <2>1, <2>2
<1>8. /\ Cardinality(I \cup D) = Cardinality(I) + Cardinality(D)
      /\ Cardinality((I \cup D) \cup E) = Cardinality(I \cup D) + Cardinality(E)
  <2>1. IsFiniteSet(I \cup D) /\ Cardinality(I \cup D) = Cardinality(I) + Cardinality(D)
    BY <1>2, <1>3, <1>7
  <2> QED BY <1>2, <1>3, <1>7, <2>1
<1>9. Cardinality(I) + Cardinality(D) + Cardinality(E) = Slots
  BY <1>3, <1>4, <1>6, <1>8
<1> QED BY <1>9 DEF Held, I, D, E

LEMMA HeldCleared ==
  ASSUME NEW p \in Packets \ {"empty"}
  PROVE  Held(Cleared, p, Slots) = 0
<1>1. Holding(Cleared, p, Slots) = {}
  BY DEF Holding, Cleared, SlotIds
<1> QED BY <1>1, FS_EmptySet DEF Held

-----------------------------------------------------------------------------
(* The inductive invariant.                                                *)

\* As long as a series is clean, the slots not reached yet are empty, the
\* history has counted what the others hold, and the figures what the slots
\* read so far hold.
Accounted ==
  /\ clean /\ pc = "send" /\ InAir < Slots =>
       dest = InAir /\ \A i \in InAir .. Slots - 1 : slots[i] = "empty"
  /\ clean /\ pc \in {"send", "collect", "judge"} =>
       \A p \in Packets \ {"empty"} : stored[p] = Held(slots, p, Slots)
  /\ clean /\ pc \in {"collect", "judge"} =>
       /\ result.lost = Held(slots, "empty", count)
       /\ result.damaged = Held(slots, "damaged", count)
  /\ pc = "judge" => count = Slots

\* As long as a series is clean, an intact packet in the receiver means that the
\* radios are on one channel: none is left of an earlier series.
Together ==
  /\ pc \in {"send", "collect", "judge"} /\ clean /\ stored["intact"] > 0 =>
       txChannel = rxChannel
  /\ clean => pc \in {"send", "collect", "judge"}

-----------------------------------------------------------------------------
(* Steps.                                                                  *)

\* The receiver stores a packet, in or out of a series.
LEMMA StoreAccounted ==
  ASSUME TypeOK, Accounted, NEW p \in Packets, Store(p), pc' = pc, count' \in Nat,
         result' = result, pc = "judge" => count' = count
  PROVE  Accounted'
<1>1. CASE ~(clean /\ pc = "send" /\ InAir < Slots)
  <2>1. ~clean'
    BY <1>1 DEF Store, Account
  <2> QED BY <2>1 DEF Accounted
<1>2. CASE clean /\ pc = "send" /\ InAir < Slots
  <2>1. /\ stored' = [stored EXCEPT ![p] = @ + 1]
        /\ slots' = [slots EXCEPT ![dest] = p] /\ dest' = NextSlot(dest)
    BY <1>2 DEF Store, Account
  <2>2. /\ slots \in [SlotIds -> Packets] /\ dest \in SlotIds
        /\ stored \in [Packets -> Nat] /\ Slots \in Nat \ {0}
    BY ProtocolAssumption DEF TypeOK, BoardTypeOK, SeriesTypeOK
  <2>3. dest = InAir /\ \A i \in InAir .. Slots - 1 : slots[i] = "empty"
    BY <1>2 DEF Accounted
  <2>4. InAir' = InAir + 1 /\ InAir \in Nat
    BY <2>1, <2>2 DEF InAir, Packets
  <2>5. slots[dest] = "empty"
    BY <1>2, <2>2, <2>3, <2>4
  <2>6. ASSUME InAir' < Slots
        PROVE  dest' = InAir' /\ \A i \in InAir' .. Slots - 1 : slots'[i] = "empty"
    <3>1. \A a \in Nat, b \in Nat \ {0} : a < b => a % b = a
      OBVIOUS
    <3>2. dest' = (dest + 1) % Slots
      BY <2>1 DEF NextSlot
    <3>3. dest' = InAir'
      BY <2>2, <2>3, <2>4, <2>6, <3>1, <3>2
    <3>4. \A i \in InAir' .. Slots - 1 : i \in SlotIds /\ i # dest /\ i \in InAir .. Slots - 1
      BY <2>2, <2>3, <2>4 DEF SlotIds
    <3>5. \A i \in SlotIds \ {dest} : slots'[i] = slots[i]
      BY <2>1, <2>2
    <3> QED BY <2>3, <3>3, <3>4, <3>5
  <2>7. ASSUME NEW q \in Packets \ {"empty"}
        PROVE  stored'[q] = Held(slots', q, Slots)
    <3>1. stored[q] = Held(slots, q, Slots)
      BY <1>2 DEF Accounted
    <3>2. stored'[q] = stored[q] + IF p = q THEN 1 ELSE 0
      BY <2>1, <2>2
    <3>3. Held(slots', q, Slots) = Held(slots, q, Slots) + IF p = q THEN 1 ELSE 0
      BY <2>1, <2>2, <2>5, HeldStored
    <3> QED BY <3>1, <3>2, <3>3
  <2> QED BY <1>2, <2>6, <2>7 DEF Accounted
<1> QED BY <1>1, <1>2

LEMMA CollectAccounted ==
  ASSUME TypeOK, SeriesFits, Accounted, Collect
  PROVE  Accounted'
<1>1. PICK o, loopback :
        /\ result' = Counted(result, loopback)
        /\ Account(clean /\ loopback = slots[count], stored)
  BY DEF Collect
<1>2. pc = "collect" /\ pc' = pc /\ count' = count + 1 /\ slots' = slots
  BY DEF Collect, rxVars
<1> SUFFICES ASSUME clean' PROVE Accounted'
  BY <1>2 DEF Accounted
<1>3. clean /\ loopback = slots[count] /\ stored' = stored
  BY <1>1 DEF Account
<1>4. /\ count \in Nat
      /\ result \in [lost : 0 .. Slots, damaged : 0 .. Slots]
      /\ result.lost = Held(slots, "empty", count)
      /\ result.damaged = Held(slots, "damaged", count)
  BY <1>2, <1>3 DEF Accounted, TypeOK, SeriesTypeOK
<1>5. /\ result'.lost = result.lost + IF slots[count] = "empty" THEN 1 ELSE 0
      /\ result'.damaged = result.damaged + IF slots[count] = "damaged" THEN 1 ELSE 0
  BY <1>1, <1>3 DEF Counted
<1>6. /\ result'.lost = Held(slots', "empty", count')
      /\ result'.damaged = Held(slots', "damaged", count')
  BY <1>2, <1>4, <1>5, HeldNext
<1>7. \A p \in Packets \ {"empty"} : stored'[p] = Held(slots', p, Slots)
  BY <1>2, <1>3 DEF Accounted
<1> QED BY <1>2, <1>6, <1>7 DEF Accounted

LEMMA StepAccounted ==
  ASSUME TypeOK, SeriesFits, Accounted, [Next]_vars
  PROVE  Accounted'
<1> USE DEF rxVars, settings, range, survey, series, airVars
<1>1. CASE Command
  BY <1>1 DEF Command, SetChannelCmd, SetPowerCmd, TestOn, Test, TestRange, Accounted
<1>2. CASE Switch \/ Visit \/ Back \/ Sync \/ Compare
  <2>1. pc \notin {"send", "collect", "judge"} /\ pc' \notin {"send", "collect", "judge"}
    BY <1>2 DEF Switch, Visit, Back, Sync, Compare, GoTo
  <2> QED BY <2>1 DEF Accounted
<1>3. CASE Survey \/ Level \/ Judge \/ Restore
  BY <1>3 DEF Survey, Level, Judge, Restore, EndSurvey, SeriesOver, Accounted
<1>4. CASE Reset
  <2> SUFFICES ASSUME clean' PROVE Accounted'
    BY <1>4 DEF Reset, Accounted
  <2>1. PICK o \in Outcomes :
          /\ IF o.done THEN ResetPacks ELSE UNCHANGED <<slots, dest>>
          /\ Account(o.done, NoAir)
    BY <1>4 DEF Reset
  <2>2. slots' = Cleared /\ dest' = 0 /\ stored' = NoAir /\ pc' = "send"
    BY <1>4, <2>1 DEF Reset, Account, ResetPacks
  <2>3. \A p \in Packets \ {"empty"} : stored'[p] = Held(slots', p, Slots)
    BY <2>2, HeldCleared DEF NoAir
  <2>4. InAir' = 0
    BY <2>2 DEF InAir, NoAir, Packets
  <2>5. \A i \in 0 .. Slots - 1 : slots'[i] = "empty"
    BY <2>2 DEF Cleared, SlotIds
  <2> QED BY <2>2, <2>3, <2>4, <2>5 DEF Accounted
<1>5. CASE Send
  <2>1. count' \in Nat /\ pc' = pc /\ result' = result /\ pc = "send"
    BY <1>5, ProtocolAssumption DEF Send, TypeOK, SeriesTypeOK
  <2>2. CASE UNCHANGED <<slots, dest, airVars>>
    BY <2>1, <2>2 DEF Accounted, InAir
  <2>3. ASSUME NEW p \in Packets, Store(p) PROVE Accounted'
    BY <2>1, <2>3, StoreAccounted
  <2> QED BY <1>5, <2>2, <2>3 DEF Send
<1>6. CASE AllSent
  <2>1. /\ pc = "send" /\ pc' = "collect" /\ count' = 0 /\ result' = NoResult
        /\ UNCHANGED <<slots, clean, stored>>
    BY <1>6 DEF AllSent, SeriesFits
  <2>2. result'.lost = Held(slots', "empty", count') /\ result'.damaged = Held(slots', "damaged", count')
    BY <2>1, HeldNone DEF NoResult
  <2> QED BY <2>1, <2>2 DEF Accounted
<1>7. CASE Collect
  BY <1>7, CollectAccounted
<1>8. CASE AllCollected
  BY <1>8 DEF AllCollected, Accounted
<1>9. CASE Noise
  <2>1. PICK p \in Packets : Store(p)
    BY <1>9 DEF Noise, Packets
  <2>2. count' \in Nat /\ pc' = pc /\ result' = result /\ count' = count
    BY <1>9, ProtocolAssumption DEF Noise, TypeOK, SeriesTypeOK
  <2> QED BY <2>1, <2>2, StoreAccounted
<1>10. CASE Reboot
  <2>1. ~clean' /\ pc' = pc /\ count' = count
    BY <1>10 DEF Reboot, Account
  <2> QED BY <2>1 DEF Accounted
<1>11. CASE UNCHANGED vars
  BY <1>11 DEF vars, Accounted, InAir
<1> QED BY <1>1, <1>2, <1>3, <1>4, <1>5, <1>6, <1>7, <1>8, <1>9, <1>10, <1>11
        DEF Next, Step

\* Storing a packet that is not intact changes nothing about the intact ones.
LEMMA StoreTogether ==
  ASSUME TypeOK, Together, NEW p \in Packets, Store(p), pc' = pc,
         UNCHANGED <<txChannel, rxChannel>>, p # "intact" \/ txChannel = rxChannel
  PROVE  Together'
<1> SUFFICES ASSUME clean' PROVE Together'
  BY DEF Together
<1>1. clean /\ stored' = [stored EXCEPT ![p] = @ + 1]
  BY DEF Store, Account
<1>2. stored \in [Packets -> Nat]
  BY ProtocolAssumption DEF TypeOK, SeriesTypeOK
<1>3. p # "intact" => stored'["intact"] = stored["intact"]
  BY <1>1, <1>2 DEF Packets
<1> QED BY <1>1, <1>3 DEF Together

LEMMA StepKeepsTogether ==
  ASSUME TypeOK, Together, [Next]_vars
  PROVE  Together'
<1> USE DEF rxVars, settings, range, survey, series, airVars
<1>1. CASE Command
  BY <1>1 DEF Command, SetChannelCmd, SetPowerCmd, TestOn, Test, TestRange, Together
<1>2. CASE Switch \/ Visit \/ Back \/ Sync \/ Compare
  <2>1. pc \notin {"send", "collect", "judge"} /\ clean' = clean
    BY <1>2 DEF Switch, Visit, Back, Sync, Compare, GoTo
  <2> QED BY <2>1 DEF Together
<1>3. CASE Survey \/ Level \/ Judge \/ Restore
  BY <1>3 DEF Survey, Level, Judge, Restore, EndSurvey, SeriesOver, Together
<1>4. CASE Reset
  <2>1. PICK o \in Outcomes : Account(o.done, NoAir)
    BY <1>4 DEF Reset
  <2>2. stored' = NoAir /\ pc' = "send"
    BY <1>4, <2>1 DEF Reset, Account
  <2>3. stored'["intact"] = 0
    BY <2>2 DEF NoAir, Packets
  <2> QED BY <2>2, <2>3 DEF Together
<1>5. CASE Send
  <2>1. pc' = pc /\ UNCHANGED <<txChannel, rxChannel>>
    BY <1>5 DEF Send
  <2>2. CASE UNCHANGED <<slots, dest, airVars>>
    BY <2>1, <2>2 DEF Together
  <2>3. ASSUME txChannel = rxChannel, NEW p \in Packets, Store(p) PROVE Together'
    BY <2>1, <2>3, StoreTogether
  <2> QED BY <1>5, <2>2, <2>3 DEF Send
<1>6. CASE AllSent \/ AllCollected
  BY <1>6 DEF AllSent, AllCollected, Together
<1>7. CASE Collect
  <2>1. PICK loopback : Account(clean /\ loopback = slots[count], stored)
    BY <1>7 DEF Collect
  <2>2. pc' = pc /\ UNCHANGED <<txChannel, rxChannel>>
    BY <1>7 DEF Collect
  <2>3. clean' => clean /\ stored' = stored
    BY <2>1 DEF Account
  <2> QED BY <2>2, <2>3 DEF Together
<1>8. CASE Noise
  <2>1. PICK p \in {"damaged", "empty"} : Store(p)
    BY <1>8 DEF Noise
  <2>2. p \in Packets /\ p # "intact" /\ pc' = pc /\ UNCHANGED <<txChannel, rxChannel>>
    BY <1>8 DEF Noise, Packets
  <2> QED BY <2>1, <2>2, StoreTogether
<1>9. CASE Reboot
  <2>1. ~clean'
    BY <1>9 DEF Reboot, Account
  <2> QED BY <2>1 DEF Together
<1>10. CASE UNCHANGED vars
  BY <1>10 DEF vars, Together
<1> QED BY <1>1, <1>2, <1>3, <1>4, <1>5, <1>6, <1>7, <1>8, <1>9, <1>10 DEF Next, Step

LEMMA SeriesInvariant == Spec => [](SessionInv /\ Accounted /\ Together)
<1>1. Init => Accounted /\ Together
  BY DEF Init, Accounted, Together
<1>2. SessionInv /\ Accounted /\ Together /\ [Next]_vars => Accounted' /\ Together'
  BY StepAccounted, StepKeepsTogether DEF SessionInv
<1> QED BY <1>1, <1>2, SessionInvariant, PTL DEF Spec

\* The report accounts for the air, however many slots there are: what the
\* slots hold is what came in, and every slot is read once.
THEOREM ReportAccounts == Spec => []ReportAccountsForAir
<1>1. SessionInv /\ Accounted => ReportAccountsForAir
  <2> SUFFICES ASSUME SessionInv, Accounted, pc = "judge", clean
               PROVE  /\ result.lost = Slots - (stored["intact"] + stored["damaged"])
                      /\ result.damaged = stored["damaged"]
    BY DEF ReportAccountsForAir
  <2>1. slots \in [SlotIds -> Packets] /\ Slots \in Nat
    BY ProtocolAssumption DEF SessionInv, TypeOK, BoardTypeOK
  <2>2. /\ Held(slots, "intact", Slots) \in Nat /\ Held(slots, "damaged", Slots) \in Nat
        /\ Held(slots, "empty", Slots) \in Nat
    BY <2>1, HoldingIsFinite
  <2>3. /\ result.lost = Held(slots, "empty", Slots)
        /\ result.damaged = Held(slots, "damaged", Slots)
        /\ stored["intact"] = Held(slots, "intact", Slots)
        /\ stored["damaged"] = Held(slots, "damaged", Slots)
    BY DEF Accounted, Packets
  <2>4. Held(slots, "intact", Slots) + Held(slots, "damaged", Slots)
          + Held(slots, "empty", Slots) = Slots
    BY <2>1, HeldInAll
  <2> QED BY <2>1, <2>2, <2>3, <2>4
<1> QED BY <1>1, SeriesInvariant, PTL

\* A clean series without a loss or damage was sent and heard on one channel,
\* though nobody looks at the verdict of a change of channel: its packets came in
\* since the reset, intact.
THEOREM GoodMeansTogether == Spec => []GoodOnlyTogether
<1>1. SessionInv /\ ReportAccountsForAir /\ Together => GoodOnlyTogether
  <2> SUFFICES ASSUME SessionInv, ReportAccountsForAir, Together,
                      pc = "judge", clean, result = NoResult
               PROVE  txChannel = rxChannel
    BY DEF GoodOnlyTogether
  <2>1. stored["intact"] \in Nat /\ stored["damaged"] \in Nat /\ Slots \in Nat \ {0}
    BY ProtocolAssumption DEF SessionInv, TypeOK, SeriesTypeOK, Packets
  <2>2. /\ 0 = Slots - (stored["intact"] + stored["damaged"])
        /\ stored["damaged"] = 0
    BY DEF ReportAccountsForAir, NoResult
  <2>3. stored["intact"] > 0
    BY <2>1, <2>2
  <2> QED BY <2>3 DEF Together
<1> QED BY <1>1, SeriesInvariant, ReportAccounts, PTL
=============================================================================
