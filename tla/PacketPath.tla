----------------------------- MODULE PacketPath -----------------------------
(***************************************************************************)
(* The bytes of a test packet on their way from generate_pack to the       *)
(* report: over the air into a slot of the receiver, sealed with a check   *)
(* byte, over the wire into spi_rx, and counted by check_rx                *)
(* (Transmitter/transmitter.c, common/mylib/hash.c, Receiver/main.c).      *)
(*                                                                         *)
(* The packets of a series are independent of each other (module           *)
(* TestSession has their order), so one is sent and collected at a time.   *)
(* The header of a frame is one byte.  Of a delivery only its last frame   *)
(* matters: check_rx reads it whatever the verdict was.                    *)
(***************************************************************************)
EXTENDS Integers, FiniteSetsExt

CONSTANTS
  W,          \* bits of a byte (8)
  MaxLen,     \* IEEE_MAX_PAYLOAD_LEN, bytes of a packet with its length (127)
  HashFactor, \* the factor of get_hash (211)
  Header,     \* pack_num and status of the answer
  MaxPacks,   \* packets of a series (RX_MAX_PACK_BUFFER)
  MaxDamage   \* bound on the bytes of a frame that the wire damages

\* The powers of two up to the values of a byte.
TwoTo[n \in 0 .. W] == IF n = 0 THEN 1 ELSE 2 * TwoTo[n - 1]

Byte == 0 .. TwoTo[W] - 1
Ones == TwoTo[W] - 1   \* 0xFF

ASSUME PathAssumption ==
  /\ W \in Nat \ {0} /\ MaxLen \in Byte /\ MaxLen >= 2
  /\ HashFactor \in Nat /\ HashFactor % 2 = 1
  /\ Header \in Byte /\ MaxPacks \in Nat \ {0} /\ MaxDamage \in 0 .. MaxLen + 2

PackBytes  == 0 .. MaxLen - 1   \* of radio_tx and of a slot, the length first
FrameBytes == 0 .. MaxLen + 1   \* of spi_rx: header, packet, check byte
Lengths    == 2 .. MaxLen

VARIABLES
  cli_len,   \* radio_len of cli.c
  radio_len, \* radio_len of transmitter.c
  radio_tx,
  slot,      \* LOOPBACK(i) of the packet on its way
  pc, count, \* phase and index of the loops of test_series_raw
  result,    \* statistics of the series
  \* History.
  clean,     \* every answer passed the check with at most one byte damaged
  truth      \* what the statistics should be, while clean

vars == <<cli_len, radio_len, radio_tx, slot, pc, count, result, clean, truth>>

Results  == [packs_sent : Nat, damaged_bits : Nat, damaged_bytes : Nat,
             damaged_packs : Nat, lost_packs : Nat]
NoResult == [packs_sent |-> 0, damaged_bits |-> 0, damaged_bytes |-> 0,
             damaged_packs |-> 0, lost_packs |-> 0]
OneLost  == [packs_sent |-> 1, damaged_bits |-> 0, damaged_bytes |-> 0,
             damaged_packs |-> 0, lost_packs |-> 1]
OneHeard(bits, bytes) ==
  [packs_sent |-> 1, damaged_bits |-> bits, damaged_bytes |-> bytes,
   damaged_packs |-> IF bits # 0 THEN 1 ELSE 0, lost_packs |-> 0]

Blank == [i \in PackBytes |-> 0]

TypeOK ==
  /\ cli_len \in Lengths /\ radio_len \in Lengths
  /\ radio_tx \in [PackBytes -> Byte] /\ radio_tx[0] < MaxLen
  /\ slot \in [PackBytes -> Byte] /\ slot[0] < MaxLen
  /\ pc \in {"idle", "send", "request"} /\ count \in 0 .. MaxPacks
  /\ result \in Results /\ truth \in Results
  /\ clean \in BOOLEAN

Init ==
  /\ cli_len = MaxLen /\ radio_len = 2
  /\ radio_tx = Blank /\ slot = Blank
  /\ pc = "idle" /\ count = 0 /\ result = NoResult
  /\ clean = FALSE /\ truth = NoResult

-----------------------------------------------------------------------------
(* The check byte.                                                         *)

WeighEven(b) == b * (HashFactor + 1)  \* broken variant
Weigh(b)     == b * HashFactor

\* The sum of g[0] to g[n - 1].
Total(g, n) ==
  LET sum[i \in 0 .. n] == IF i = 0 THEN 0 ELSE sum[i - 1] + g[i - 1]
  IN  sum[n]

GetHash(f, size) == Total([i \in 0 .. size - 1 |-> Weigh(f[i])], size) % TwoTo[W]

\* The frame of an answer with packet p: SPIS_TX_LEN bytes, sealed; the SPI
\* slave clocks out ones for the rest of spi_rx.
FrameOf(p) ==
  LET size   == 2 + p[0]
      data   == [i \in FrameBytes |-> IF i = 0 THEN Header
                                      ELSE IF i < size THEN p[i - 1] ELSE Ones]
  IN  [data EXCEPT ![size] = GetHash(data, size)]

\* RX_LEN; LOOPBACK_LEN counts the length byte.
RxLenShort(f) == 1 + f[1] + 1  \* broken variant
RxLen(f)      == 1 + (1 + f[1]) + 1

\* The answers check_hash can give: a damaged length may take it beyond spi_rx.
CheckHash(f) ==
  IF RxLen(f) - 1 \in FrameBytes
  THEN {GetHash(f, RxLen(f) - 1) = f[RxLen(f) - 1]} ELSE BOOLEAN

-----------------------------------------------------------------------------
(* The statistics.                                                         *)

\* diff_bits.
DiffBits(x, y) ==
  LET diff[ab \in Byte \X Byte] ==
        IF ab[1] = 0 /\ ab[2] = 0 THEN 0
        ELSE (IF ab[1] % 2 # ab[2] % 2 THEN 1 ELSE 0)
             + diff[<<ab[1] \div 2, ab[2] \div 2>>]
  IN  diff[<<x, y>>]

\* How many bytes the loop of check_rx compares, and the bits it adds for lost bytes.
ComparedShort(t, l) == Min({t[0], l[0]})      \* broken variant
Compared(t, l)      == Min({t[0], l[0]}) + 1
LenBitsForgotten(d) == 0                      \* broken variant
LenBits(d)          == d * W

CheckRx(t, l) ==
  LET len_dif == Max({t[0], l[0]}) - Min({t[0], l[0]})
      len     == Compared(t, l)
      bits    == [i \in 0 .. len - 1 |-> DiffBits(t[i], l[i])]
  IN  IF l[0] = 0 THEN OneLost
      ELSE OneHeard(LenBits(len_dif) + Total(bits, len),
                    len_dif + Cardinality({i \in 0 .. len - 1 : bits[i] # 0}))

TxResultSum(a, b) ==
  [packs_sent    |-> a.packs_sent + b.packs_sent,
   damaged_bits  |-> a.damaged_bits + b.damaged_bits,
   damaged_bytes |-> a.damaged_bytes + b.damaged_bytes,
   damaged_packs |-> a.damaged_packs + b.damaged_packs,
   lost_packs    |-> a.lost_packs + b.lost_packs]

-----------------------------------------------------------------------------
(* Settings and tests.                                                     *)

ClampedBelow(n) == Max({n, 2})  \* broken variant
Clamped(n)      == Min({Max({n, 2}), MaxLen})

\* cmd_set_length with any integer; those far outside act like the nearest.
SetLength ==
  /\ pc = "idle"
  /\ \E n \in 0 .. MaxLen + 1 : cli_len' = Clamped(n)
  /\ UNCHANGED <<radio_len, radio_tx, slot, pc, count, result, clean, truth>>

\* config_transmitter and transmitter_set_pack_len.
Unconfigured      == UNCHANGED radio_len  \* broken variant
ConfigTransmitter == radio_len' = Min({cli_len, MaxLen})

\* cmd_test up to the reset of the receiver: config_transmitter, generate_pack
\* with a preset or random pattern.  What lies behind the packet is old.
Test ==
  /\ pc = "idle" /\ pc' = "send"
  /\ ConfigTransmitter
  /\ \E pattern \in Byte :
       radio_tx' = [i \in PackBytes |-> IF i = 0 THEN radio_len' - 1
                                        ELSE IF i < radio_len' THEN pattern
                                        ELSE radio_tx[i]]
  /\ count' = 0 /\ result' = NoResult /\ slot' = Blank
  /\ clean' = TRUE /\ truth' = NoResult
  /\ UNCHANGED cli_len

\* What the statistics should say of packet t that came out of the air as r,
\* byte by byte and bit by bit: a byte that only one of them has is wrong.
Truth(t, r) ==
  LET near == Min({t[0], r[0]})
      far  == Max({t[0], r[0]})
      bit(n, b) == (n \div TwoTo[b]) % 2
      wrong == {ib \in (0 .. far) \X (0 .. W - 1) :
                  ib[1] > near \/ bit(t[ib[1]], ib[2]) # bit(r[ib[1]], ib[2])}
  IN  IF r[0] = 0 THEN OneLost
      ELSE OneHeard(Cardinality(wrong), Cardinality({ib[1] : ib \in wrong}))

\* send_data, and whatever comes out of the air.  The slot holds old bytes
\* behind the packet, and nothing but old bytes behind a length of 0.  Lengths
\* beyond the slot (a damaged length of 127 or more) are left out.
Send ==
  /\ pc = "send" /\ count < MaxPacks /\ pc' = "request"
  /\ slot' \in {p \in [PackBytes -> Byte] : p[0] < MaxLen}
  /\ truth' = IF clean THEN TxResultSum(truth, Truth(radio_tx, slot')) ELSE truth
  /\ UNCHANGED <<cli_len, radio_len, radio_tx, count, result, clean>>

\* Where two frames differ, and the frames the wire can make of frame f.
Damage(f, g) == {i \in FrameBytes : f[i] # g[i]}
Near(f) ==
  LET hit(D) == {[i \in FrameBytes |-> IF i \in D THEN d[i] ELSE f[i]] : d \in [D -> Byte]}
  IN  UNION {hit(D) : D \in kSubset(MaxDamage, FrameBytes)}

\* Frames a delivery may end with: the slot's, that of an empty answer to a
\* poll, each after the wire, and the two that come from nobody.
LastFrames == Near(FrameOf(slot)) \cup Near(FrameOf(Blank)) \cup
              {[i \in FrameBytes |-> b] : b \in {0, Ones}}

\* Frame f is the slot's, damaged in at most one byte that is not its length.
OneOff(f) ==
  LET damage == Damage(f, FrameOf(slot)) \cap 0 .. 2 + slot[0]
  IN  Cardinality(damage) <= 1 /\ 1 \notin damage

\* cmd_deliver(TX_REQUEST_PACK(i)), check_rx and tx_result_sum.
Collect ==
  /\ pc = "request" /\ pc' = "send"
  /\ \E f \in LastFrames : \E ok \in CheckHash(f) :
       /\ result' = TxResultSum(result, CheckRx(radio_tx, [i \in PackBytes |-> f[i + 1]]))
       /\ clean' = (clean /\ ok /\ OneOff(f))
       /\ truth' = IF clean' THEN truth ELSE NoResult
  /\ slot' = Blank /\ count' = count + 1
  /\ UNCHANGED <<cli_len, radio_len, radio_tx>>

\* report_test_result.
Report ==
  /\ pc = "send" /\ count = MaxPacks /\ pc' = "idle"
  /\ result' = NoResult /\ truth' = NoResult /\ clean' = FALSE /\ count' = 0
  /\ UNCHANGED <<cli_len, radio_len, radio_tx, slot>>

Next == SetLength \/ Test \/ Send \/ Collect \/ Report

Spec == Init /\ [][Next]_vars

-----------------------------------------------------------------------------
\* "Proper enough detection of mistakes" (transmitter.c:161), for the frame of
\* any packet over any old bytes: with at most one byte damaged, the length
\* apart, the check passes exactly if the frame is intact.
CheckByteTells ==
  pc = "request" =>
    \A f \in Near(FrameOf(slot)) : OneOff(f) =>
      CheckHash(f) = {Damage(f, FrameOf(slot)) \cap 0 .. 2 + slot[0] = {}}

\* End to end: if every answer of a series passed the check, with at most one
\* byte damaged that is no length, the report counts the packets, bytes and
\* bits that went wrong in the air, and no old byte of any buffer.
ReportIsTruth == pc = "send" /\ clean => result = truth

\* The figures of a report agree with each other whatever the wire made of the
\* answers: every packet is sound, damaged or lost, and every damaged byte has
\* between one and W damaged bits.
CountsAgree ==
  /\ result.damaged_packs + result.lost_packs <= result.packs_sent
  /\ result.damaged_packs <= result.damaged_bytes
  /\ result.damaged_bytes <= result.damaged_bits
  /\ result.damaged_bits <= W * result.damaged_bytes

\* The percentages of a report rest on the length of the packets that were
\* sent, though the client's setting and the transmitter's are two variables
\* with different initial values (cli.c:25 and transmitter.c:49).
ReportKnowsLength == pc = "send" /\ count = MaxPacks => cli_len = radio_tx[0] + 1
=============================================================================
