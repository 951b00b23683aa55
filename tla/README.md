# RadioTester in TLA+

RadioTester is a pair of nRF52840 boards that measure the quality of IEEE 802.15.4
radio channels. The *transmitter* is driven from a command line on its UART; it tells
the *receiver* over SPI which channel to listen on, sends it packets over the radio
and asks for them back over SPI to count what was lost or damaged on the way.

This directory holds a model of the firmware, the TLC configurations that check it on
small instances, and proofs that TLAPS checks for every instance. Paths below are
relative to the repository.

    tlc -config LinkHearing.cfg MCSpiLink.tla      # model-check one run
    tlapm SpiLinkProofs.tla                        # check the proofs

## 1. Inventory

| Component | Code | State | Operations | What makes it correct |
|---|---|---|---|---|
| Protocol vocabulary | `common/spi_protocol.h`, `allradio.h` | none | command codes, statuses, message numbers | kinds of command are told apart by range: the ranges must not meet |
| Command delivery | `Transmitter/transmitter.c` 14-180 | `pack_num`, `spi_cmd`, `spi_probes_left`, `spi_status`, `spi_rx` | `cmd_deliver`, `cmd_deliver_probe`, `cmd_deliver_check`, `transmitter_set_channel` | success only of an executed command; answers matched to questions; every delivery returns |
| Receiver handler | `Receiver/main.c` 24-122 | `status`, `spis_txs`, `radio_destination`, buffer handed to the SPI slave | `spis_event_handler`, `reset_packs` | the answer belongs to the message; slots are what was asked for |
| Receiver main loop and radio | `Receiver/main.c` 165-175, `common/radio/allradio.c` | `radio_destination`, `current_channel`, radio registers | `read_data`, `radio_disable`, `set_channel`, increment | the ring fills in order; a channel that was set stays; the loop never stops receiving |
| Test sessions | `Transmitter/cli.c` 111-335, `transmitter.c` 273-366 | radio settings, locals of the tests | `cmd_test`, `cmd_test_channel`, `test_range`, `cmd_set_channel`, power commands | settings restored; what is reported is what happened on the air; best channel is best |
| Packet statistics | `transmitter.c` 198-280 | none | `generate_pack`, `diff_bits`, `check_rx`, `tx_result_sum` | counts agree with the bytes sent and read |
| Check byte | `common/mylib/hash.c` | none | `get_hash`, `hashify`, `check_hash` | accepts what was hashed; which damages it misses |
| Task queue | `Transmitter/scheduler.c` | list on the heap | `scheduler_add`, `scheduler_process`, timer | order by priority, each task once, no dangling pointers |
| Channel choice | `allradio.c` 161-212, `cli.c` 151-173 | channel of the transmitter's radio | `check_power`, `best_channel_in_range`, `best_channel` | minimum of what was measured, in range, radio comes back, terminates |
| CLI settings | `cli.c` 19-36, 175-202 | delay, length, pattern | `set delay`, `set length`, `set pattern`, `config_transmitter` | what is shown is what is used |
| Drivers, start-up, random numbers, UART | `common/spi`, `common/spis`, `common/time`, `common/cli`, `common/uart`, `common/mylib/random.c` | hardware | thin wrappers | outside the models |
| Vendor SDK | `lib/` | | | external |

How they interact. The CLI runs in the transmitter's main loop and everything it calls
blocks: there is no concurrency on that board (`allspi_init(NULL)` makes transfers
blocking, and the task queue has no users). On the receiver an SPI interrupt handler
preempts the main loop; both write `radio_destination` and `current_channel` and both
drive the radio, with no lock. Between the boards a transfer is full duplex: the
transmitter reads, in each transfer, the answer the receiver prepared after the *last*
one it heard.

What is hard: answers that are late by a transfer or by a delivery; a wire that damages
either direction or misses transfers; boards that lose power separately; an answer
buffer the radio may still write to; the handler and the main loop sharing the radio;
nested loops of deliveries whose verdicts are partly ignored.

The hazards, each at its line and with the properties that would catch it, are in
`PROJECT.json`.

## 2. Modules

| Module | What it is |
|---|---|
| `SpiProtocol` | constants, codes, message numbers, the ring index and `set_channel`, shared by both boards; most modules extend it |
| `Receiver` | the receiver as the SPI master sees it: handler, channel, packets, power |
| `SpiLink` | one delivery from the transmitter to `Receiver` over a faulty wire, and its properties |
| `CommandDelivery` | abstract: what a delivery promises. `SpiLink` implements it |
| `PacketRing` | abstract: a ring of slots with a channel. `ReceiverRadio` implements it while commands come at quiet moments |
| `MCSpiLink` | `SpiLink` for TLC |
| `ReceiverRadio` | main loop, handler and radio of the receiver, one register or memory access per step |
| `TestSession` | the test commands from prompt to prompt, over deliveries with the outcomes of `CommandDelivery` |
| `PacketPath` | the bytes of a packet from `generate_pack` over air, slot and wire to the report |
| `ChannelSearch` | the automatic choice of a channel, in bytes that wrap |
| `Scheduler` | the task queue |
| `SpiProtocolLemmas` | what the proofs use of `SpiProtocol` |
| `SpiLinkProofs`, `ReceiverRadioProofs`, `TestSessionProofs`, `TestSeriesProofs`, `ChannelSearchProofs`, `PacketPathProofs`, `SchedulerProofs` | theorems about the module each is named for (`TestSeriesProofs`: about the report of `TestSession`) |

The three models of the receiver differ in grain. `ReceiverRadio` has single accesses
of all that the main loop does, but only the two commands that touch the radio; `Receiver`
has the whole handler as one step, which nothing on that board can preempt, and of the main
loop the accesses to the channel; `TestSession` has only slots and channel.

Operators called *broken variants* are not part of the model: each changes one
definition the way a mistake in the code would, and the run named for it in
`PROJECT.json` ("mutants") then fails. They document that the properties can fail.

### SpiLink and Receiver

State and code: `pc` is the phase of `cmd_deliver` that runs next, `probes` is
`spi_probes_left`, `loopback` the packet field of `spi_rx`; `body` are the packets in
`spis_txs`, `out` the buffer handed to the SPI slave with its header. Each transmitter
step is one transfer, because it blocks in the transfer and in the delay after it. `Deliver`
is `cmd_deliver`, `Probe` is `cmd_deliver_probe`, `Check` and `Exhausted` are
`cmd_deliver_check`; `Judge` has one disjunct per case of it. `SpisEventHandler` has one
disjunct per branch of the handler, each ending in `Respond`, its tail.

The receiver boots into the moment at which the handler is armed (`main.c:158`):
`set_channel(DEFAULT_CHANNEL)` is still to come, and a command may be heard before it. The
same two stores (`SetFrequency`, `SetCurrent`) are made in every turn of the main loop, after
it has loaded `current_channel` (`LoadChannel`, `allradio.c:139`); the handler may run
between any two of the three. So a channel command may be confirmed and then lost to an
older channel. The history variable `exposed` says that the last channel command met such
a `set_channel` for another channel, and `ChannelConfirmed` and `CommandDelivery` name these
commands as their exception. Packets may land in any slot at any moment: nothing shown of
the link rests on the order of the slots, which is the subject of `ReceiverRadio`.

In `CommandDelivery` a channel changes by a command (`Execute`), by loss of power (`Lose`),
or, after an exposed command, as it likes (`Drift`, `Revert`).

Data abstraction: a packet is a model value. The check byte is kept as the body it was
computed over, so that a buffer the radio overwrites after hashing does fail the check.
Damage on the wire is always noticed here; what the sum misses is the subject of `PacketPath`. Zeros (receiver off, line pulled down) and 0xFF (slave busy) are the
two frames that come from nobody.

Faults are a constant set, so that a run can say which ones it allows: damage of a
message, damage of an answer, a transfer the receiver misses (`deselect`), a receiver
still in its handler (`busy`), loss of power of either board.

### ReceiverRadio

`pc` walks through the accesses of one turn of the main loop, in program order. The
handler is a single step, since it cannot be preempted by the main loop, and the radio
only completes what it was told; the exception is a packet that ends between
`reset_packs` and `radio_disable`, which `IsrReset` has as a disjunct. The walk begins in
the boot, with the handler armed and the two stores of `set_channel(DEFAULT_CHANNEL)` still
to come; the handler's `read_data` stores `FREQUENCY` too. A packet has at least one byte: a
frame without any, which the radio would deliver if its CRC check were off, would leave the
slot looking empty, and `FillsFromStart` does not speak of it. `Quiet` restricts
the handler to moments when the main loop waits for a packet and none is pending.

### TestSession

`pc` is the place inside the nested calls, `kind` the command. A local that is no longer
alive has a fixed value, which keeps the state space small and says nothing about the
code. What the ring has stored is summarised by `stored`; `clean` tells whether the series
went well: the receiver has executed the reset and has not rebooted since, every request has
brought the packet of its slot, the ring has not gone round and nothing came in during the
reading (see `Account`). A delivery is a single step; when the wire may fail, it was executed
or not and confirmed or not in any combination, the false success of the run `FalseSuccess`
and the channel that the receiver's main loop takes back at once included. What a test may
rely on is therefore not the verdict but what has come back. `GoodOnlyTogether` says that
this is enough for the one conclusion that matters: a series without losses or damage was
sent and heard on one channel.

`Dispatched` is the table `sub_power` of the power options: `-4dBm` has the handler of
-40 dBm (`cli.c:371`), although its help says "set power -4dbm". The model follows the table,
so `PowerRestored` is about the power that the client's command has set, which for that one
option is not the power the client asked for.

### PacketPath

One packet at a time goes from `radio_tx` to the air (any bytes can come out), into
`slot`, into a sealed frame (`FrameOf`), over the wire (`Near`: any bytes of at most
`MaxDamage` places) and into `check_rx`. Bytes have `W` bits and overflow; the sum of
`get_hash`, the length macros, the loop of `check_rx` that compares `len + 1` bytes and
the bytes left behind a packet in every buffer are as in the code. `check_rx` reads the
last frame whatever the verdict, so a frame may also be that of a poll, zeros or ones.
`truth` counts independently, as a set of wrong bits. `Total` is the loop of `get_hash` and
that of `check_rx`, `DiffBits` the loop of `diff_bits`; both are recursive functions, not
operators, so that they can be proved about. `cli_len` and `radio_len` are the two
variables called `radio_len`; the initial 2 of the second one stands for the 10 of
`transmitter.c:49`, which differs from the 16 of `cli.c` in the same way.

### ChannelSearch

`Search` is the clipping at the start of `best_channel_in_range` for any two bytes,
`Tune` and `Sample` are the two halves of `check_power`, `Again` the test of the loop and
`Choose` its end with the `transmitter_set_channel` of `cmd_set_channel`. The index
wraps at `ByteMod`.

### Scheduler

Nodes are numbers, the heap is the set `live`. `scheduler_process` has one step per
access to the list, and a callback begins, adds any number of tasks and returns between
them (`Call`, `CallbackAdd`, `Return`). `Reach` are the nodes on the way along links,
defined as what no set closed under them can leave out, so that it means something on any
heap, a circle included; `Queued` is the list. `StopsAt` is the loop of `scheduler_add`:
along the links it follows, the one node with none.
The timer cannot run: `scheduler_init` declares `scheduler_timer_init` where it should
call it (`scheduler.c:17`).

The queue does less than its comments say, and the properties say what is left. The loop
of `scheduler_add` tests the node it stands on instead of the one behind it, so tasks of
priority 0, 2, 1 stay in that order, which is not what `scheduler.c:44` ("skip everything
with same or higher priority") describes: only the head is sure to be most urgent. A
task that a callback adds behind its own node is dropped when `scheduler_process` goes on
to the successor it saved, in spite of "run all the functions" (`scheduler.h:43`): so
`ProcessDrains` is about callbacks that add no tasks.

## 3. Runs

| Run | Result | What it shows |
|---|---|---|
| `LinkHearing` | holds, 103 k states | with damage both ways, power cuts and restarts, but every transfer heard by a powered receiver, whose main loop re-applies channels between any two transfers: a delivery keeps the promise of `CommandDelivery`, confirmed channels agree (but for exposed commands), deliveries return |
| `LinkDeaf` | holds, 1.8 M states | with missed transfers and a busy receiver as well: success is fresh and never carries another slot's packet |
| `RadioQuiet` | holds, 2 k states | commands at quiet moments: the receiver implements `PacketRing` access by access, fills its slots in order and always listens again |
| `SessionFaulty` | holds, 625 k states | test commands with deliveries that fail or are falsely confirmed, reboots and foreign packets: they return, restore power and channel, report what the air did in a clean series, find good only what both radios were tuned to, choose the best channel |
| `PacketPath` | holds, 19 k states | any damage in the air, any two damaged bytes on the wire: the check byte tells single damages, the report is true if every answer passed the check, its figures always agree, and it rests on the length that was sent |
| `ChannelSearch` | holds, 94 k states | any two bytes as arguments: quietest channel, in range, radio back home, search returns |
| `SchedulerDrain` | holds, 347 k states | no freed node and no circle on the list, most urgent first, drains and returns |
| `FalseSuccess` | **violated** | `transmitter.c:160-161`, `172`: success for a channel change that never happened |
| `LostPayload` | **violated** | `spi_protocol.h:37`: success without the packet that was asked for |
| `SilentOff` | **violated** | `transmitter.c:141`, `cli.c:50`: a dead receiver is not reported as such |
| `RadioReset` | **violated** | `spi_protocol.h:31`: after a reset the first packet is not in the first slot |
| `RadioHang` | **violated** | `main.c:171`: the main loop waits for ever inside `radio_disable` |

What the exception of `ChannelConfirmed` stands for: without its `~exposed` TLC finds a
counterexample of four steps. The client sets a channel while the receiver has armed its
handler and not yet come to `set_channel(DEFAULT_CHANNEL)` (`main.c:158` to `162`); the
handler tunes the radio and remembers success; the boot goes on and sets the default
channel; the poll is answered with success. The other way is a command between the load
and the stores of `set_channel(current_channel)` at `allradio.c:139`.

What the main loop does after `RadioHang`: nothing in the firmware frees it. A later command
does not help, because the handler's `radio_disable` waits for the DISABLED event of its own
and clears it before the main loop can see it.

How false success comes about: command A succeeded. The transmitter begins command B with
the next number; the receiver misses the frame. The poll is heard: the answer to A comes
in, its number is wrong, the command is resent. The handler has meanwhile answered the
*poll*, with B's number and the status it remembers, A's success. The resent B is missed
too. The next poll reads that answer.

### Bounds, and why they are enough

- Channels 3..4, one request floor: two channels make a right and a wrong one; one byte
  below and above the range stands for every byte that is no channel.
- Slots: 2 in `LinkDeaf` and the sessions (own slot and foreign slot, ring goes round after
  two), 3 in `ReceiverRadio`, where a slot can be first, next and neither. 1 in `LinkHearing`,
  whose properties are about channels, and in violated runs.
- `PackMod` 3: current number, previous number and another one. `MaxProbes` 3: command,
  stale answer, resend and fresh answer fit, and probes can run out at each place.
- `MaxSilence` bounds the deliveries in a row of which the receiver hears nothing. It is
  below `PackMod`: an answer kept that long would have the current number again. In the
  code this takes 255 deliveries; that wrap is outside the model, and the theorem that
  success is fresh needs the bound.
- Packets: two, where a slot's own packet must be told from another's, otherwise one.
- `Levels` 3 powers: the default, `-4dBm`, and the lowest, which `-4dBm` is mistaken for.
  `NoiseLevels` {0, 1}.
- Four nodes and two priorities: the shortest list with a node before, at and behind the
  place where a fourth is inserted; a callback may add up to three tasks.
- `PacketPath`: bytes of 2 bits, packets of 2 and 3 bytes, 2 packets. A byte then has one
  wrong bit, the other, or both; a received length is shorter, equal or longer than the
  sent one, or 0; sums overflow after two bytes; a second packet meets the bytes and the
  figures of the first. The factor is the code's own, 211, of which only the remainder
  modulo `TwoTo[W]` counts; the assumption says what matters, that it is odd.
  `MaxDamage` 2 is one more than the check byte can be relied on for.
- `ChannelSearch`: bytes modulo 9 and channels 3..6: two bytes that are no channels above the
  band, one of them the last byte, where the index wraps. Samples below, at the edge of and
  beyond the scale (two of them: they are not told apart).

### Fairness

A delivery, a test command and `scheduler_process` are call chains in the only thread of
the transmitter, so the step that comes next is weakly fair. The receiver's main loop is
weakly fair because the handler always returns; a search of channels is a call chain too; the radio is fair in finishing a
disable and a ramp-up. No fairness is assumed of the environment: nobody has to send a
command or a packet, and the wire may damage every frame for ever.

## 4. Proofs

Each theorem holds for all values of the constants that the named assumptions of its module
allow. TLC evaluates the assumptions in every run and checked every inductive invariant
below before it was proved.

| Module | Theorem | Statement | Extra assumption |
|---|---|---|---|
| `SpiLinkProofs` | `TypeCorrect` | `SafeSpec => []TypeOK` | |
| | `ChannelIsConfirmed` | `SafeSpec => ChannelConfirmed` | `Hearing` |
| | `SuccessFresh` | `SafeSpec => FreshSuccess` | `NoRestart` |
| | `PayloadIsNotForeign` | `SafeSpec => PayloadNotForeign` | `NoRestart` |
| | `LinkImplementsDelivery` | initial states and steps of `CommandDelivery` | `Hearing` |
| `ReceiverRadioProofs` | `RadioTypeCorrect` | `SafeSpec => []TypeOK` | |
| | `SlotsFillFromStart` | `SafeSpec => []FillsFromStart` | `Quiet` |
| | `RadioImplementsRing` | `SafeSpec => ImplementsRing` | `Quiet` |
| `TestSessionProofs` | `SessionTypeCorrect` | `Spec => []TypeOK` | |
| | `PowerIsRestored` | `Spec => []PowerRestored` | |
| | `ChannelIsRestored` | `Spec => []ChannelRestored` | |
| | `RangeIsBest` | `Spec => []RangeChoosesBest` | |
| `TestSeriesProofs` | `ReportAccounts` | `Spec => []ReportAccountsForAir` | |
| | `GoodMeansTogether` | `Spec => []GoodOnlyTogether` | |
| `ChannelSearchProofs` | `SearchTypeCorrect` | `Spec => []TypeOK` | |
| | `SearchComesBack` | `Spec => []RadioComesBack` | |
| | `ChoiceIsQuietest` | `Spec => []FindsQuietest` | |
| | `ChoiceInRange` | `Spec => []StaysInRange` | |
| `PacketPathProofs` | `PathTypeCorrect` | `Spec => []TypeOK` | |
| | `CheckIsReliable` | `Spec => []CheckByteTells` | |
| | `SwappedBytesPass` | every frame in which two bytes have changed places is accepted | |
| | `ReportIsTrue` | `Spec => []ReportIsTruth` | |
| | `FiguresAgree` | `Spec => []CountsAgree` | |
| | `LengthIsKnown` | `Spec => []ReportKnowsLength` | |
| `SchedulerProofs` | `SchedulerTypeCorrect` | `Spec => []TypeOK` | |
| | `ListIsNeverDangling` | `Spec => []NoDanglingNode` | |
| | `HeadIsMostUrgent` | `Spec => MostUrgentFirst` | |
| | `NothingIsLeft` | `Spec => ProcessDrains` | |

`Hearing` says that the fault set has neither `deselect` nor `busy`: a receiver that has
power hears every transfer. Without it the theorem is false (`FalseSuccess`). `NoRestart`
says that the transmitter does not restart; a restart resets `pack_num` to 0 and may make
an answer the receiver kept current again. `Quiet` says that commands reach the receiver
only while it waits for a packet; without it the theorems are false (`RadioReset`).

### The link

`TypeCorrect` is inductive as it stands, together with a lemma that the handler leaves an
answer with the number of the message it heard.

`ChannelIsConfirmed` needs `ExecutedInv`, in two parts. `StatusInv`: during a delivery,
an answer in the receiver, and likewise a remembered status, that says success implies that
the current command was executed. It is inductive only under `Hearing`: the
first transfer of a delivery always carries the command, so that no remembered status
survives into the delivery. `ChannelInv`: an executed channel command that is not exposed has
left the receiver's radio on that channel, which is the transmitter's, and `Settled`: unless
something is exposed, what the main loop has in hand, what it will load and what the radio is
tuned to are the same channel, so that none of its three accesses changes anything. An
exposed command is exactly one that finds another channel in hand (`HeardTunes`).
`LinkImplementsDelivery` uses the same invariant: each step of
the link is a step of the abstract delivery or leaves it unchanged.

`SuccessFresh` and `PayloadIsNotForeign` need `FreshInv`: an answer that was not prepared in
this delivery has a number that lies behind `pack_num` by as many steps as there were
deliveries nobody heard, modulo `PackMod` (`NumberInv`, with `Lag`); with `MaxSilence <
PackMod` it cannot be the current number. And a prepared answer with the current number that
holds a slot holds the slot the current command asked for (`SlotInv`).

### The receiver's radio

`RadioInv` adds three parts to the types. `RadioFollowsMain` gives the state of the radio
and its events at each place of the main loop: the events are what the main loop waits for,
and one that is set too early or cleared by somebody else lets it run ahead. `AgreeOnSlot`
says that the locals, the packet pointer and the radio's own copy of it name the slot
`radio_destination` does. `FilledTo` is the property itself, told of the next slot that will be
written, which is one ahead of `radio_destination` between the end of a packet and the
increment. With `Quiet`, a command meets none of the places where these copies matter, and
each access is a step of `PacketRing` or a stutter.

### Sessions

`SessionInv`: `KindFits` (which command can be where), `PowerKept` and `ChannelKept` (the
client's setting is in use or in the local that will restore it), `SeriesFits` (the figures never count more
packets than were asked for, which keeps them in their type), `GoesUp` and `BestSoFar`
(the range is visited upwards, so a later channel wins a tie with nobody, and the best so
far beats all that were seen). `RangeIsBest` rests on the lemma `BetterIsMerit`: the
comparison of `test_range` by flag, power and noise is a total order, told by one number.

`ReportAccounts` needs `Accounted`: in a clean series the slots behind those written are
empty, the history counts what the others hold, and the figures what the slots read so far
hold. The end of the argument is that intact, damaged and empty slots are all the slots
(`HeldInAll`), with the library's facts about finite sets. `GoodMeansTogether` adds
`Together`: in a clean series, an intact packet in the receiver means one channel, since only
the own packets of the series are intact and nothing changes a channel without ending it. A
report without losses and damage then says that there was such a packet.

### The search

`SearchInv`: `KnowsHome`, `ClippedBounds` and `BestOfHeard`, which says that the channels
measured reach from the start to the index and that the best has the lowest level. The
last byte as the start is left out of it: the index wraps then and the loop never ends.
`LevelOrders` says that the scale keeps the order of the samples up to the saturation.

### The packet path

The theorems are about packets of every length up to `MaxLen`, bytes of every width, any
bytes out of the air and any damage on the wire. `PathInv` itself is short: types, the
length of the client is that of the packet in `radio_tx` (`LengthKnown`), the figures agree,
and what the statistics lack is exactly the packet on its way (`Truthful`). The work is in
what the loops of the code compute.

- The check byte (`CheckTells`). Two texts that differ in one place have sums that differ by
  the factor times the difference of two bytes (`TotalDiffers`). An odd factor cannot make
  that a multiple of a power of two (`OddFactor`, halving the modulus step by step), so the
  remainders differ (`HashTells`). This is where `HashFactor % 2 = 1` is needed: 211 is odd,
  and with an even factor the theorem is false (the broken variant `WeighEven`). If the
  damaged byte is the check byte itself, the sum is intact and the byte is not.
  `SwappedBytesPass` is the other side: the sum does not tell the order of its terms
  (`TotalOfSwap`), so with two damaged bytes nothing is certain, and `ReportIsTruth`
  asks for `OneOff`.
- `diff_bits` (`DiffBitsCounts`): the loop over halves counts the places where the bits of
  two bytes differ, by induction on the sum of the two.
- `check_rx` (`CheckRxIsTruth`): the bits that `Truth` counts are those the loop sees
  (`Chosen`), and all bits of the bytes only one of the packets has (`Rest`); these are
  disjoint, and their sizes are the two summands of the code (`WrongParts`, `WrongBits`,
  `WrongBytes`).
- `CheckRxSame`: `check_rx` reads nothing behind the packet, so an accepted frame with one
  damaged byte at most tells it what the slot would have told (`AcceptedIsSlot`).
- `CheckRxAgrees`, `SumAgrees`: every byte that differs has between one and `W` wrong bits
  (`TotalBounds`), whatever was read, and sums keep that.

What a recursive function returns is proved by an induction of its own: `SetInduction`
says that a set with 0 that is closed under successor has all numbers, from the library's
theorem that a well-founded order has minimal elements, which takes a set and no operator.
`LoopExists` gives the functions that the recursive definitions choose, by the same
induction.

### The task queue

`SchedulerInv`: `ListSound` says that the nodes on the list are live and that the way along
them does not go round (`Acyclic`: each non-empty set of nodes on it has a link that leaves the set).
`Acyclic` is the form of "no node comes again behind itself" that survives insertions in
one step; `AcyclicStep` leads back to the words of `NoDanglingNode`. That property alone is
not inductive, since it says nothing of the local `next`. `SavedSound` says the same
of the list behind the local `next` while a node is in hand, which a callback may meanwhile
have inserted into, and that the node to be freed is not on it. `HeadUrgent` is the
property; it survives an insertion because a more urgent task goes to the front. `Drains`
says which nodes are live, listed and pending at each place, as long as callbacks add
nothing. `LoopStops` shows that the loop of `scheduler_add` ends at a node of the list;
`InsertAfter` and `ReachSame` say what an insertion does to what can be reached.

### Only model-checked

- Liveness (`DeliveryReturns`, `MainListensAgain`, `ProcessReturns`, `TestReturns`,
  `SearchReturns`) and the fairness part of `CommandDelivery` in `ImplementsDelivery`: out
  of the prover's reach. Every invariant and every action property of the runs that hold is
  proved.

## 5. Not modelled

- Lengths of time. The delays of 100 us and of `radio_delay` ms are the ground for taking a
  transfer as one step, they are not checked against the speed of the receiver. A handler
  that is too slow is the fault `busy`. `cmd_set_delay` is left out for this reason;
  `transmitter_set_delay` narrows its argument to a byte, so a delay of 256 ms is none
  (`transmitter.c:192`), while the client is told 256.
- A failed command that takes effect later than its verdict, within `TestSession`: there a
  delivery has its effect when it returns. In `SpiLink` the effect comes when the message is
  heard.
- A packet of no bytes in `ReceiverRadio` (see there).
- The wrap of `pack_num` after 256 deliveries of which the receiver heard nothing.
- Packets whose length byte was damaged to 127 or more: what lies behind a slot is up to the
  linker.
- What a series that is not clean reports, and what channel a failed `cmd_test` with a channel
  leaves (`cli.c:299`): arbitrary in the code, and no document promises anything. The same
  is true of the order of tasks behind the head of the queue.
- The timer of the task queue (never initialised), start-up of clocks, UART, CLI parser,
  printing, random numbers.
- The vendor's SDK. `src/lib` holds nearly all lines of the repository (register headers,
  configuration headers, drivers, libraries the firmware does not call). What the firmware
  uses of it, blocking transfers, buffers handed to the SPI slave, radio registers and
  events, is in the models as external behaviour. So the share of the repository that is
  modelled is tiny, and the share of the firmware's own code is most of it.

## 6. What could come next

1. A session over the full link, in which false success is possible: how far the report of
   a series then is from the air. The product of `TestSession` and `SpiLink` is too large
   for exhaustive checking as it stands.
2. The double buffering of the SPI slave driver (`nrfx_spis.c`), to derive the fault
   `busy` from it.
