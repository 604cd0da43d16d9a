# Verification of the ns-3 CSA module

CSA (coded slotted ALOHA) is a medium access scheme for vehicles. A sender cuts
a packet into `s` fragments' worth of data, sends `n` coded copies of one
fragment in `n` random slots, and writes the numbers of all those slots in each
copy's header. A receiver stores what it hears slot by slot, decodes a slot that
holds one packet, and takes a decoded packet out of the other slots it collided
in, which may free the next packet there. The module runs inside the ns-3
discrete-event simulator.

This directory holds TLA+ models of that program, TLC runs and TLAPS proofs.

## 1. Inventory

| Component | Code | State | Operations |
|---|---|---|---|
| MAC, sending | `csa-mac.cc` 75-270 | `m_queue`, `m_isSleeping`, `m_isTx`, `m_seqNo`, pending `Dequeue` / `StartSend` / `EndSend` events | `Enqueue`, `WakeUp`, `Sleep`, `Dequeue`, `GetNSlots`, `PrepareHeader`, `SendPacket`, `StartSend`, `EndSend` |
| MAC, receiving | `csa-mac.cc` 279-346 | `m_solvingAsked`, pending `StartSolveAtSlot` / `EndSolve` | `Receive`, `Solve`, `EndSolve`, `ForwardUp` |
| Buffers | `csa-buffer.cc/.h` | `m_packetBuffer` by (source, seqNo), `m_slotBuffer` by slot, a timer per entry; `count` of a packet; `packets` and `noise` of a slot | `Get/Add/DeletePacketState`, `Get/Add/DeleteSlotState`, `RemovePacketState` |
| Solver | `csa-solver.cc` | `m_activeSlotQueue`, `m_currentSlot` | `StartSolveAtSlot`, `Solve`, `CleanSlot`, `Decode` |
| PHY | `csa-phy.cc/.h` | data rate, transmit power | `IsClear` (SNR), `IsDecodable` (SINR), `StartTx`, `Receive` (transmission delay) |
| Channel | `csa-channel.cc` | list of PHYs | `Send`: a delayed copy to every PHY but the sender's |
| Header | `csa-header.cc` | the fields on air | `GetSerializedSize`, `Serialize`, `Deserialize` |
| Tags | `csa-tag.cc` | destination and protocol; category and time of a packet, carried beside it | `Serialize`, `Deserialize` of both |
| Net device | `csa-net-device.cc` | - | `Send` calls `CsaMac::Enqueue` |
| Helper | `csa-helper.cc` | - | builds the nodes, one shared channel; `SetStrategy` draws `(n, s)` |
| Script | `simulation/main.cc` | counters of the traces | slot length, traffic, statistics |

How they interact: the net device calls `Enqueue`; `StartSend` calls the PHY,
the PHY the channel, the channel schedules `CsaPhy::Receive` at every other node
after the propagation delay, which schedules `CsaMac::Receive` after the
transmission delay. The MAC's receive handler and the solver share the two
buffers; the solver calls back into the PHY for the power tests and into the MAC
for a decoded packet. `m_isTx` is written by the sending side and read by the
receiving side. Everything runs in one thread: handlers are atomic, and the
order of events with equal time stamps is the order they were scheduled in.

What is hard, and what makes each part correct:

* Sending. Timers chain (Dequeue schedules copies and the next Dequeue), a
  packet may arrive at any moment, and events of one slot boundary race. Correct
  means: no wake-up lost or doubled, one fragment per slot, the header tells the
  slot, the sequence number names the packet, `m_isTx` marks the right slots.
* Receiving and buffers. Entries expire while copies are still under way, and
  the request flag must be reset. Correct means: each slot heard is solved, one
  packet is handed up once, a timer removes its own entry.
* Solver. A cascade visits slots in an order nobody chose and puts slots on its
  own queue. Correct means: it ends, it leaves nothing decodable behind and it
  decodes nothing an ideal decoder could not.
* The whole. A node's two sides share a flag, every node hears another subset of
  the traffic in another order, and counters are kept at both ends. Correct
  means: a node misses what it must and no more, undisturbed packets arrive, nodes
  that heard the same decode the same, and the success ratio is a ratio. All but the
  first can only be asked of packets whose copies lie within the timeout of the
  buffers, as `csa-buffer.cc` forgets what is older.
* Header, tags and traces. What a receiver knows of a packet comes from whichever
  copy it heard first, through bytes whose number depends on a field among them.
  Correct means: the state it makes is what the sender was given and drew, any `s`
  different fragments are as long as the packet, and both traces name the same
  vehicle.
* Timing. A fragment must fit the slot with the header, the propagation delay
  and truncated microseconds, and the solver must run after it.

`PROJECT.json` lists every hazard with its line and the properties that cover it.

## 2. Modules

| Module | Models | Composed with |
|---|---|---|
| `CsaSender` | abstract: what a node promises as a sender | - |
| `CsaMacTx` | one node's sending side | implements `CsaSender` |
| `CsaMacTxProofs` | proofs about it: invariants, order, refinement, `m_isTx` | extends `CsaMacTx` |
| `CsaDecoder` | abstract: what peeling allows to become known | - |
| `CsaDecoderProofs` | its soundness | extends `CsaDecoder` |
| `CsaReceiver` | one node's receiving side: receive handler, buffers, solver, power tests | implements `CsaDecoder` |
| `CsaReceiverProofs` | proofs about it: invariants, what is decoded, refinement | extends `CsaReceiver`, instantiates `CsaDecoderProofs` |
| `MCReceiver` | constants for TLC and one fixed scenario | extends `CsaReceiver` |
| `CsaCleanSlot` | `CsaSolver::CleanSlot` on one slot, any order of removal | - |
| `CsaCleanSlotProofs` | the order does not matter | extends `CsaCleanSlot`, `CsaSums` |
| `CsaWire` | header, tags, fragments and trace numbers as bytes, from `Enqueue` to `ForwardUp` | - |
| `CsaWireProofs` | proofs about it: the header, packet states, traces, sizes | extends `CsaWire`, `CsaSums` |
| `MCWire` | slot numbers and strategies for TLC | extends `CsaWire` |
| `CsaNetwork` | the simulation: nodes with both sides, channel, traffic, statistics | each node implements `CsaSender` and `CsaDecoder` |
| `CsaNetworkProofs` | proofs about it: every property the runs check | extends `CsaNetwork`, `CsaSums` |
| `MCNetwork` | vehicles, strategies and ranges for TLC | extends `CsaNetwork` |
| `CsaSlotTiming` | a fragment's flight in nanoseconds and the length of a slot | - |
| `CsaSlotTimingProofs` | proofs about it: the length of a slot; event times | extends `CsaSlotTiming` |
| `MCSlotTiming` | the script's rates and strategies | extends `CsaSlotTiming` |
| `CsaSums` | lemmas about sums over finite sets and cardinalities | - |

### CsaMacTx

Time is `<<slot, off>>`, so `GetCurrentSlotNumber` is `slot` and `NextSlotTime`
is zero exactly when `off` is. `events` is the node's part of the event list;
`IsNext` picks the due event with the smallest `uid`, as ns-3 does. Every handler
is one action: `Enqueue` (with its `WakeUp`), `Dequeue` (with `SendPacket`,
`GetNSlots`, `PrepareHeader` and the scheduling of all copies, or with `Sleep`),
`StartSend`, `EndSend`. `Tick` moves the clock when nothing is due. `Enqueue` may
come at any time, also between two events of one time stamp. The geometric draw
is any gap up to `MaxGap`. `air` is a history of what went to the PHY.

### CsaSender

The promise without timers, flags or event order: accepted packets wait in order;
the next is begun only when all copies of the one before are out, in slots later
than any used and all different; copies leave earliest first. `ImplementsSender`
maps `queue` to `waiting`, pending `StartSend` events to `booked` and `air` to
`sent`. A packet the queue drops, a wake-up and an `EndSend` are stuttering steps.
`TxSafety` checks it for one node, `EverySenderIsSender` for each node of the
network.

### CsaReceiver

The senders' behaviour is fixed in `Init`: per packet its slots (increasing, as
`GetNSlots` returns them), `s` and received power. Each packet is from a
different sender. A slot has three phases: fragments arrive in any order,
`StartSolveAtSlot` (2 microseconds before the boundary), `EndSolve` (1 before).
`isTx` is chosen anew for every slot, as far as `TxChoices` allows.

A `PacketState` object is named by its packet and the slot it was made in. A slot
can make at most one object of a packet, so this is the identity of the
`shared_ptr`; a later object of the same packet, made after the first expired,
is a different one, and the old one may live on in the slots it is stored in.
A timer set in slot `b` fires at some moment of slot `b + Timeout`.

The solver is split into the rounds of its loops: `PopSlot` (take the front,
skip future and forgotten slots), `CleanSlot` (one removal; any removable entry,
as the order is that of pointers), `SolveSlot` (credit and `Decode`). While it is
at work no other action is enabled, so `StartSolveAtSlot` with all its rounds is
still one handler, run to its end.

Powers are linear integers in which one percent is whole, and a threshold in dB
is a factor; the comparisons of `IsClear` and `IsDecodable` stay strict.

### CsaDecoder

A set of hearings (packet, slot), the last slot that is over and the packets
known. `Decode` may add any packets, as long as none lies outside a set that
contains what is known and that peeling cannot leave (`Closed`). This is peeling
without an algorithm: no queue, no order, no count. `ImplementsDecoder` maps to
it what the node heard above the noise, `currentSlot` and the decoded states. It
is meant for perfect cancellation and no power solving. One fragment of a packet
is enough for it: with `s` = 1 that is the code's promise; with `s` > 1 the code
keeps within it, but what its counter promises beyond that it does not keep
(section 5).

### CsaCleanSlot

The loop of `CleanSlot` alone. Powers, decoded packets, noise and efficiency are
any of the given values, and any removable entry may be removed first. The
property defines the result without an order: the least set that holds all
decoded packets and everything drowned by the noise its own removal leaves.

### CsaWire

The data the other modules abstract. A header is the sequence of bytes
`Serialize` writes, least significant first, and `Deserialize` reads it back at
positions that depend on the byte `n` inside it. `AddHeader` reserves
`GetSerializedSize` bytes and lets `Serialize` write, `RemoveHeader` takes off
what `GetSerializedSize` says of the header just read, as ns-3 does, so a layout
and a size that disagree are not hidden. Packet tags go beside the bytes;
`ReadSimulationTag` and `ReadCsaTag` are applied wherever the code peeks.
`Enqueue` is the way from the script's socket to the queue, `SendPacket` that of
`Dequeue` to the PHY with all copies at once, `Receive` the making of a
`PacketState`, `ForwardUp` the trace. Receivers hear any subset of the copies, those
of one sender in slot order. Loss and deafness are thereby both "not heard".
States do not expire here: a state made again is made from another copy, and the
runs let every copy be the first somewhere. When the solver calls `ForwardUp` is
`CsaReceiver`'s matter; here any packet with a state may go up at any time, also
after one fragment of several, as in the code (section 5, counting).
`FragmentsCoverPacket` therefore speaks of fragments heard and not of packets handed
up. `accepted`, `drawn`, `air` and `heard` are histories.

The double of a tag is one item, not eight bytes; ns-3's `Buffer`, `Packet` and
`Mac48Address::Allocate` are external and modelled by how they are used.

### CsaNetwork

All nodes with both sides of the MAC, in coarser steps than the two modules
above. `StartSolve` is `StartSolveAtSlot` together with `EndSolve`; `SolveSlot` is
one round of the `Solve` loop, with all of `CleanSlot` in it (`CsaCleanSlot` shows
that its order does not matter), `Credit` and, for a decoded packet, `ForwardUp`. No
other solver starts before a loop has ended, as it is one event. `events` is the one global
list of the simulator, so the order of events at a boundary is the order of
scheduling across nodes. `Send` puts a copy for each other PHY in flight; copies
arrive in any order within the slot, which stands for any placement of the
vehicles (`CsaSlotTiming` shows that they do arrive within it). `inRange` says
whose signals pass `IsClear` at each receiver; weak signals are received and
stored like the others, as in the code. `Traffic` hands down packets of both
categories, `EnqueueCallback` and `ForwardUp` keep the script's counters,
`Psr` is what `WriteOutput` prints. The configuration is the script's default:
perfect cancellation, no power solving.

Both buffers expire. A packet's state has an id: source and sequence number, and, if
the node has made a state of the packet before, the slot in which it makes this one.
`states` keeps all objects made, as a `shared_ptr` in a slot does; `packetBuffer` holds
the ids that `GetPacketState` finds; `slotBuffer` what each slot state holds.
`AddPacketState` sets the timer by the slot it is called in (`born`), and
`DeletePacketState` takes the entry out `Timeout` slots later, at any moment among the
arrivals of that slot, before or after a copy of the same packet. `DeleteSlotState`
forgets a slot `Timeout` slots after it, at any moment among the solvers. The clock does
not pass a timer that is due. So a late copy makes a second state, which the solver can
decode and the script count again, and a late cascade can find its slot gone.

Three properties therefore have conditions, which the code does not enforce: the draw of
slots does not look at `m_timeout`, 500 ms by default and an option of the script.

* `PsrAtMostOne`: the copies of all packets of the category lie within the timeout
  (`WithinTimeout`: less than `Timeout` slots apart). Without it TLC finds a packet that
  one receiver counts twice.
* `UndisturbedIsDelivered`: the copies of this packet do. Without it TLC finds two
  undisturbed copies that are counted in two states.
* `ReceiversAgree`: the copies of all packets do, and neither node has lost a slot with
  signals in it (`forgotten`). The timer of a slot runs from the first signal in it, of
  a weak sender too, so nodes that heard the same strong signals can lose slots in
  different order. Without the first condition, and a timeout of 2, TLC finds two nodes that
  disagree; the second matters only in cascades longer than those of the runs.

`EveryReceiverIsDecoder`, `HearsAllButOwnSlots` and `EverySenderIsSender` hold whatever
expires.

### CsaSlotTiming

Integers are nanoseconds. The slot length, header size and fragment size are
computed as the code does, with the truncation of `MicroSeconds`; the transmission
delay is rounded up. Two senders with any strategies, distances, hand-down times
and draws send one fragment each; the earliest event runs next. UDP and IP add 28
bytes, which is outside `src/` and a constant.

## 3. Runs

| Run | Bounds | Result |
|---|---|---|
| `TxSafety` | queue of 2, 3 packets, 3 copies, gaps 0-1, 2 ticks per slot | the invariants hold, every accepted packet is sent, and the node implements `CsaSender` |
| `TxHalfDuplex` | 2 packets, 2 copies | violated, see section 5 |
| `TxTrace` | queue of 1 | violated, see section 5 |
| `RxPeeling` | 3 packets, 2 copies in slots 1-4 (every choice), timeout 3, any slot may be deaf | holds, and the node implements `CsaDecoder`; spans of 1 to 3 slots, so packets below and at the timeout both occur |
| `RxFragments` | 3 packets, 3 copies in slots 1-7 within 5 slots, `s` = 2, timeout 5 | holds; seven slots, so that a decoded packet frees a second one before its third copy |
| `RxCapture` | 3 packets, two power levels, strategies (3,2) and (2,1), 95 % cancellation, ratio 3 | holds, and the solver ends |
| `RxCount` | one scenario of strategies (3,2) and (4,2) | violated, see section 5 |
| `SlotTiming` | 8 rates, 6 sizes from 8 to 39735 bits, 3 strategies, 0 and 1001 ns | holds |
| `CleanSlot` | 4 packets, 4 powers, 2 noise levels, 3 efficiencies | the order never matters |
| `NetMixed` | 2 senders with (2,1) or (3,2), a listener, 2 packets in all of 2 categories, queue of 1, gaps 0-1, timeout 3, traffic in slot 1 or, up to slot 5, for a node that has fallen asleep again, one node possibly out of range | holds; each node implements `CsaSender` and `CsaDecoder`; 837,276 states |
| `NetAgree` | 4 nodes, 3 of them sending one packet each, timeout 3, one possibly weak at the listener | holds; each node implements `CsaDecoder`; 782,600 states |
| `Wire` | 2 vehicles with addresses 1 and 257, 2 packets of 328 or 29 bytes, strategies (3,2) and (4,2), slots on both sides of each byte boundary, first sequence number 255, queue of 1 | holds; 369,060 states |

`RxFragments` and `RxCapture` check fewer properties than `RxPeeling`: those whose
answer can depend on `s`, on capture or on noise.

Why the bounds are enough to be interesting. Sending: with gaps 0 and 1, copies
are adjacent or apart, packets follow each other directly or not, and a queue of
2 with 3 packets overflows; two ticks give hand-downs on and off the boundary.
Receiving: three packets are the fewest for which one cascade step frees another
packet; four slots hold cascades of length three. In `RxCapture` the powers are
chosen so that the strong packet is captured over one weak one but not over two,
and the residue of one strong packet leaves the weak one above the threshold
while the residue of two drowns it. `SlotTiming` covers each rate of `csaRates`,
the smallest packet, the largest that fits the MTU of 5000 bytes, and sizes that
do not divide evenly. Network: three senders make collisions of three, slots in
which a node sends while two others collide, and adjacent copies with the flag
lost; four nodes give two that hear the same while the other two send. Nodes at
a boundary wake up in one order and send in another. A queue of 1 with 2 packets
at one node overflows. A timeout of 3 slots lies above the span of two copies
and below that of some with three, so packets meet their timer in the slot it
fires, before or after a copy, are handed up twice, and slots are lost. A node
that has sent its packet falls asleep and is woken by a second one. `MixedSpec`
(`MCNetwork`) names two more bounds of `NetMixed`: the listener's strategy,
which it never uses, does not vary, and late packets come to sleeping nodes
only. Wire: the two addresses differ only in the high byte, the second packet of
a node has a sequence number past one byte, 29 is odd, and the two strategies
make headers of different length; any subset of the copies is heard, so each
copy is the first somewhere.

`CHECK_DEADLOCK FALSE` is set throughout because the models stop at their bounds:
no more packets, or all timers gone.

Fairness. `CsaMacTx` assumes weak fairness of what the simulator runs by itself
(due events and the clock), never of `Enqueue`. `CsaReceiver` assumes weak
fairness of `Next`. Both say only that `Simulator::Run` goes on while events are
pending. The script stops the simulation after ten seconds; the liveness results
speak of a run that is not cut off.

## 4. Proofs

Every theorem below holds for every value of the constants that satisfies the
module's assumption, plus what the theorem itself assumes.

**Sending.** `CsaMacTxProofs` proves `TypeOK`, `WakeUpSafe`, `OneFragmentPerSlot`,
`ScheduleSafe` and `SentInHeaderSlot`. The inductive invariant `TxInv` is their
conjunction. `OneFragmentPerSlot` is not inductive: that new copies meet neither
old nor pending ones needs the order of the timers (`ScheduleSafe`), and that a
`Dequeue` finds no copy pending needs that there is one `Dequeue` only
(`WakeUpSafe`). All conjuncts are invariants of `TxSafety`. The only assumption is
`TxAssumption` (the constants are naturals, at least one copy, at least two ticks).

`OrderInv` adds: packets are numbered in the order they came, pending copies are of
one packet, which is earlier than all that is queued, and on air later slots are of
later or the same packet. From it follow `SeqNosNamePackets` and, action by action,
`MacImplementsSender`: `Enqueue` is `Accept` or a stutter, `Dequeue` is `Begin` or a
stutter, `StartSend` is `Put`.

`FlagIsExact` in the same module proves `TxFlagExact`. Where the `EndSend` of a slot
meets the `StartSend` of the next, the outcome depends on which uid is smaller.
`FlagInv` says: `StartSend` has the smaller one if both slots are of one packet,
because `SendPacket` scheduled it before the first copy went out; otherwise
`EndSend` has, because the next packet was dequeued later.

**Receiving.** `CsaReceiverProofs` proves `TypeOK`, `PeelingComplete`,
`HeardSlotsSolved`, `AtMostOnce` and `TimersMatchBuffers` for every set of packets,
every strategy, power, threshold, efficiency and timeout, with and without power
solving. The inductive invariant `RxInv` adds to them

* `ClockInv`: the solver is behind or at the current slot, and rests while
  fragments arrive;
* `AskInv`: pending solver events belong to the current slot, and the request
  flag is set exactly while `EndSolve` is pending. This is what makes
  `HeardSlotsSolved` inductive;
* `ContentsInv`: what a slot holds was sent in it and heard there. It is why the
  slots `Decode` puts on the queue are all the slots the packet can block;
* `PeelInv`: at every moment, also in the middle of a cascade, a solved slot is
  peeled, queued, or the one at work. `PeelingComplete` is the case of an empty
  queue. A fragment credited without decoding its packet disturbs no other slot
  (`Removable` looks at `IsDecoded` only), and one that does queues every slot
  that holds the packet;
* `IdentityInv`: two states of one packet whose copies span less than the timeout
  are the same, because the first one is still buffered when any copy arrives; a
  state is handed up exactly when it is decoded.

The assumption is `RxAssumption` (the types of the constants, a timeout of at
least one slot).

With perfect cancellation (`Efficiency = 100`, the default of the code) `CancelInv`
is added: the noise stays what it was, a slot still buffered holds every audible
fragment that is not decoded, and no state has been credited fewer times than it has
credited slots. `DecodesAll` follows: a slot that shows a packet to an ideal decoder
holds no other, was peeled, and so credited it. No induction over the cascade is
needed, because the invariant speaks of the state the cascade leaves. Without power
solving, `ReceiverImplementsDecoder` shows each round of the solver to be a step or a
stutter of `CsaDecoder`, for every `s`: whoever knows the packets taken out of a
cleaned slot finds the one that is left. `DecoderIsSound` (`CsaDecoderProofs`) proves
there that what is known lies in every closed set; `DecodesOnly` follows from the two.

**Order of cleaning.** `OrderDoesNotMatter` (`CsaCleanSlotProofs`) says that what
`CleanSlot` takes out, and the noise it leaves, is the same for every order of the
entries. The invariant `CleanInv` says that all taken out so far is in each set that can
be taken out for good (`Stable`), and that the noise is the sum of the residues. When
nothing more is removable, the set taken out is itself stable, so it is the least. That
noise only grows with the set is a fact about sums over finite sets; `CsaSums` proves
such facts by the induction that the library states for sets of numbers (a set of
naturals that holds 0 and every successor holds all), which needs no operator as
parameter.

**Header.** `CsaWireProofs` proves `HeaderRoundTrip`: for every header whose fields
fit their width and every payload, `RemoveHeader` after `AddHeader` gives both back.
Its parts say of each field where its bytes lie (`InPlace`) and that the reader at
that place returns it; the slots are one lemma for an arbitrary index.
For the system, `WireInv` says which packet of the sender each fragment on air and each
state stands for: the i-th accepted is the i-th sent, under the i-th number, and the
queue holds the rest in order. From it come `HeadersComeOff` and `StatesAreAsSent`.
`FragmentsDoCover` adds that any `s` fragments of one packet that a node heard, each of
the size divided by `s` and rounded up, carry the packet. `TracesDoAgree` adds
`TraceInv`, which follows the address from `Enqueue` to both traces; that two vehicles
have two numbers there rests on addresses of less than 2^16, as `Mac48Address::Allocate`
counts them. `WireAssumption` says that addresses, sizes, strategies, slots and sequence
numbers fit their fields.

**Slot length.** `CsaSlotTimingProofs` proves `NotCrossingSlots`, `NoLateArrival` and
`SolverSeesAll` for every packet size and any number of senders. `FragmentFits` is the
arithmetic: the 85 bytes and 3 microseconds of `slotDuration()` pay for a header of at
most 56 bytes, the stack's 28 bytes shared by the fragments, the rounding up of the
fragment and the two truncations of `MicroSeconds`, and leave the propagation delay and
the solver's two microseconds. The inductive invariant `IInv` gives the time of each
fragment's next event, the time of each solver, and that no event is left that comes
before a solver that has run. `TimingAssumption` is what the script and `csaRates` give:
at most 27 Mbps and 1001 ns of propagation, at least two fragments for one packet, at
most seven copies, and no strategy with fewer fragments than the first, whose `s` sizes
the slot.

**Network.** `CsaNetworkProofs` proves all seven properties of `CsaNetwork`, for every
number of nodes, every range, strategy, queue size, gap, timeout and traffic. The only
assumption is `NetAssumption` (finitely many nodes and categories, `n` and `s` at least
one, a timeout of at least one slot); the conditions of three of the properties are part
of their statements (section 2). TLC checked each invariant before it was proved. The
inductive invariant `Inv` has these parts.

* `MacInv`, per node: no event is overdue; a node is awake exactly while it has one
  `Dequeue` to come; the copies to come are of one packet, the last taken, and are sent
  before the next `Dequeue`; no two fragments of a node share a slot. All nodes share
  the list of events, so each action is first shown to leave alone what the others have
  in it.
* `FlagInv`: of `StartSend` and `EndSend` of a node due in one slot, the first was
  scheduled earlier exactly if both are of one packet. This decides what `m_isTx` is when
  the events of the boundary have run, and `HearInv` says what follows: each fragment on
  air is in flight to a node, or the node has heard it, unless its flag was set.
  `HearsInTheEnd` is the case of a slot that is over.
* `RxInv`, per node, in two parts. `BufferInv`: the states are those of packets heard;
  what is decoded has been delivered, each state once; and a strong signal stays in its
  slot until its packet is decoded or the slot is lost. The last clause makes peeling
  work: a slot still there is lacking no strong signal but decoded ones, so a round can
  take a packet for the only one left only if all others of the slot are known.
  `TimerInv`: a state is in the buffer until its timer is due, and a packet whose copies
  lie within the timeout has one state, under its key, because each later copy finds
  the first. From `BufferInv` `ReceiversAreDecoders` shows a round to be a
  `Decode` of `CsaDecoder`, for every node and every `s`.
* `QueueInv`: the bound of the queue. With the rest it gives `TypeCorrect`.

Four theorems need more than `Inv`.

* `SendersAreSenders`: `TrafficInv` bounds the sequence numbers by the packets handed
  down. Each event of a node is a step of its abstract sender and a stutter of all others.
* `RatioIsRatio`: `SentInv` counts, for each node and category, the sequence numbers on
  air, to come and queued, and bounds them by the counter of the sender; `RxCountInv`
  says that the counter of a pair is the number of states delivered, in a category whose
  copies lie within the timeout. There a packet has one state (`TimerInv`), so the first
  are a superset of the second, and the sums over all pairs follow (`SumOfRows`).
* `UndisturbedArrives`: `CountInv` says that the state of an undecoded packet whose
  copies lie within the timeout has been counted at least once for each slot that is
  over and in which the node had the fragment to itself. A slot is solved at its end,
  before its timer, so `s` of them are enough.
* `ReceiversDoAgree`: two solvers do not run in step, and one node may be asked to solve
  a slot in which only it heard a weak signal. `View` is what a solver works with, the
  strong signals alone; `SolveIsRound` shows that a round makes of it a function of it,
  `Round`. `PairInv` says that of two nodes with the same strong signals one is where
  the other will come to (`Reaches`); when both rest, neither can move, so they are in
  the same place. A node that loses a slot leaves the claim, as does everything once
  copies of a packet lie further apart than the timeout. `Reaches` is membership in
  every set closed under `Round`, so that no induction over the number of rounds is
  needed. Between the solvers, `FreshInv` and `PastView` say that what came in during a
  slot does not touch what earlier slots left.

Model-checked only: liveness (`AcceptedIsSent`, `SolverTerminates`); fairness and
`ENABLED` are outside the prover's reach. Every other property of a passing run is a
theorem. The three properties that runs refute are not, of course.

## 5. Where the code departs from its intent

* Half duplex (`csa-mac.cc:269`). If a packet draws adjacent slots, the `EndSend`
  of the first and the `StartSend` of the second are due at the same time, and
  `StartSend` was scheduled first. It runs first, so `EndSend` clears `m_isTx`
  at the start of a slot the node sends in, and the node receives in that slot.
  `TxFlagExact` says exactly when this happens: it holds in `TxSafety`.
* Trace (`csa-mac.cc:202`). `EnqueueCb`, "Fired when a packet is Enqueued", also
  fires for packets the full queue drops.
* Counting (`csa-solver.cc:48`). `RxCount`: slots 3 and 4 hold packets a and b,
  slot 4 also c. The copy of a in slot 5 decodes a; slot 3 then yields b; both
  put slot 4 on the queue, and slot 4 is credited to c twice. c is decoded with
  `s` = 2 from one fragment. So with `s` > 1 the decoder is complete
  (`DecodesAllDecodable` holds) but decodes more than `s` fragments of each packet
  allow, though never more than one of each would (`DecodesOnly`); with `s` = 1 it
  is complete and sound.
* `ForwardUp` only traces: the call to the net device is commented out
  (`csa-mac.cc:345`), and no packet reaches the stack. No document says it does.

## 6. Not modelled, and the plan

Left out for good: logging, attribute accessors, `Print`, the sums of delays, the
verbose file and the command line of the script, the probabilities of `SetStrategy`,
32-bit wrap-around of slot and sequence numbers (a run lasts ten seconds), the
real arithmetic of propagation models (any received power is an input).

Plan, in order of importance:

1. `CsaMacTx`, `CsaReceiver`, their proofs, `CsaSlotTiming`, `CsaCleanSlot` and
   `CsaNetwork` (done).
2. The abstract decoder and sender, with the refinements and their proofs (done).
3. `CsaWire`: header, tags and traces as data, with the proofs (done).
4. Proofs of `TxFlagExact` and of the length of a slot (done).
5. Proofs of the order of `CleanSlot`, of traces and sizes, and of all properties of
   `CsaNetwork` (done).
6. Expiry of states and slots in `CsaNetwork`, in the model and in all its proofs (done).
