------------------------------ MODULE CsaWire ------------------------------
(***************************************************************************)
(* What a packet says about itself on its way from CsaMac::Enqueue of one  *)
(* node to CsaMac::ForwardUp of another: the tags, the header as bytes,    *)
(* the fragments and the identifiers in the traces.                        *)
(*                                                                         *)
(* When the handlers run is the matter of CsaMacTx and CsaReceiver.  Here  *)
(* a node sends the fragments of a packet at once, and each receiver gets  *)
(* any of them, those of one sender in the order of their slots.           *)
(***************************************************************************)
EXTENDS Naturals, Sequences, FiniteSets, FiniteSetsExt

CONSTANTS
  Nodes,       \* the vehicles, as numbers in the order of Mac48Address::Allocate
  Tids,        \* access categories of the traffic
  Sizes,       \* packet sizes, in bytes
  Strategies,  \* the records [n, s] of the script
  Draws,       \* bound: the slot vectors GetNSlots is explored with
  QueueSize,   \* m_queueSize
  FirstSeqNo,  \* the packets each node has sent before
  MaxPackets   \* bound: packets handed down in all

\* What one, two and four bytes can hold (TLC has no number of 32 bits).
Byte == {x \in Nat : x < 256}
Half == {x \in Nat : x < 65536}
Word == {x \in Nat : x \div 65536 < 65536}

ASSUME WireAssumption ==
  /\ Nodes \subseteq Half
  /\ Sizes \subseteq Word
  /\ Strategies \subseteq [n : Byte, s : Byte \ {0}]
  /\ Draws \subseteq Seq(Word)
  /\ FirstSeqNo \in Nat /\ MaxPackets \in Nat
  /\ FirstSeqNo + MaxPackets \in Word

VARIABLES
  strategy,  \* m_n and m_s of each node
  queue,     \* m_queue of each node
  seqNo,     \* m_seqNo of each node
  states,    \* m_packetStateBuffer of each node, by source and seqNo
  txTrace,   \* calls of m_enqueueTrace, with the node
  rxTrace,   \* calls of m_receiveTrace, with the key of the state
  accepted,  \* history: the packets each node's queue accepted
  drawn,     \* history: the slots of each packet sent
  air,       \* history: the fragments sent
  heard      \* history: the fragments each node received

vars == <<strategy, queue, seqNo, states, txTrace, rxTrace, accepted, drawn,
          air, heard>>

-----------------------------------------------------------------------------
(* Bytes *)

\* Two and four bytes, the low ones first.
U16(x) == <<x % 256, x \div 256>>
U32(x) == U16(x % 65536) \o U16(x \div 65536)

GetU16(b, i) == b[i] + 256 * b[i+1]
GetU32(b, i) == GetU16(b, i) + 65536 * GetU16(b, i+2)

\* The address Mac48Address::Allocate gives to the v-th device.
Address(v) == <<0, 0, 0, 0, v \div 256, v % 256>>
Broadcast == <<255, 255, 255, 255, 255, 255>>

Ipv4 == 2048  \* the protocol number of all traffic

-----------------------------------------------------------------------------
(* CsaHeader *)

SlotBytes(h) ==
  [j \in 1..4 * h.n |-> U32(h.allSlots[(j + 3) \div 4])[1 + ((j + 3) % 4)]]

\* The fields in front of the slots.
FixedBytes(h) ==
  h.source \o h.dest \o U16(h.protocol) \o U32(h.seqNo) \o U32(h.length)
    \o <<h.s, h.n>>

Serialize(h) == FixedBytes(h) \o SlotBytes(h) \o U32(h.currentSlot)

\* Mutant: the destination is read before the source.
DeserializeDestFirst(b) ==
  [source |-> SubSeq(b, 7, 12), dest |-> SubSeq(b, 1, 6),
   protocol |-> GetU16(b, 13),
   seqNo |-> GetU32(b, 15), length |-> GetU32(b, 19), s |-> b[23], n |-> b[24],
   allSlots |-> [i \in 1..b[24] |-> GetU32(b, 21 + 4 * i)],
   currentSlot |-> GetU32(b, 25 + 4 * b[24])]

Deserialize(b) ==
  [source |-> SubSeq(b, 1, 6), dest |-> SubSeq(b, 7, 12),
   protocol |-> GetU16(b, 13),
   seqNo |-> GetU32(b, 15), length |-> GetU32(b, 19), s |-> b[23], n |-> b[24],
   allSlots |-> [i \in 1..b[24] |-> GetU32(b, 21 + 4 * i)],
   currentSlot |-> GetU32(b, 25 + 4 * b[24])]

\* Mutant: the slots are not counted.
SizeNoSlots(h) == 6 + 6 + 2 + 4 + 4 + 1 + 1 + 4

GetSerializedSize(h) == 6 + 6 + 2 + 4 + 4 + 1 + 1 + 4 * h.n + 4

\* Room for a header is made in front, and Serialize writes from the start.
AddHeader(h, payload) ==
  LET size == GetSerializedSize(h)  w == Serialize(h)
  IN [i \in 1..(size + Len(payload)) |->
        IF i <= Len(w) THEN w[i] ELSE payload[i - size]]

\* Deserialize reads from the start and says how much comes off.
RemoveHeader(b) ==
  LET h == Deserialize(b)
  IN [header |-> h, rest |-> SubSeq(b, GetSerializedSize(h) + 1, Len(b))]

-----------------------------------------------------------------------------
(* CsaTag and SimulationTag, as packet tags; a double is written as a whole *)

WriteCsaTag(t) == t.dest \o U16(t.protocol)
ReadCsaTag(b) == [dest |-> SubSeq(b, 1, 6), protocol |-> GetU16(b, 7)]

WriteSimulationTag(t) == <<t.tid, t.txTime>>
ReadSimulationTag(b) == [tid |-> b[1], txTime |-> b[2]]

-----------------------------------------------------------------------------
(* CsaMac, sending *)

\* Mutant: only the last byte of the address.
SenderIdByte(a) == a[6]

\* What Enqueue and ForwardUp take for the number of a vehicle.
SenderId(a) == a[5] * 256 + a[6]

Now == Len(txTrace)

\* The script's packet of category t goes through the stack to CsaNetDevice::Send
\* and CsaMac::Enqueue, which adds a tag, sets the time in the other and traces.
Enqueue(v, t, size) ==
  /\ Len(txTrace) < MaxPackets
  /\ LET csaTag == [dest |-> Broadcast, protocol |-> Ipv4]
         scriptTag == WriteSimulationTag([tid |-> t, txTime |-> 0])
         simTag == [ReadSimulationTag(scriptTag) EXCEPT !.txTime = Now]
         p == [size |-> size, csa |-> WriteCsaTag(csaTag),
               sim |-> WriteSimulationTag(simTag)]
     IN /\ txTrace' = Append(txTrace, [sender |-> SenderId(Address(v)),
                                       tid |-> simTag.tid, time |-> Now,
                                       node |-> v])
        /\ IF Len(queue[v]) < QueueSize
             THEN /\ queue' = [queue EXCEPT ![v] = Append(@, p)]
                  /\ accepted' = [accepted EXCEPT ![v] =
                       Append(@, [size |-> size, tid |-> t, time |-> Now])]
             ELSE UNCHANGED <<queue, accepted>>
  /\ UNCHANGED <<strategy, seqNo, states, rxTrace, drawn, air, heard>>

PrepareHeader(v, p, allSlots) ==
  LET tag == ReadCsaTag(p.csa)
  IN [source |-> Address(v), dest |-> tag.dest, protocol |-> tag.protocol,
      seqNo |-> seqNo[v], length |-> p.size,
      s |-> strategy[v].s, n |-> strategy[v].n, allSlots |-> allSlots,
      currentSlot |-> 0]

\* Mutant: the last part of a packet is cut off.
FragSizeFloor(size, s) == size \div s

\* The size of one of s parts of a packet.
FragSize(size, s) == size \div s + (IF size % s # 0 THEN 1 ELSE 0)

\* Create<Packet>: a packet of zeros.
Zeros(n) == [i \in 1..n |-> 0]

\* The copies of p in the slots of its header.
Fragments(v, p, header) ==
  LET base == Zeros(FragSize(p.size, strategy[v].s))
      sim == WriteSimulationTag(ReadSimulationTag(p.sim))
  IN {[from |-> v, slot |-> x, payload |-> base, sim |-> sim,
       bytes |-> AddHeader([header EXCEPT !.currentSlot = x], base)] :
        x \in {header.allSlots[i] : i \in 1..header.n}}

\* Dequeue of a queued packet; slots are later than those of packets before.
SendPacket(v) ==
  /\ queue[v] # <<>>
  /\ \E s \in Draws :
       /\ Len(s) = strategy[v].n
       /\ \A f \in air : f.from = v => f.slot < s[1]
       /\ air' = air \cup
            Fragments(v, Head(queue[v]), PrepareHeader(v, Head(queue[v]), s))
       /\ drawn' = [drawn EXCEPT ![v] = Append(@, s)]
  /\ queue' = [queue EXCEPT ![v] = Tail(@)]
  /\ seqNo' = [seqNo EXCEPT ![v] = @ + 1]
  /\ UNCHANGED <<strategy, states, txTrace, rxTrace, accepted, heard>>

-----------------------------------------------------------------------------
(* CsaMac, receiving *)

Key(header) == <<header.source, header.seqNo>>

\* The constructor from a header, and what AddPacketState takes from the tag.
PacketState(header, tag) ==
  [source |-> header.source, dest |-> header.dest, protocol |-> header.protocol,
   seqNo |-> header.seqNo, length |-> header.length, s |-> header.s,
   n |-> header.n, allSlots |-> header.allSlots,
   tid |-> tag.tid, txTime |-> tag.txTime]

\* The first fragment to come in makes the state of its packet.
Receive(r, f) ==
  /\ f.from # r
  /\ \A g \in heard[r] : g.from = f.from => g.slot < f.slot
  /\ heard' = [heard EXCEPT ![r] = @ \cup {f}]
  /\ LET header == RemoveHeader(f.bytes).header  k == Key(header) IN
       states' = IF k \in DOMAIN states[r] THEN states
                 ELSE [states EXCEPT ![r] =
                         [l \in DOMAIN @ \cup {k} |->
                            IF l = k
                              THEN PacketState(header, ReadSimulationTag(f.sim))
                              ELSE @[l]]]
  /\ UNCHANGED <<strategy, queue, seqNo, txTrace, rxTrace, accepted, drawn, air>>

\* What ForwardUp traces of a packet. When the solver has it traced, and how
\* often, is CsaReceiver's matter: here any packet that has a state may go up.
ForwardUp(r, k) ==
  /\ LET p == states[r][k] IN
       rxTrace' = rxTrace \cup
         {[sender |-> SenderId(p.source), receiver |-> SenderId(Address(r)),
           tid |-> p.tid, txTime |-> p.txTime, at |-> r, key |-> k]}
  /\ UNCHANGED <<strategy, queue, seqNo, states, txTrace, accepted, drawn, air,
                 heard>>

-----------------------------------------------------------------------------

Init ==
  /\ strategy \in [Nodes -> Strategies]
  /\ queue = [v \in Nodes |-> <<>>]
  /\ seqNo = [v \in Nodes |-> FirstSeqNo]
  /\ states = [r \in Nodes |-> <<>>]
  /\ txTrace = <<>> /\ rxTrace = {}
  /\ accepted = [v \in Nodes |-> <<>>] /\ drawn = [v \in Nodes |-> <<>>]
  /\ air = {} /\ heard = [r \in Nodes |-> {}]

Next ==
  \/ \E v \in Nodes, t \in Tids, size \in Sizes : Enqueue(v, t, size)
  \/ \E v \in Nodes : SendPacket(v)
  \/ \E r \in Nodes, f \in air : Receive(r, f)
  \/ \E r \in Nodes : \E k \in DOMAIN states[r] : ForwardUp(r, k)

Spec == Init /\ [][Next]_vars

-----------------------------------------------------------------------------
(* Properties *)

\* Whichever copy of a packet comes in first, the state it makes has what the
\* sender was given and drew for that packet, and no other: bytes, tags, queue
\* and sequence number keep together.
StateIsAsSent ==
  \A r \in Nodes : \A k \in DOMAIN states[r] : \E v \in Nodes \ {r} :
    LET p == states[r][k]  i == p.seqNo - FirstSeqNo + 1 IN
      /\ k = <<Address(v), p.seqNo>> /\ p.source = Address(v)
      /\ p.dest = Broadcast /\ p.protocol = Ipv4
      /\ p.s = strategy[v].s /\ p.n = strategy[v].n
      /\ p.allSlots = drawn[v][i]
      /\ p.length = accepted[v][i].size
      /\ p.tid = accepted[v][i].tid /\ p.txTime = accepted[v][i].time

\* The header comes off whole, for every number of slots in it: what is left is
\* the fragment, and it says the slot it was sent in, as CsaMac::Receive asserts.
HeaderComesOff ==
  \A f \in air :
    LET res == RemoveHeader(f.bytes)
    IN res.rest = f.payload /\ res.header.currentSlot = f.slot

\* The fragments of the packet with key k that r heard.
HeardOf(r, k) == {f \in heard[r] : Key(RemoveHeader(f.bytes).header) = k}

\* s fragments of a packet, the number the solver decodes it with, carry at least
\* as many bytes as the packet has, whatever its size and whichever they are.
FragmentsCoverPacket ==
  \A r \in Nodes : \A k \in DOMAIN states[r] :
    Cardinality(HeardOf(r, k)) >= states[r][k].s =>
      MapThenSumSet(LAMBDA f : Len(RemoveHeader(f.bytes).rest), HeardOf(r, k))
        >= states[r][k].length

\* Both traces of a packet name it alike, and no two vehicles alike: the script
\* pairs its counters and delays by these numbers.
TracesAgree ==
  LET calls == {txTrace[i] : i \in DOMAIN txTrace} IN
    /\ \A c, d \in calls : c.sender = d.sender => c.node = d.node
    /\ \A t \in rxTrace :
         /\ t.sender # t.receiver
         /\ \E c \in calls : /\ c.sender = t.sender /\ c.tid = t.tid
                             /\ c.time = t.txTime
                             /\ Address(c.node) = t.key[1]

=============================================================================
