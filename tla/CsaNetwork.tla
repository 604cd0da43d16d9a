----------------------------- MODULE CsaNetwork -----------------------------
(***************************************************************************)
(* The simulation as a whole: nodes with both sides of CsaMac on one       *)
(* CsaChannel, the traffic of the script and the statistics it prints.     *)
(*                                                                         *)
(* Modelled is the script's default configuration (efficiency 1, no power  *)
(* solving): a signal either is above the threshold of a receiver or is    *)
(* not.                                                                    *)
(*                                                                         *)
(* A slot has three phases: events due at its boundary, in the order they  *)
(* were scheduled; fragments in flight, which arrive in any order; and the *)
(* solvers, one node's after the other's.  EndSolve, a microsecond after   *)
(* StartSolveAtSlot, is part of that step: nothing reads the request flag  *)
(* between them.  An expiry timer set in slot b fires at some moment of    *)
(* slot b + Timeout: that of a packet state among the arrivals, the only   *)
(* ones to look it up, that of a slot state among the solvers.             *)
(***************************************************************************)
EXTENDS Naturals, Sequences, FiniteSets, SequencesExt

CONSTANTS
  Nodes,
  Talkers,     \* bound: the nodes with traffic
  Tids,        \* access categories of the traffic
  Strategies,  \* the records [n, s] of the script
  Ranges,      \* for each node, the nodes it may receive strongly enough
  QueueSize,   \* m_queueSize
  Timeout,     \* m_timeout, in slots
  MaxGap,      \* bound: the largest value GetGeometricValue draws
  MaxPackets,  \* bound: packets handed to a node
  MaxTotal,    \* bound: packets handed to all nodes
  LastEnqueue  \* bound: the last slot in which packets are handed down

ASSUME NetAssumption ==
  /\ IsFiniteSet(Nodes) /\ Talkers \subseteq Nodes /\ IsFiniteSet(Tids)
  /\ \A k \in Strategies : k.n \in Nat \ {0} /\ k.s \in Nat \ {0}
  /\ Ranges \subseteq [Nodes -> SUBSET Nodes]
  /\ Timeout \in Nat \ {0}
  /\ {QueueSize, MaxGap, MaxPackets, MaxTotal, LastEnqueue} \subseteq Nat

VARIABLES
  slot, phase,   \* Simulator::Now()
  strategy,      \* m_n and m_s of each node
  inRange,       \* whose signals each node receives above the threshold
  events,        \* events of slot boundaries, in the order of scheduling
  queue,         \* m_queue of each node, of the packets' tids
  isSleeping,    \* m_isSleeping of each node
  isTx,          \* m_isTx of each node
  seqNo,         \* m_seqNo of each node
  inFlight,      \* pending CsaPhy::Receive and CsaMac::Receive
  states,        \* the PacketState objects each node made, by their ids
  packetBuffer,  \* m_packetBuffer of each node: ids of the states in it
  slotBuffer,    \* m_slotBuffer of each node: slot and id of what it holds
  solvingAsked,  \* the nodes whose m_solvingAsked is set
  active,        \* m_activeSlotQueue of each node
  txCount,       \* g_voTxCount and g_viTxCount
  rxCount,       \* g_voRxCount and g_viRxCount
  air,           \* history: all fragments sent
  heard,         \* history: the fragments each node received
  delivered,     \* history: ids of the states passed to ForwardUp, in order
  forgotten      \* history: the nodes that lost a slot with signals in it

clockVars == <<slot, phase, strategy, inRange>>
macVars == <<events, queue, isSleeping, isTx, seqNo>>
rxVars == <<states, packetBuffer, slotBuffer, solvingAsked, active, heard,
            forgotten>>
vars == <<clockVars, macVars, inFlight, rxVars, txCount, rxCount, air,
          delivered>>

-----------------------------------------------------------------------------
(* Events *)

\* What the header and the tag of a packet's fragments say.
Packet(v, n, t, allSlots, s) ==
  [src |-> v, seq |-> n, tid |-> t, allSlots |-> allSlots, s |-> s]

NoPacket == <<>>

Event(op, v, at, p) == [op |-> op, node |-> v, at |-> at, pkt |-> p]

\* The place of the event that runs next, 0 if none is due.
NextEvent == SelectInSeq(events, LAMBDA e : e.at = slot)

\* The event op of v runs, and evs are scheduled.
Runs(op, v, evs) ==
  /\ phase = "boundary" /\ NextEvent # 0
  /\ events[NextEvent].op = op /\ events[NextEvent].node = v
  /\ events' = RemoveAt(events, NextEvent) \o evs

-----------------------------------------------------------------------------
(* CsaMac, sending *)

\* The slot that begins at Now() + NextSlotTime().
NextSlot == IF phase = "boundary" THEN slot ELSE slot + 1

\* The vectors GetNSlots can return for n copies.
GetNSlots(n) ==
  {s \in [1..n -> slot..(slot + n * (MaxGap + 1))] :
     /\ s[1] - slot <= MaxGap
     /\ \A i, j \in 1..n : i < j => s[i] < s[j]
     /\ \A i \in 2..n : s[i] - s[i-1] <= MaxGap + 1}

\* Mutant: the queue takes one packet too many.
HasRoomOver(v) == Len(queue[v]) <= QueueSize

\* m_queue->Enqueue succeeds.
HasRoom(v) == Len(queue[v]) < QueueSize

EnqueueCallback(v, t) == txCount' = [txCount EXCEPT ![v][t] = @ + 1]

\* Mutant: every packet starts the Dequeue loop anew.
WakeUpAlways(v) == <<Event("Dequeue", v, NextSlot, NoPacket)>>

\* Enqueue schedules Dequeue only for a node that sleeps.
WakeUp(v) ==
  IF isSleeping[v] THEN <<Event("Dequeue", v, NextSlot, NoPacket)>> ELSE <<>>

\* CsaNetDevice::Send and CsaMac::Enqueue, which traces the packet before the
\* queue decides.
Enqueue(v, t) ==
  /\ EnqueueCallback(v, t)
  /\ IF HasRoom(v)
       THEN /\ queue' = [queue EXCEPT ![v] = Append(@, t)]
            /\ isSleeping' = [isSleeping EXCEPT ![v] = FALSE]
            /\ events' = events \o WakeUp(v)
       ELSE UNCHANGED <<queue, isSleeping, events>>
  /\ UNCHANGED <<clockVars, isTx, seqNo, inFlight, rxVars, rxCount, air,
                 delivered>>

\* ScheduleNextPoisson and ScheduleNextDeterministic of v.  A packet handed down
\* in the last microseconds of a slot is as good as one earlier in it.
Traffic(v) ==
  /\ phase \in {"boundary", "flight"} /\ slot <= LastEnqueue
  /\ SumFunction(txCount[v]) < MaxPackets
  /\ SumFunction([w \in Nodes |-> SumFunction(txCount[w])]) < MaxTotal
  /\ \E t \in Tids : Enqueue(v, t)

\* Dequeue sends the packet at the front, or the node falls asleep.
Dequeue(v) ==
  /\ \/ /\ queue[v] = <<>>
        /\ Runs("Dequeue", v, <<>>)
        /\ isSleeping' = [isSleeping EXCEPT ![v] = TRUE]
        /\ UNCHANGED <<queue, seqNo>>
     \/ /\ queue[v] # <<>>
        /\ LET n == strategy[v].n IN
           \E s \in GetNSlots(n) :
             LET p == Packet(v, seqNo[v], Head(queue[v]), s, strategy[v].s)
             IN Runs("Dequeue", v,
                     [i \in 1..n |-> Event("StartSend", v, s[i], p)]
                       \o <<Event("Dequeue", v, s[n] + 1, NoPacket)>>)
        /\ queue' = [queue EXCEPT ![v] = Tail(@)]
        /\ seqNo' = [seqNo EXCEPT ![v] = @ + 1]
        /\ UNCHANGED isSleeping
  /\ UNCHANGED <<clockVars, isTx, inFlight, rxVars, txCount, rxCount, air,
                 delivered>>

\* CsaChannel::Send: a copy for every PHY but the sender's.
Send(v, f) == {[to |-> r, frag |-> f] : r \in Nodes \ {v}}

\* Mutant: EndSend comes a slot late.
EndSendSlotLate == slot + 2

\* When the fragment's transmission, of one slot, ends.
EndSendSlot == slot + 1

StartSend(v) ==
  /\ Runs("StartSend", v, <<Event("EndSend", v, EndSendSlot, NoPacket)>>)
  /\ isTx' = [isTx EXCEPT ![v] = TRUE]
  /\ LET f == [pkt |-> events[NextEvent].pkt, slot |-> slot] IN
       /\ inFlight' = inFlight \cup Send(v, f)
       /\ air' = air \cup {f}
  /\ UNCHANGED <<clockVars, queue, isSleeping, seqNo, rxVars, txCount, rxCount,
                 delivered>>

EndSend(v) ==
  /\ Runs("EndSend", v, <<>>)
  /\ isTx' = [isTx EXCEPT ![v] = FALSE]
  /\ UNCHANGED <<clockVars, queue, isSleeping, seqNo, inFlight, rxVars,
                 txCount, rxCount, air, delivered>>

-----------------------------------------------------------------------------
(* CsaMac, receiving *)

\* A state is known by the packet's key and, as a packet may get another state
\* when the first has expired, the slot that one is made in.
Key(p) == <<p.src, p.seq, 0>>

IsOf(k, p) == k[1] = p.src /\ k[2] = p.seq

NewId(r, p) ==
  IF \E k \in DOMAIN states[r] : IsOf(k, p) THEN <<p.src, p.seq, slot>>
  ELSE Key(p)

\* GetPacketState, or else the id of the state AddPacketState will make.
GetPacketState(r, p) ==
  LET found == {k \in packetBuffer[r] : IsOf(k, p)}
  IN IF found = {} THEN {NewId(r, p)} ELSE found

NewState(p) ==
  [tid |-> p.tid, allSlots |-> p.allSlots, s |-> p.s, count |-> 0,
   born |-> slot]

\* The state k of p is in the buffer, made anew if it was not there.
AddPacketState(r, k, p) ==
  /\ states' = [states EXCEPT ![r] =
       [j \in DOMAIN @ \cup {k} |-> IF j \in DOMAIN @ THEN @[j] ELSE NewState(p)]]
  /\ packetBuffer' = [packetBuffer EXCEPT ![r] = @ \cup {k}]

\* Mutant: the state goes into a new slot state only.
AddToSlotFirst(held, k) ==
  IF \E e \in held : e.slot = slot THEN held
  ELSE held \cup {[slot |-> slot, key |-> k]}

AddToSlot(held, k) == held \cup {[slot |-> slot, key |-> k]}

\* CsaMac::Receive in a node that does not send; else the fragment is lost.
Receive(m) ==
  /\ phase = "flight" /\ m \in inFlight
  /\ inFlight' = inFlight \ {m}
  /\ LET r == m.to  p == m.frag.pkt IN
     \/ /\ ~isTx[r]
        /\ \E k \in GetPacketState(r, p) :
             /\ AddPacketState(r, k, p)
             /\ slotBuffer' = [slotBuffer EXCEPT ![r] = AddToSlot(@, k)]
        /\ solvingAsked' = solvingAsked \cup {r}
        /\ heard' = [heard EXCEPT ![r] = @ \cup {m.frag}]
        /\ UNCHANGED <<active, forgotten>>
     \/ isTx[r] /\ UNCHANGED rxVars
  /\ UNCHANGED <<clockVars, macVars, txCount, rxCount, air, delivered>>

-----------------------------------------------------------------------------
(* Expiry *)

\* No Solve loop is running; one runs to its end in the event that starts it.
SolversIdle == \A r \in Nodes : active[r] = <<>>

\* Mutant: the timer of a state fires a slot early.
PacketStateDueEarly(r, k) ==
  k \in packetBuffer[r] /\ slot + 1 = states[r][k].born + Timeout

\* The timer AddPacketState set for state k fires in this slot.
PacketStateDue(r, k) ==
  k \in packetBuffer[r] /\ slot = states[r][k].born + Timeout

\* DeletePacketState erases the entry; slots that hold the state keep it.
DeletePacketState(r, k) ==
  /\ phase = "flight" /\ PacketStateDue(r, k)
  /\ packetBuffer' = [packetBuffer EXCEPT ![r] = @ \ {k}]
  /\ UNCHANGED <<clockVars, macVars, inFlight, states, slotBuffer, solvingAsked,
                 active, heard, forgotten, txCount, rxCount, air, delivered>>

\* The timer of the slot state that holds entry e fires in this slot.
SlotStateDue(e) == slot = e.slot + Timeout

\* DeleteSlotState, where the slot holds something: an empty one is like none.
DeleteSlotState(r) ==
  /\ phase = "solve" /\ SolversIdle
  /\ \E e \in slotBuffer[r] : SlotStateDue(e)
  /\ slotBuffer' =
       [slotBuffer EXCEPT ![r] = {e \in @ : ~SlotStateDue(e)}]
  /\ forgotten' = forgotten \cup {r}
  /\ UNCHANGED <<clockVars, macVars, inFlight, states, packetBuffer,
                 solvingAsked, active, heard, txCount, rxCount, air, delivered>>

-----------------------------------------------------------------------------
(* CsaSolver *)

IsDecoded(r, k) == states[r][k].count >= states[r][k].s

\* Mutant: weak signals stay in the slot.
CleanSlotKeepsWeak(r, x) ==
  {e \in slotBuffer[r] : e.slot = x => ~IsDecoded(r, e.key)}

\* Decoded packets and signals below the threshold leave slot x.
CleanSlot(r, x) ==
  {e \in slotBuffer[r] :
     e.slot = x => ~IsDecoded(r, e.key) /\ e.key[1] \in inRange[r]}

\* StartSolveAtSlot, and EndSolve.
StartSolve(r) ==
  /\ phase = "solve" /\ r \in solvingAsked /\ SolversIdle
  /\ active' = [active EXCEPT ![r] = <<slot>>]
  /\ solvingAsked' = solvingAsked \ {r}
  /\ UNCHANGED <<clockVars, macVars, inFlight, states, packetBuffer, slotBuffer,
                 heard, forgotten, txCount, rxCount, air, delivered>>

\* The slot at the front of the queue is dealt with, and xs are queued.
Pop(r, xs) == active' = [active EXCEPT ![r] = Tail(@) \o xs]

\* ForwardUp of the packet with state k, and ReceiveCallback for it.
ForwardUp(r, k) ==
  /\ delivered' = [delivered EXCEPT ![r] = Append(@, k)]
  /\ rxCount' = [rxCount EXCEPT ![<<k[1], r, states[r][k].tid>>] = @ + 1]

\* The only packet left in the slot at the front is counted, and decoded with the
\* last fragment it needs.
Credit(r, k) ==
  /\ states' = [states EXCEPT ![r][k].count = @ + 1]
  /\ IF states[r][k].count + 1 >= states[r][k].s
       THEN ForwardUp(r, k) /\ Pop(r, states[r][k].allSlots)
       ELSE Pop(r, <<>>) /\ UNCHANGED <<delivered, rxCount>>

\* A round of the Solve loop, which skips slots still to come.
SolveSlot(r) ==
  /\ active[r] # <<>>
  /\ LET x == Head(active[r])
         left == {e.key : e \in {f \in CleanSlot(r, x) : f.slot = x}}
     IN \/ /\ x > slot /\ Pop(r, <<>>)
           /\ UNCHANGED <<states, slotBuffer, delivered, rxCount>>
        \/ /\ x <= slot
           /\ slotBuffer' = [slotBuffer EXCEPT ![r] = CleanSlot(r, x)]
           /\ \/ \E k \in left : left = {k} /\ Credit(r, k)
              \/ /\ \A k \in left : left # {k}
                 /\ Pop(r, <<>>)
                 /\ UNCHANGED <<states, delivered, rxCount>>
  /\ UNCHANGED <<clockVars, macVars, inFlight, packetBuffer, solvingAsked, heard,
                 forgotten, txCount, air>>

-----------------------------------------------------------------------------
(* The clock and the installation *)

\* The clock moves on when nothing is left to run in the phase, until the
\* simulation is stopped.
Tick ==
  /\ \/ /\ phase = "boundary" /\ NextEvent = 0
        /\ phase' = "flight" /\ UNCHANGED slot
     \/ /\ phase = "flight" /\ inFlight = {}
        /\ \A r \in Nodes : \A k \in packetBuffer[r] : ~PacketStateDue(r, k)
        /\ phase' = "solve" /\ UNCHANGED slot
     \/ /\ phase = "solve" /\ solvingAsked = {} /\ SolversIdle
        /\ \A r \in Nodes : \A e \in slotBuffer[r] : ~SlotStateDue(e)
        /\ events # <<>> \/ slot < LastEnqueue
        /\ phase' = "boundary" /\ slot' = slot + 1
  /\ UNCHANGED <<strategy, inRange, macVars, inFlight, rxVars, txCount, rxCount,
                 air, delivered>>

\* Each node draws a strategy and keeps it.
SetStrategy == strategy \in [Nodes -> Strategies]

\* CsaHelper::Install.
Init ==
  /\ slot = 1 /\ phase = "boundary"
  /\ SetStrategy
  /\ inRange \in Ranges
  /\ events = <<>>
  /\ queue = [v \in Nodes |-> <<>>]
  /\ isSleeping = [v \in Nodes |-> TRUE]
  /\ isTx = [v \in Nodes |-> FALSE]
  /\ seqNo = [v \in Nodes |-> 0]
  /\ inFlight = {}
  /\ states = [r \in Nodes |-> <<>>]
  /\ packetBuffer = [r \in Nodes |-> {}]
  /\ slotBuffer = [r \in Nodes |-> {}]
  /\ solvingAsked = {}
  /\ active = [r \in Nodes |-> <<>>]
  /\ txCount = [v \in Nodes |-> [t \in Tids |-> 0]]
  /\ rxCount = [c \in Nodes \X Nodes \X Tids |-> 0]
  /\ air = {}
  /\ heard = [r \in Nodes |-> {}]
  /\ delivered = [r \in Nodes |-> <<>>]
  /\ forgotten = {}

Next ==
  \/ \E v \in Talkers : Traffic(v)
  \/ \E v \in Nodes : Dequeue(v) \/ StartSend(v) \/ EndSend(v)
  \/ \E r \in Nodes : StartSolve(r) \/ SolveSlot(r)
  \/ \E m \in inFlight : Receive(m)
  \/ \E r \in Nodes : \E k \in packetBuffer[r] : DeletePacketState(r, k)
  \/ \E r \in Nodes : DeleteSlotState(r)
  \/ Tick

Spec == Init /\ [][Next]_vars

-----------------------------------------------------------------------------
(* Properties *)

\* A node that sleeps has nothing queued, and no state counts more fragments
\* than its packet needs.
TypeOK ==
  /\ slot \in Nat /\ phase \in {"boundary", "flight", "solve"}
  /\ strategy \in [Nodes -> Strategies] /\ inRange \in Ranges
  /\ \A v \in Nodes :
       /\ Len(queue[v]) <= QueueSize /\ ToSet(queue[v]) \subseteq Tids
       /\ isSleeping[v] => queue[v] = <<>>
       /\ isTx[v] \in BOOLEAN
       /\ packetBuffer[v] \subseteq DOMAIN states[v]
       /\ \A k \in DOMAIN states[v] :
            /\ k[1] # v /\ k[2] < seqNo[k[1]]
            /\ states[v][k].count <= states[v][k].s
  /\ \A m \in inFlight : m.to # m.frag.pkt.src /\ m.frag \in air

\* The end of a slot: all its fragments are in and solved.
SlotDone(x) == x < slot

Sends(v, x) == \E f \in air : f.pkt.src = v /\ f.slot = x

\* v is in the later of two adjacent slots of one packet, where EndSend of the
\* first comes after StartSend of the second.
SendsInARow(v, x) ==
  \E f, g \in air : /\ f.pkt = g.pkt /\ f.pkt.src = v
                    /\ f.slot = x /\ g.slot = x - 1

\* Half duplex end to end: a node receives every fragment of the others except
\* in the slots it sends in itself, and then only where its flag is lost.
HearsAllButOwnSlots ==
  \A r \in Nodes : \A f \in air :
    SlotDone(f.slot) /\ f.pkt.src # r =>
      (f \in heard[r] <=> ~Sends(r, f.slot) \/ SendsInARow(r, f.slot))

\* The slots in which r can decode a fragment of p without any cancellation:
\* p's is the only signal r receives, and r does not send.
AloneIn(r, p) ==
  {x \in ToSet(p.allSlots) :
     /\ SlotDone(x) /\ ~Sends(r, x)
     /\ \A f \in air : f.slot = x /\ f.pkt.src \in inRange[r] => f.pkt = p}

\* The copies of p that were sent lie less than the timeout apart: wherever they
\* are heard, the last one still finds the state the first one made.
WithinTimeout(p) ==
  \A f, g \in air : f.pkt = p /\ g.pkt = p => f.slot < g.slot + Timeout

IsDelivered(r, p) == \E k \in ToSet(delivered[r]) : IsOf(k, p)

\* What the access scheme promises from the sender's queue to the receiver's
\* statistics: s undisturbed copies are enough, for a packet whose copies lie
\* within the timeout.
UndisturbedIsDelivered ==
  \A r \in Nodes : \A p \in {f.pkt : f \in air} :
    /\ p.src # r /\ p.src \in inRange[r]
    /\ WithinTimeout(p)
    /\ Cardinality(AloneIn(r, p)) >= p.s
    => IsDelivered(r, p)

\* The fragments r heard from senders whose signal is above its threshold.
Strong(r) == {f \in heard[r] : f.pkt.src \in inRange[r]}

\* Two nodes that heard the same strong fragments deliver the same packets in
\* the same order: neither the order in which the fragments of a slot came in,
\* which the distances decide, nor the weak signals that only one of them heard
\* show in what CsaSolver decodes. That is so while the copies of all packets lie
\* within the timeout and neither node has lost a slot with signals in it: the
\* timers run from the first fragment heard, a weak one of one node included.
ReceiversAgree ==
  phase = "boundary" /\ (\A f \in air : WithinTimeout(f.pkt)) =>
    \A r, q \in Nodes \ forgotten :
      Strong(r) = Strong(q) => delivered[r] = delivered[q]

\* The sending side of v in terms of the abstract sender: the packets in the
\* queue will get the next sequence numbers.
Named(p) == [seq |-> p.seq, tid |-> p.tid]

Waiting(v) ==
  [i \in DOMAIN queue[v] |-> [seq |-> seqNo[v] + i - 1, tid |-> queue[v][i]]]

Booked(v) ==
  {[pkt |-> Named(e.pkt), slot |-> e.at] :
     e \in {d \in ToSet(events) : d.op = "StartSend" /\ d.node = v}}

Sent(v) ==
  {[pkt |-> Named(f.pkt), slot |-> f.slot] : f \in {g \in air : g.pkt.src = v}}

Sender(v) == INSTANCE CsaSender WITH
  Packets <- [seq : 0..MaxPackets, tid : Tids],
  Copies <- {k.n : k \in Strategies},
  waiting <- Waiting(v), booked <- Booked(v), sent <- Sent(v)

\* Every node sends its packets one after the other, in the order and with the
\* categories they were handed down in, whatever the others do and in whatever
\* order the events of a slot boundary run.
EverySenderIsSender ==
  /\ \A v \in Nodes : Sender(v)!Init
  /\ [][\A v \in Nodes : UNCHANGED Sender(v)!vars \/ Sender(v)!Next]_vars

\* The receiving side of r in terms of the abstract decoder; its solver runs
\* when the fragments of the slot are in.
SignalsOf(r) == {[slot |-> f.slot, pkt |-> Key(f.pkt)] : f \in Strong(r)}

Known(r) == {<<k[1], k[2], 0>> : k \in ToSet(delivered[r])}

LastSlotOver == IF phase = "solve" THEN slot ELSE slot - 1

Decoder(r) == INSTANCE CsaDecoder WITH
  heard <- SignalsOf(r), now <- LastSlotOver, known <- Known(r)

\* Every node delivers only what peeling gets out of the strong fragments sent to
\* it over the channel, if one fragment of a packet is enough, whatever expires.
EveryReceiverIsDecoder ==
  /\ \A r \in Nodes : Decoder(r)!Init
  /\ [][\A r \in Nodes : UNCHANGED Decoder(r)!vars \/ Decoder(r)!Next]_vars

\* WriteOutput: numerator and denominator of the packet success ratio.
Psr(t) ==
  <<SumFunction([c \in Nodes \X Nodes \X {t} |-> rxCount[c]]),
    SumFunction([v \in Nodes |-> txCount[v][t]]) * (Cardinality(Nodes) - 1)>>

\* The success ratio of a category is at most 1, as no sender's packet is counted
\* twice by one receiver, nor under another category than it was counted as sent:
\* so long as the copies of its packets lie within the timeout. A packet whose
\* later copies find its state expired is handed up, and counted, again.
PsrAtMostOne ==
  \A t \in Tids :
    (\A f \in air : f.pkt.tid = t => WithinTimeout(f.pkt)) =>
      /\ Psr(t)[1] <= Psr(t)[2]
      /\ \A v, r \in Nodes : rxCount[<<v, r, t>>] <= txCount[v][t]

=============================================================================
