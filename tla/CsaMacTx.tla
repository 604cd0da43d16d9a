------------------------------ MODULE CsaMacTx ------------------------------
(***************************************************************************)
(* The sending side of CsaMac: one node's packet queue, its sleep/wake     *)
(* flag, the timers it sets in the ns-3 event list and the half-duplex     *)
(* flag m_isTx that the receiving side reads.                              *)
(*                                                                         *)
(* Time is the pair <<slot, off>>: the number of the current slot and the  *)
(* offset inside it, so that currentTime % m_slotDuration is off and       *)
(* currentTime / m_slotDuration is slot.  The offset is cut into SlotTicks *)
(* ticks; tick 0 is the slot boundary.                                     *)
(*                                                                         *)
(* ns-3 is single threaded: an event handler runs to completion and events *)
(* run in the order of their time stamps, those of one time stamp in the   *)
(* order they were scheduled (their uid).  Handlers are therefore actions. *)
(***************************************************************************)
EXTENDS Naturals, Sequences, FiniteSets

CONSTANTS
  QueueSize,   \* m_queueSize, the capacity of the drop-tail queue
  N,           \* m_n, how many copies of a fragment a packet is sent as
  SlotTicks,   \* ticks in a slot
  MaxGap,      \* bound: the largest value GetGeometricValue draws
  MaxOffered,  \* bound: how many packets the upper layer hands down
  IdleSlots    \* bound: how far the clock runs when nothing is scheduled

ASSUME TxAssumption ==
  /\ QueueSize \in Nat
  /\ N \in Nat \ {0}
  /\ SlotTicks \in Nat \ {0, 1}
  /\ MaxGap \in Nat
  /\ MaxOffered \in Nat
  /\ IdleSlots \in Nat

VARIABLES
  slot,        \* Simulator::Now() / m_slotDuration
  off,         \* Simulator::Now() % m_slotDuration, in ticks
  events,      \* this node's pending events
  uid,         \* the uid of the next event to be scheduled
  queue,       \* m_queue; a packet is the number of the Enqueue call it came with
  isSleeping,  \* m_isSleeping
  isTx,        \* m_isTx
  seqNo,       \* m_seqNo
  traced,      \* how often m_enqueueTrace has fired (one per Enqueue call)
  accepted,    \* how many packets m_queue took
  air          \* history: the fragments handed to the PHY, with their slot

clock == <<slot, off>>
vars == <<slot, off, events, uid, queue, isSleeping, isTx, seqNo, traced,
          accepted, air>>

-----------------------------------------------------------------------------
(* Fragments and events *)

\* A fragment as it goes on air: the packet it codes, the header's sequence
\* number and the header's current slot.
Fragment == [pkt : Nat, seq : Nat, hdrSlot : Nat]
NoFragment == [pkt |-> 0, seq |-> 0, hdrSlot |-> 0]

Event == [op : {"Dequeue", "StartSend", "EndSend"}, slot : Nat, off : Nat,
          uid : Nat, frag : Fragment]

NewEvent(op, s, o, u, f) ==
  [op |-> op, slot |-> s, off |-> o, uid |-> u, frag |-> f]

\* e is the event ns-3 runs next: it is due, and of the events due now it was
\* scheduled first.
Due(e) == e.slot = slot /\ e.off = off
IsNext(e) ==
  /\ e \in events
  /\ Due(e)
  /\ \A f \in events : Due(f) => e.uid <= f.uid

-----------------------------------------------------------------------------
(* Slots *)

\* The slot that begins at Now() + NextSlotTime(): the current one when the
\* clock stands on its boundary.
NextSlot == IF off = 0 THEN slot ELSE slot + 1

\* Mutant: the draw restarts at the slot just used (base ++ is missing).
GetNSlotsNoStep ==
  {s \in [1..N -> slot..(slot + N * (MaxGap + 1))] :
     /\ s[1] - slot <= MaxGap
     /\ \A i, j \in 1..N : i < j => s[i] <= s[j]
     /\ \A i \in 2..N : s[i] - s[i-1] <= MaxGap}

\* Every vector GetNSlots can return: N slots from the current one on, each
\* later than the one before it, with at most MaxGap unused slots between.
GetNSlots ==
  {s \in [1..N -> slot..(slot + N * (MaxGap + 1))] :
     /\ s[1] - slot <= MaxGap
     /\ \A i, j \in 1..N : i < j => s[i] < s[j]
     /\ \A i \in 2..N : s[i] - s[i-1] <= MaxGap + 1}

\* Mutant: the next packet may start in the last slot of this one.
DequeueSlotEarly(s) == s[N]

\* The slot in which the next Dequeue runs.
DequeueSlot(s) == s[N] + 1

-----------------------------------------------------------------------------
(* Sending *)

\* Mutant: the node wakes without scheduling its Dequeue.
WakeUpNoDequeue ==
  /\ isSleeping' = FALSE
  /\ UNCHANGED <<events, uid>>

\* Mutant: every Enqueue schedules a Dequeue, also when the node is awake.
WakeUpAlways ==
  /\ isSleeping' = FALSE
  /\ events' = events \cup {NewEvent("Dequeue", NextSlot, 0, uid, NoFragment)}
  /\ uid' = uid + 1

WakeUp ==
  IF isSleeping
    THEN /\ isSleeping' = FALSE
         /\ events' = events \cup
                        {NewEvent("Dequeue", NextSlot, 0, uid, NoFragment)}
         /\ uid' = uid + 1
    ELSE UNCHANGED <<isSleeping, events, uid>>

\* Mutant: the queue takes one packet too many.
HasRoomOver == Len(queue) <= QueueSize

\* m_queue->Enqueue succeeds.
HasRoom == Len(queue) < QueueSize

\* CsaNetDevice::Send hands a packet to CsaMac::Enqueue.  The trace fires
\* before the queue decides; a full queue drops the packet.
Enqueue ==
  /\ traced < MaxOffered
  /\ traced' = traced + 1
  /\ \/ /\ HasRoom
        /\ queue' = Append(queue, traced + 1)
        /\ accepted' = accepted + 1
        /\ WakeUp
     \/ /\ ~HasRoom
        /\ UNCHANGED <<queue, accepted, isSleeping, events, uid>>
  /\ UNCHANGED <<clock, isTx, seqNo, air>>

\* Mutant: every header is stamped with the first slot.
HeaderFirstSlot(p, s, i) == [pkt |-> p, seq |-> seqNo, hdrSlot |-> s[1]]

\* The i-th fragment of packet p, sent in the slots s.
PrepareHeader(p, s, i) == [pkt |-> p, seq |-> seqNo, hdrSlot |-> s[i]]

\* The events SendPacket schedules: N StartSends, then the next Dequeue.
SendEvents(p, s) ==
  {NewEvent("StartSend", s[i], off, uid + i - 1, PrepareHeader(p, s, i)) :
     i \in 1..N}
  \cup {NewEvent("Dequeue", DequeueSlot(s), off, uid + N, NoFragment)}

\* Mutant: m_seqNo is not incremented.
NextSeqNoSame == seqNo

NextSeqNo == seqNo + 1

SendPacket(e, p) ==
  \E s \in GetNSlots :
    /\ events' = (events \ {e}) \cup SendEvents(p, s)
    /\ uid' = uid + N + 1
    /\ seqNo' = NextSeqNo

Dequeue(e) ==
  /\ IsNext(e) /\ e.op = "Dequeue"
  /\ \/ /\ queue # <<>>
        /\ queue' = Tail(queue)
        /\ SendPacket(e, Head(queue))
        /\ UNCHANGED isSleeping
     \/ /\ queue = <<>>
        /\ isSleeping' = TRUE
        /\ events' = events \ {e}
        /\ UNCHANGED <<queue, uid, seqNo>>
  /\ UNCHANGED <<clock, isTx, traced, accepted, air>>

\* Mutant: the flag is kept for two slots.
EndSendSlotLate == slot + 2

\* The slot whose boundary clears the flag a fragment sets now.
EndSendSlot == slot + 1

StartSend(e) ==
  /\ IsNext(e) /\ e.op = "StartSend"
  /\ isTx' = TRUE
  /\ air' = air \cup {[slot |-> slot, off |-> off, frag |-> e.frag]}
  /\ events' = (events \ {e}) \cup
                 {NewEvent("EndSend", EndSendSlot, off, uid, NoFragment)}
  /\ uid' = uid + 1
  /\ UNCHANGED <<clock, queue, isSleeping, seqNo, traced, accepted>>

EndSend(e) ==
  /\ IsNext(e) /\ e.op = "EndSend"
  /\ isTx' = FALSE
  /\ events' = events \ {e}
  /\ UNCHANGED <<clock, uid, queue, isSleeping, seqNo, traced, accepted, air>>

\* The simulator advances the clock once nothing is left to run now.
Tick ==
  /\ \A e \in events : ~Due(e)
  /\ events # {} \/ slot < IdleSlots
  /\ IF off + 1 < SlotTicks
       THEN off' = off + 1 /\ slot' = slot
       ELSE off' = 0 /\ slot' = slot + 1
  /\ UNCHANGED <<events, uid, queue, isSleeping, isTx, seqNo, traced, accepted,
                 air>>

-----------------------------------------------------------------------------
(* The specification *)

Init ==
  /\ slot = 0 /\ off = 0
  /\ events = {} /\ uid = 0
  /\ queue = <<>>
  /\ isSleeping = TRUE /\ isTx = FALSE
  /\ seqNo = 0
  /\ traced = 0 /\ accepted = 0
  /\ air = {}

\* What the simulator runs by itself: due events, else the clock.
Simulator ==
  \/ \E e \in events : Dequeue(e) \/ StartSend(e) \/ EndSend(e)
  \/ Tick

Next == Enqueue \/ Simulator

\* Simulator::Run keeps running events until Simulator::Stop; the upper layer
\* owes nothing.
Spec == Init /\ [][Next]_vars /\ WF_vars(Simulator)

-----------------------------------------------------------------------------
(* Properties *)

TypeOK ==
  /\ slot \in Nat /\ off \in 0..(SlotTicks - 1)
  /\ events \subseteq Event /\ uid \in Nat
  /\ queue \in Seq(1..traced) /\ Len(queue) <= QueueSize
  /\ isSleeping \in BOOLEAN /\ isTx \in BOOLEAN
  /\ seqNo \in Nat
  /\ traced \in Nat /\ accepted \in Nat
  /\ air \subseteq [slot : Nat, off : Nat, frag : Fragment]

\* Wake-ups are neither lost nor doubled: the node is awake exactly when a
\* Dequeue is pending, it never has two of them (two would interleave two
\* packets), and it only sleeps on an empty queue.
WakeUpSafe ==
  /\ isSleeping <=> \A e \in events : e.op # "Dequeue"
  /\ \A e, f \in events : e.op = "Dequeue" /\ f.op = "Dequeue" => e = f
  /\ isSleeping => queue = <<>>

\* A radio carries one fragment per slot: neither two copies of one packet
\* nor the copies of two packets ever meet in a slot, on air or scheduled.
\* Two fragments of a node in one slot would collide at every receiver.
OneFragmentPerSlot ==
  /\ \A a, b \in air : a.slot = b.slot => a = b
  /\ \A e, f \in events :
       e.op = "StartSend" /\ f.op = "StartSend" /\ e.slot = f.slot => e = f
  /\ \A a \in air, e \in events : e.op = "StartSend" => a.slot < e.slot

\* How the timers of a node fit together, whatever is drawn: none is left in
\* the past, all fall on slot boundaries, every copy of a packet is due before
\* the Dequeue that takes the next packet and after all that is already sent,
\* and a node that sleeps has nothing left to send in this slot.
ScheduleSafe ==
  /\ \A e \in events : e.off = 0 /\ slot <= e.slot /\ (e.slot = slot => off = 0)
  /\ \A e \in events :
       e.op = "StartSend" => ~isSleeping /\ e.frag.hdrSlot = e.slot
  /\ \A e, d \in events :
       e.op = "StartSend" /\ d.op = "Dequeue" => e.slot < d.slot
  /\ \A a \in air, d \in events : d.op = "Dequeue" => a.slot < d.slot
  /\ isSleeping => \A a \in air : a.slot < slot

\* What CsaMac::Receive asserts of every fragment it gets ("Packet is crossing
\* slots"): a fragment leaves on the boundary of the slot its header names.
SentInHeaderSlot ==
  \A a \in air : a.frag.hdrSlot = a.slot /\ a.off = 0

\* (source, seqNo) is the receiver's key of a packet: no two packets share a
\* sequence number, and packets leave in the order they were accepted, all
\* copies of one before the first copy of the next.
SeqNoIdentifiesPacket ==
  \A a, b \in air :
    /\ a.frag.pkt = b.frag.pkt <=> a.frag.seq = b.frag.seq
    /\ a.frag.pkt < b.frag.pkt => a.frag.seq < b.frag.seq /\ a.slot < b.slot

\* Inside a slot m_isTx is set only if the node sends in that slot (the node
\* is never deaf in a slot it could listen to), and it is set in every slot it
\* sends in unless the slot before carried a copy of the same packet.
TxFlagExact ==
  off > 0 =>
    (isTx <=> \E a \in air :
                /\ a.slot = slot
                /\ \A b \in air : b.slot + 1 = slot => b.frag.pkt # a.frag.pkt)

\* Half duplex, the purpose of the guard if(!m_isTx) in CsaMac::Receive: inside
\* a slot that carries one of its own fragments a node is marked as sending.
HalfDuplex ==
  off > 0 => ((\E a \in air : a.slot = slot) => isTx)

\* The documented meaning of the trace source EnqueueCb, "Fired when a packet
\* is Enqueued": it has fired once for each packet the queue took.
TraceCountsEnqueued == traced = accepted

\* Every packet the queue accepts is sent, all N copies of it.
AcceptedIsSent ==
  \A p \in 1..MaxOffered :
    (\E i \in DOMAIN queue : queue[i] = p)
      ~> (Cardinality({a \in air : a.frag.pkt = p}) = N)

-----------------------------------------------------------------------------
(* The abstract sender *)

Pending(op) == {e \in events : e.op = op}

\* What the abstract sender sees of a fragment, and the fragments it sees.
Copy(sl, f) == [slot |-> sl, pkt |-> f.pkt]
Booked == {Copy(e.slot, e.frag) : e \in Pending("StartSend")}
OnAir == {Copy(a.slot, a.frag) : a \in air}

Sender == INSTANCE CsaSender WITH
  Packets <- 1..MaxOffered, Copies <- {N},
  waiting <- queue, booked <- Booked, sent <- OnAir

\* Timers, wake-ups and the sleep flag come down to the abstract sender: Begin
\* is Dequeue, Put is StartSend, and nothing else of the MAC shows.
ImplementsSender == Sender!Spec

=============================================================================
