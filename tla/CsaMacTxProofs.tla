--------------------------- MODULE CsaMacTxProofs ---------------------------
(***************************************************************************)
(* Proofs about the sending side, for every queue size, number of copies,  *)
(* slot length and drawn gap.                                              *)
(*                                                                         *)
(* The inductive invariant is TxInv: the type invariant together with the  *)
(* four properties below it.  None of them is inductive alone.  That two   *)
(* fragments never share a slot needs the order of the pending timers      *)
(* (ScheduleSafe); that order survives a Dequeue only because there is one *)
(* Dequeue at a time (WakeUpSafe).                                         *)
(*                                                                         *)
(* The refinement of the abstract sender rests on OrderInv: packets keep   *)
(* the order they were handed down in, from the queue over the pending     *)
(* copies to the copies on air, and their sequence numbers go with it.      *)
(* The last part proves when m_isTx is set.                                *)
(***************************************************************************)
EXTENDS CsaMacTx, FiniteSetTheorems, TLAPS

TxInv ==
  /\ TypeOK
  /\ WakeUpSafe
  /\ OneFragmentPerSlot
  /\ ScheduleSafe
  /\ SentInHeaderSlot

USE TxAssumption

\* The slots GetNSlots draws are distinct, none lies in the past, and all of
\* them are over when the next Dequeue runs.
LEMMA DrawnSlots ==
  ASSUME slot \in Nat, NEW s \in GetNSlots
  PROVE  /\ s \in [1..N -> Nat]
         /\ \A i \in 1..N : slot <= s[i] /\ s[i] < DequeueSlot(s)
         /\ \A i, j \in 1..N : s[i] = s[j] => i = j
         /\ DequeueSlot(s) \in Nat
<1>1. s \in [1..N -> Nat] /\ \A i \in 1..N : slot <= s[i]
  BY DEF GetNSlots
<1>2. \A i, j \in 1..N : i < j => s[i] < s[j]
  BY DEF GetNSlots
<1>3. N \in 1..N
  OBVIOUS
<1> QED
  BY <1>1, <1>2, <1>3 DEF DequeueSlot

\* The events of one SendPacket are well typed.
LEMMA SendEventsType ==
  ASSUME TypeOK, NEW p \in Nat, NEW s \in GetNSlots
  PROVE  SendEvents(p, s) \subseteq Event
<1>1. slot \in Nat /\ off \in Nat /\ uid \in Nat /\ seqNo \in Nat
  BY DEF TypeOK
<1>2. s \in [1..N -> Nat] /\ DequeueSlot(s) \in Nat
  BY <1>1, DrawnSlots
<1>3. NoFragment \in Fragment
  BY DEF NoFragment, Fragment
<1>4. \A i \in 1..N : PrepareHeader(p, s, i) \in Fragment
  BY <1>1, <1>2 DEF PrepareHeader, Fragment
<1>5. \A i \in 1..N :
        NewEvent("StartSend", s[i], off, uid + i - 1, PrepareHeader(p, s, i))
          \in Event
  BY <1>1, <1>2, <1>4 DEF NewEvent, Event
<1>6. NewEvent("Dequeue", DequeueSlot(s), off, uid + N, NoFragment) \in Event
  BY <1>1, <1>2, <1>3 DEF NewEvent, Event
<1> QED
  BY <1>5, <1>6 DEF SendEvents

-----------------------------------------------------------------------------
(* The invariant holds initially and every action keeps it *)

LEMMA TxInvInit == Init => TxInv
<1> SUFFICES ASSUME Init PROVE TxInv
  OBVIOUS
<1>1. TypeOK
  <2>1. queue \in Seq(1..traced) /\ Len(queue) <= QueueSize
    BY DEF Init
  <2>2. isSleeping \in BOOLEAN /\ isTx \in BOOLEAN
    BY DEF Init
  <2>3. slot \in Nat /\ off \in 0..(SlotTicks - 1) /\ uid \in Nat
    BY DEF Init
  <2>4. seqNo \in Nat /\ traced \in Nat /\ accepted \in Nat
    BY DEF Init
  <2> QED
    BY <2>1, <2>2, <2>3, <2>4 DEF Init, TypeOK
<1>2. WakeUpSafe /\ OneFragmentPerSlot /\ ScheduleSafe /\ SentInHeaderSlot
  BY DEF Init, WakeUpSafe, OneFragmentPerSlot, ScheduleSafe, SentInHeaderSlot
<1> QED
  BY <1>1, <1>2 DEF TxInv

\* A packet comes down; if the node slept it now has its one Dequeue, which is
\* not before the slots already used.
LEMMA EnqueueKeepsInv == TxInv /\ Enqueue => TxInv'
<1> SUFFICES ASSUME TxInv, Enqueue
             PROVE  TxInv'
  OBVIOUS
<1> USE DEF TxInv
<1>1. CASE UNCHANGED <<queue, accepted, isSleeping, events, uid>>
  <2>1. TypeOK'
    BY <1>1 DEF Enqueue, TypeOK, clock
  <2> QED
    BY <1>1, <2>1 DEF Enqueue, clock, WakeUpSafe, OneFragmentPerSlot,
                      ScheduleSafe, SentInHeaderSlot
<1>2. CASE /\ Len(queue) < QueueSize
           /\ queue' = Append(queue, traced + 1)
           /\ accepted' = accepted + 1
           /\ WakeUp
  <2>1. NextSlot \in Nat /\ slot <= NextSlot /\ (NextSlot = slot => off = 0)
    BY DEF NextSlot, TypeOK
  <2> DEFINE d == NewEvent("Dequeue", NextSlot, 0, uid, NoFragment)
  <2>2. d \in Event /\ d.op = "Dequeue" /\ d.slot = NextSlot /\ d.off = 0
    BY <2>1 DEF NewEvent, Event, NoFragment, Fragment, TypeOK
  <2>3. \/ isSleeping /\ events' = events \cup {d} /\ ~isSleeping'
        \/ ~isSleeping /\ UNCHANGED <<events, isSleeping>>
    BY <1>2 DEF WakeUp, TypeOK
  <2> HIDE DEF d
  <2>4. TypeOK'
    <3>1. queue' \in Seq(1..traced') /\ Len(queue') <= QueueSize
      BY <1>2 DEF Enqueue, TypeOK
    <3>2. events' \subseteq Event
      BY <2>2, <2>3 DEF TypeOK
    <3>3. uid' \in Nat
      BY <1>2 DEF TypeOK, WakeUp
    <3>6. isSleeping' \in BOOLEAN
      BY <1>2, Zenon DEF TypeOK, WakeUp
    <3>4. traced' \in Nat /\ accepted' \in Nat
      BY <1>2 DEF TypeOK, Enqueue
    <3>5. UNCHANGED <<slot, off, isTx, seqNo, air>>
      BY DEF Enqueue, clock
    <3> QED
      BY <3>1, <3>2, <3>3, <3>4, <3>5, <3>6 DEF TypeOK
  <2>5. WakeUpSafe'
    BY <2>2, <2>3 DEF WakeUpSafe
  <2>6. OneFragmentPerSlot'
    BY <2>2, <2>3 DEF OneFragmentPerSlot, Enqueue
  <2>7. ScheduleSafe'
    <3>1. \A e \in events : e.op = "StartSend" => ~isSleeping
      BY DEF ScheduleSafe
    <3>2. isSleeping => \A a \in air : a.slot < NextSlot
      BY <2>1 DEF ScheduleSafe, TypeOK
    <3> QED
      BY <2>1, <2>2, <2>3, <3>1, <3>2 DEF ScheduleSafe, Enqueue, clock
  <2>8. SentInHeaderSlot'
    BY DEF SentInHeaderSlot, Enqueue
  <2> QED
    BY <2>4, <2>5, <2>6, <2>7, <2>8
<1> QED
  BY <1>1, <1>2 DEF Enqueue, HasRoom

\* The node takes the next packet, or goes to sleep.
LEMMA DequeueKeepsInv ==
  ASSUME TxInv, NEW e \in events, Dequeue(e)
  PROVE  TxInv'
<1> USE DEF TxInv
<1>1. e.op = "Dequeue" /\ e.slot = slot /\ off = 0
  BY DEF Dequeue, IsNext, Due, ScheduleSafe
<1>2. \A f \in events : f.op # "StartSend"
  BY <1>1 DEF ScheduleSafe, TypeOK, Event
<1>3. \A f \in events : f.op = "Dequeue" => f = e
  BY <1>1 DEF WakeUpSafe
<1>4. \A a \in air : a.slot < slot
  BY <1>1 DEF ScheduleSafe
<1>5. ~isSleeping
  BY <1>1 DEF WakeUpSafe
<1>6. UNCHANGED <<slot, off, air, isTx, traced, accepted>>
  BY DEF Dequeue, clock
<1>7. CASE queue = <<>> /\ isSleeping' = TRUE /\ events' = events \ {e}
           /\ UNCHANGED <<queue, uid, seqNo>>
  <2>1. TypeOK'
    BY <1>6, <1>7 DEF TypeOK
  <2>2. WakeUpSafe'
    BY <1>3, <1>7 DEF WakeUpSafe
  <2> QED
    BY <1>2, <1>4, <1>6, <1>7, <2>1, <2>2
       DEF OneFragmentPerSlot, ScheduleSafe, SentInHeaderSlot
<1>8. CASE queue # <<>> /\ queue' = Tail(queue) /\ SendPacket(e, Head(queue))
           /\ UNCHANGED isSleeping
  <2>1. PICK s \in GetNSlots :
          /\ events' = (events \ {e}) \cup SendEvents(Head(queue), s)
          /\ uid' = uid + N + 1 /\ seqNo' = seqNo + 1
    BY <1>8 DEF SendPacket, NextSeqNo
  <2>2. slot \in Nat /\ Head(queue) \in Nat
    BY <1>8 DEF TypeOK
  <2>3. /\ s \in [1..N -> Nat]
        /\ \A i \in 1..N : slot <= s[i] /\ s[i] < DequeueSlot(s)
        /\ \A i, j \in 1..N : s[i] = s[j] => i = j
        /\ DequeueSlot(s) \in Nat
    BY <2>2, DrawnSlots
  <2> DEFINE send(i) == NewEvent("StartSend", s[i], off, uid + i - 1,
                                 PrepareHeader(Head(queue), s, i))
             next == NewEvent("Dequeue", DequeueSlot(s), off, uid + N,
                              NoFragment)
  <2>4. events' = (events \ {e}) \cup {send(i) : i \in 1..N} \cup {next}
    BY <2>1 DEF SendEvents
  <2>5. \A i \in 1..N : /\ send(i).op = "StartSend" /\ send(i).slot = s[i]
                        /\ send(i).off = 0 /\ send(i).frag.hdrSlot = s[i]
    BY <1>1 DEF NewEvent, PrepareHeader
  <2>6. next.op = "Dequeue" /\ next.slot = DequeueSlot(s) /\ next.off = 0
    BY <1>1 DEF NewEvent
  <2> HIDE DEF send, next
  <2>7. TypeOK'
    <3>1. events' \subseteq Event
      BY <2>1, <2>2, SendEventsType DEF TypeOK
    <3>2. Tail(queue) \in Seq(1..traced) /\ Len(Tail(queue)) <= QueueSize
      BY <1>8 DEF TypeOK
    <3> QED
      BY <1>6, <1>8, <2>1, <3>1, <3>2 DEF TypeOK
  <2>8. \A f \in events' : \/ f = next
                           \/ \E i \in 1..N : f = send(i)
                           \/ f \in events /\ f.op \notin {"StartSend", "Dequeue"}
    BY <1>2, <1>3, <2>4
  <2>9. WakeUpSafe'
    BY <1>5, <1>8, <2>4, <2>5, <2>6, <2>8 DEF WakeUpSafe
  <2>10. OneFragmentPerSlot'
    <3>1. ASSUME NEW f \in events', f.op = "StartSend"
          PROVE  \E i \in 1..N : f = send(i)
      BY <2>6, <2>8, <3>1
    <3>2. \A f \in events' : f.op = "StartSend" => slot <= f.slot
      BY <2>3, <2>5, <3>1
    <3>3. \A f, g \in events' : f.op = "StartSend" /\ g.op = "StartSend"
                                /\ f.slot = g.slot => f = g
      BY <2>3, <2>5, <3>1
    <3>4. \A a \in air, f \in events' : f.op = "StartSend" => a.slot < f.slot
      <4> SUFFICES ASSUME NEW a \in air, NEW f \in events', f.op = "StartSend"
                   PROVE  a.slot < f.slot
        OBVIOUS
      <4>1. a.slot \in Nat /\ slot \in Nat /\ f.slot \in Nat
        BY <2>7 DEF TypeOK, Event
      <4> QED
        BY <1>4, <3>2, <4>1
    <3> QED
      BY <1>6, <3>3, <3>4 DEF OneFragmentPerSlot
  <2>11. ScheduleSafe'
    <3>1. \A f \in events' : f.off = 0 /\ slot <= f.slot
      <4>1. \A f \in events : f.off = 0 /\ slot <= f.slot
        BY DEF ScheduleSafe
      <4>2. slot <= DequeueSlot(s)
        BY <2>2, <2>3
      <4> QED
        BY <2>3, <2>5, <2>6, <2>8, <4>1, <4>2
    <3>2. \A f \in events' :
            f.op = "StartSend" => ~isSleeping /\ f.frag.hdrSlot = f.slot
      BY <1>5, <2>5, <2>6, <2>8
    <3>3. \A f, d \in events' :
            f.op = "StartSend" /\ d.op = "Dequeue" => f.slot < d.slot
      BY <2>3, <2>5, <2>6, <2>8
    <3>4. \A a \in air, d \in events' : d.op = "Dequeue" => a.slot < d.slot
      <4> SUFFICES ASSUME NEW a \in air, NEW d \in events', d.op = "Dequeue"
                   PROVE  a.slot < d.slot
        OBVIOUS
      <4>1. a.slot \in Nat /\ slot \in Nat /\ d.slot \in Nat
        BY <2>7 DEF TypeOK, Event
      <4> QED
        BY <1>4, <3>1, <4>1
    <3> QED
      BY <1>1, <1>5, <1>6, <1>8, <3>1, <3>2, <3>3, <3>4 DEF ScheduleSafe
  <2> QED
    BY <1>6, <2>7, <2>9, <2>10, <2>11 DEF SentInHeaderSlot
<1> QED
  BY <1>7, <1>8 DEF Dequeue

\* A fragment goes on air in its own slot, which no other one has.
LEMMA StartSendKeepsInv ==
  ASSUME TxInv, NEW e \in events, StartSend(e)
  PROVE  TxInv'
<1> USE DEF TxInv
<1> DEFINE end == NewEvent("EndSend", slot + 1, off, uid, NoFragment)
           b == [slot |-> slot, off |-> off, frag |-> e.frag]
<1>1. /\ events' = (events \ {e}) \cup {end} /\ air' = air \cup {b}
      /\ uid' = uid + 1 /\ isTx' = TRUE
      /\ UNCHANGED <<slot, off, queue, isSleeping, seqNo, traced, accepted>>
  BY DEF StartSend, clock, EndSendSlot
<1>2. e.op = "StartSend" /\ e.slot = slot /\ off = 0 /\ e.frag.hdrSlot = slot
  BY DEF StartSend, IsNext, Due, ScheduleSafe
<1>3. end.op = "EndSend" /\ end.slot = slot + 1 /\ end.off = 0
  BY <1>2 DEF NewEvent
<1>4. end \in Event /\ b \in [slot : Nat, off : Nat, frag : Fragment]
  BY DEF NewEvent, Event, NoFragment, Fragment, TypeOK
<1>5. b.slot = slot /\ b.off = 0 /\ b.frag.hdrSlot = slot
  BY <1>2
<1> HIDE DEF end, b
<1>6. TypeOK'
  BY <1>1, <1>4 DEF TypeOK
<1>7. WakeUpSafe'
  BY <1>1, <1>2, <1>3 DEF WakeUpSafe
<1>8. \A f \in events : f.op = "StartSend" /\ f # e => slot < f.slot
  <2> SUFFICES ASSUME NEW f \in events, f.op = "StartSend", f # e
               PROVE  slot < f.slot
    OBVIOUS
  <2>1. f.slot # slot
    BY <1>2 DEF OneFragmentPerSlot
  <2> QED
    BY <2>1 DEF ScheduleSafe, TypeOK, Event
<1>9. \A a \in air : a.slot < slot
  BY <1>2 DEF OneFragmentPerSlot
<1>10. \A f \in events' : f.op = "StartSend" => f \in events /\ f # e
  BY <1>1, <1>3
<1>11. OneFragmentPerSlot'
  <2>1. \A a, c \in air' : a.slot = c.slot => a = c
    <3> SUFFICES ASSUME NEW a \in air', NEW c \in air', a.slot = c.slot
                 PROVE  a = c
      OBVIOUS
    <3>1. \A x \in air : x.slot # slot
      BY <1>9 DEF TypeOK
    <3> QED
      BY <1>1, <1>5, <3>1 DEF OneFragmentPerSlot
  <2>2. \A f, g \in events' :
          f.op = "StartSend" /\ g.op = "StartSend" /\ f.slot = g.slot => f = g
    BY <1>10 DEF OneFragmentPerSlot
  <2>3. \A a \in air', f \in events' : f.op = "StartSend" => a.slot < f.slot
    BY <1>1, <1>5, <1>8, <1>10 DEF OneFragmentPerSlot
  <2> QED
    BY <2>1, <2>2, <2>3 DEF OneFragmentPerSlot
<1>12. ScheduleSafe'
  <2>1. \A f \in events' : f.off = 0 /\ slot <= f.slot
    BY <1>1, <1>3 DEF ScheduleSafe, TypeOK
  <2>2. \A f \in events' :
          f.op = "StartSend" => ~isSleeping /\ f.frag.hdrSlot = f.slot
    BY <1>10 DEF ScheduleSafe
  <2>3. \A f, d \in events' :
          f.op = "StartSend" /\ d.op = "Dequeue" => f.slot < d.slot
    BY <1>1, <1>3 DEF ScheduleSafe
  <2>4. \A a \in air', d \in events' : d.op = "Dequeue" => a.slot < d.slot
    BY <1>1, <1>2, <1>3, <1>5 DEF ScheduleSafe
  <2>5. ~isSleeping
    BY <1>2 DEF ScheduleSafe
  <2> QED
    BY <1>1, <1>2, <2>1, <2>2, <2>3, <2>4, <2>5 DEF ScheduleSafe
<1>13. SentInHeaderSlot'
  BY <1>1, <1>5 DEF SentInHeaderSlot
<1> QED
  BY <1>6, <1>7, <1>11, <1>12, <1>13

LEMMA EndSendKeepsInv ==
  ASSUME TxInv, NEW e \in events, EndSend(e)
  PROVE  TxInv'
<1> USE DEF TxInv
<1>1. /\ e.op = "EndSend" /\ isTx' = FALSE /\ events' = events \ {e}
      /\ UNCHANGED <<slot, off, uid, queue, isSleeping, seqNo, traced,
                     accepted, air>>
  BY DEF EndSend, clock
<1>2. TypeOK'
  BY <1>1 DEF TypeOK
<1>3. WakeUpSafe'
  BY <1>1 DEF WakeUpSafe
<1> QED
  BY <1>1, <1>2, <1>3
     DEF OneFragmentPerSlot, ScheduleSafe, SentInHeaderSlot

\* The clock never passes a pending event.
LEMMA TickKeepsInv == TxInv /\ Tick => TxInv'
<1> SUFFICES ASSUME TxInv, Tick
             PROVE  TxInv'
  OBVIOUS
<1> USE DEF TxInv
<1>1. UNCHANGED <<events, uid, queue, isSleeping, isTx, seqNo, traced,
                  accepted, air>>
  BY DEF Tick
<1>2. /\ slot' \in Nat /\ off' \in 0..(SlotTicks - 1) /\ slot <= slot'
  BY DEF Tick, TypeOK
<1>3. \A e \in events : slot < e.slot
  BY DEF Tick, Due, ScheduleSafe, TypeOK, Event
<1>4. \A e \in events : slot' <= e.slot /\ (e.slot = slot' => off' = 0)
  BY <1>3 DEF Tick, TypeOK, Event
<1>5. TypeOK'
  BY <1>1, <1>2 DEF TypeOK
<1>6. ScheduleSafe'
  <2>1. isSleeping => \A a \in air : a.slot < slot'
    BY <1>2 DEF ScheduleSafe, TypeOK
  <2> QED
    BY <1>1, <1>4, <2>1 DEF ScheduleSafe
<1> QED
  BY <1>1, <1>5, <1>6 DEF WakeUpSafe, OneFragmentPerSlot, SentInHeaderSlot

LEMMA TxInvStep == TxInv /\ [Next]_vars => TxInv'
<1> SUFFICES ASSUME TxInv, [Next]_vars
             PROVE  TxInv'
  OBVIOUS
<1>1. CASE Enqueue
  BY <1>1, EnqueueKeepsInv
<1>2. ASSUME NEW e \in events, Dequeue(e)
      PROVE  TxInv'
  BY <1>2, DequeueKeepsInv
<1>3. ASSUME NEW e \in events, StartSend(e)
      PROVE  TxInv'
  BY <1>3, StartSendKeepsInv
<1>4. ASSUME NEW e \in events, EndSend(e)
      PROVE  TxInv'
  BY <1>4, EndSendKeepsInv
<1>5. CASE Tick
  BY <1>5, TickKeepsInv
<1>6. CASE UNCHANGED vars
  BY <1>6 DEF vars, clock, TxInv, TypeOK, WakeUpSafe, OneFragmentPerSlot,
              ScheduleSafe, SentInHeaderSlot
<1> QED
  BY <1>1, <1>2, <1>3, <1>4, <1>5, <1>6 DEF Next, Simulator

\* The inductive invariant holds in every reachable state.
THEOREM TxInvHolds == Spec => []TxInv
<1>1. Init => TxInv
  BY TxInvInit
<1>2. TxInv /\ [Next]_vars => TxInv'
  BY TxInvStep
<1> QED
  BY <1>1, <1>2, PTL DEF Spec

-----------------------------------------------------------------------------
(* What follows for the properties *)

\* Every variable keeps its type and the queue its capacity.
THEOREM TypeCorrect == Spec => []TypeOK
<1>1. TxInv => TypeOK
  BY DEF TxInv
<1> QED
  BY <1>1, TxInvHolds, PTL

\* CsaMac::WakeUp and Sleep neither lose nor double the Dequeue timer.
THEOREM WakeUpsAreSafe == Spec => []WakeUpSafe
<1>1. TxInv => WakeUpSafe
  BY DEF TxInv
<1> QED
  BY <1>1, TxInvHolds, PTL

\* Whatever slots are drawn, no two fragments of a node share one.
THEOREM FragmentsNeverCollide == Spec => []OneFragmentPerSlot
<1>1. TxInv => OneFragmentPerSlot
  BY DEF TxInv
<1> QED
  BY <1>1, TxInvHolds, PTL

\* No timer is left behind, and copies, Dequeue and sleep keep their order.
THEOREM ScheduleIsSafe == Spec => []ScheduleSafe
<1>1. TxInv => ScheduleSafe
  BY DEF TxInv
<1> QED
  BY <1>1, TxInvHolds, PTL

\* A fragment leaves on the boundary of the slot its header names, the sender's
\* half of the assertion in CsaMac::Receive.
THEOREM HeadersAreTrue == Spec => []SentInHeaderSlot
<1>1. TxInv => SentInHeaderSlot
  BY DEF TxInv
<1> QED
  BY <1>1, TxInvHolds, PTL

-----------------------------------------------------------------------------
(* Order of packets, refinement and the flag *)

\* f and g are copies of one packet, or f is of an earlier packet.
InOrder(f, g) ==
  \/ f.pkt = g.pkt /\ f.seq = g.seq
  \/ f.pkt < g.pkt /\ f.seq < g.seq

OrderInv ==
  /\ \A i, j \in 1..Len(queue) : i < j => queue[i] < queue[j]
  /\ \A e \in Pending("StartSend") :
       /\ e.frag.pkt <= traced /\ e.frag.seq < seqNo
       /\ \A i \in 1..Len(queue) : e.frag.pkt < queue[i]
  /\ \A a \in air :
       /\ a.frag.pkt <= traced /\ a.frag.seq < seqNo
       /\ \A i \in 1..Len(queue) : a.frag.pkt < queue[i]
  /\ \A e, f \in Pending("StartSend") :
       e.frag.pkt = f.frag.pkt /\ e.frag.seq = f.frag.seq
  /\ \A a \in air, e \in Pending("StartSend") : InOrder(a.frag, e.frag)
  /\ \A a, b \in air : a.slot < b.slot => InOrder(a.frag, b.frag)

-----------------------------------------------------------------------------
(* What the actions do to the copies *)

\* Fragments are well typed.
LEMMA FragTypes ==
  ASSUME TypeOK
  PROVE  /\ \A e \in events : e.slot \in Nat /\ e.frag.pkt \in Nat /\ e.frag.seq \in Nat
         /\ \A a \in air : a.slot \in Nat /\ a.frag.pkt \in Nat /\ a.frag.seq \in Nat
         /\ slot \in Nat /\ traced \in Nat /\ seqNo \in Nat
  BY DEF TypeOK, Event, Fragment

\* Enqueue books and sends nothing.
LEMMA EnqueueKeepsCopies ==
  ASSUME TxInv, Enqueue
  PROVE  /\ Pending("StartSend")' = Pending("StartSend")
         /\ UNCHANGED <<seqNo, air>> /\ traced' = traced + 1
         /\ \/ queue' = Append(queue, traced + 1)
            \/ queue' = queue
         /\ traced < MaxOffered
  <1>1. Pending("StartSend")' = Pending("StartSend")
    BY DEF Enqueue, WakeUp, Pending, NewEvent
  <1> QED
    BY <1>1 DEF Enqueue

\* When a Dequeue runs no copy is pending and all copies on air are older than
\* the slots it draws.
LEMMA DequeueFindsNoCopies ==
  ASSUME TxInv, NEW e \in events, Dequeue(e)
  PROVE  /\ Pending("StartSend") = {}
         /\ \A a \in air : a.slot < slot
<1> USE DEF TxInv
<1>1. e.op = "Dequeue" /\ e.slot = slot
  BY DEF Dequeue, IsNext, Due
<1>2. \A f \in events : f.op # "StartSend"
  BY <1>1 DEF ScheduleSafe, TypeOK, Event
<1> QED
  BY <1>1, <1>2 DEF ScheduleSafe, Pending

\* A Dequeue that finds a packet books N copies of it, each in a slot of its
\* own that does not lie in the past.
LEMMA DequeueBooks ==
  ASSUME TxInv, NEW e \in events, Dequeue(e), queue # <<>>
  PROVE  /\ queue' = Tail(queue) /\ seqNo' = seqNo + 1
         /\ UNCHANGED <<traced, air>>
         /\ \E s \in [1..N -> Nat] :
              /\ \A i, j \in 1..N : s[i] = s[j] => i = j
              /\ \A i \in 1..N : slot <= s[i]
              /\ Booked' = {[slot |-> s[i], pkt |-> Head(queue)] : i \in 1..N}
         /\ \A f \in Pending("StartSend")' :
              f.frag.pkt = Head(queue) /\ f.frag.seq = seqNo
<1> USE DEF TxInv
<1>1. PICK s \in GetNSlots :
        /\ events' = (events \ {e}) \cup SendEvents(Head(queue), s)
        /\ seqNo' = seqNo + 1 /\ queue' = Tail(queue)
  BY DEF Dequeue, SendPacket, NextSeqNo
<1>2. Pending("StartSend") = {}
  BY DequeueFindsNoCopies
<1>3. /\ s \in [1..N -> Nat]
      /\ \A i \in 1..N : slot <= s[i]
      /\ \A i, j \in 1..N : s[i] = s[j] => i = j
  BY DrawnSlots DEF TypeOK
<1> DEFINE send(i) == NewEvent("StartSend", s[i], off, uid + i - 1,
                               PrepareHeader(Head(queue), s, i))
<1>4. Pending("StartSend")' = {send(i) : i \in 1..N}
  <2>1. \A i \in 1..N : send(i).op = "StartSend"
    BY DEF NewEvent
  <2>2. \A f \in events : f.op # "StartSend"
    BY <1>2 DEF Pending
  <2>3. NewEvent("Dequeue", DequeueSlot(s), off, uid + N, NoFragment).op
          # "StartSend"
    BY DEF NewEvent
  <2> QED
    BY <1>1, <2>1, <2>2, <2>3 DEF Pending, SendEvents
<1>5. \A i \in 1..N : /\ send(i).slot = s[i] /\ send(i).frag.pkt = Head(queue)
                      /\ send(i).frag.seq = seqNo
  BY DEF NewEvent, PrepareHeader
<1> HIDE DEF send
<1>6. Booked' = {[slot |-> s[i], pkt |-> Head(queue)] : i \in 1..N}
  BY <1>4, <1>5 DEF Booked, Copy
<1>7. \A f \in Pending("StartSend")' :
        f.frag.pkt = Head(queue) /\ f.frag.seq = seqNo
  BY <1>4, <1>5
<1>8. UNCHANGED <<traced, air>>
  BY DEF Dequeue
<1> QED
  BY <1>1, <1>3, <1>6, <1>7, <1>8

\* A StartSend takes the earliest copy from the pending ones to those on air.
LEMMA StartSendPuts ==
  ASSUME TxInv, NEW e \in events, StartSend(e)
  PROVE  /\ e \in Pending("StartSend") /\ e.slot = slot
         /\ \A f \in Pending("StartSend") : f # e => slot < f.slot
         /\ \A a \in air : a.slot < slot
         /\ Pending("StartSend")' = Pending("StartSend") \ {e}
         /\ air' = air \cup {[slot |-> slot, off |-> off, frag |-> e.frag]}
         /\ UNCHANGED <<queue, seqNo, traced>>
<1> USE DEF TxInv
<1>1. e \in Pending("StartSend") /\ e.slot = slot
  BY DEF StartSend, IsNext, Due, Pending
<1>2. \A f \in Pending("StartSend") : f # e => slot < f.slot
  BY <1>1, FragTypes DEF OneFragmentPerSlot, ScheduleSafe, Pending
<1>3. \A a \in air : a.slot < slot
  BY <1>1 DEF OneFragmentPerSlot, Pending
<1>4. Pending("StartSend")' = Pending("StartSend") \ {e}
  BY DEF StartSend, Pending, NewEvent
<1> QED
  BY <1>1, <1>2, <1>3, <1>4 DEF StartSend

\* EndSend and Tick leave the copies alone.
LEMMA OthersKeepCopies ==
  ASSUME \/ \E e \in events : EndSend(e)
         \/ Tick
         \/ UNCHANGED vars
  PROVE  /\ Pending("StartSend")' = Pending("StartSend")
         /\ UNCHANGED <<queue, seqNo, traced, air>>
  BY DEF EndSend, Tick, vars, Pending

-----------------------------------------------------------------------------
(* The order of packets *)

LEMMA OrderInvInit == Init => OrderInv
  BY DEF Init, OrderInv, Pending

LEMMA EnqueueKeepsOrder ==
  ASSUME TxInv, OrderInv, Enqueue
  PROVE  OrderInv'
<1>1. /\ Pending("StartSend")' = Pending("StartSend")
      /\ UNCHANGED <<seqNo, air>> /\ traced' = traced + 1
  BY EnqueueKeepsCopies
<1>2. queue \in Seq(1..traced) /\ traced \in Nat /\ queue \in Seq(Nat)
  BY DEF TxInv, TypeOK
<1>3. \A i \in 1..Len(queue) : queue[i] <= traced /\ queue[i] \in Nat
  BY <1>2
<1>4. \A e \in Pending("StartSend") : e.frag.pkt \in Nat
  BY FragTypes DEF TxInv, Pending
<1>5. \A a \in air : a.frag.pkt \in Nat
  BY FragTypes DEF TxInv
<1>6. CASE queue' = queue
  <2>1. \A e \in Pending("StartSend") : e.frag.pkt <= traced'
    BY <1>1, <1>2, <1>4 DEF OrderInv
  <2>2. \A a \in air : a.frag.pkt <= traced'
    BY <1>1, <1>2, <1>5 DEF OrderInv
  <2> QED
    BY <1>1, <1>6, <2>1, <2>2, Zenon DEF OrderInv
<1>7. CASE queue' = Append(queue, traced + 1)
  <2>1. /\ Len(queue') = Len(queue) + 1
        /\ \A i \in 1..Len(queue) : queue'[i] = queue[i]
        /\ queue'[Len(queue) + 1] = traced + 1
    BY <1>2, <1>7
  <2>2. \A i \in 1..Len(queue') :
          \/ i \in 1..Len(queue)
          \/ queue'[i] = traced + 1 /\ i = Len(queue) + 1
    BY <1>2, <2>1
  <2>3. \A i, j \in 1..Len(queue') : i < j => queue'[i] < queue'[j]
    <3> SUFFICES ASSUME NEW i \in 1..Len(queue'), NEW j \in 1..Len(queue'),
                        i < j
                 PROVE  queue'[i] < queue'[j]
      OBVIOUS
    <3>1. i \in 1..Len(queue) /\ queue'[i] = queue[i]
      BY <1>2, <2>1
    <3>2. CASE j \in 1..Len(queue)
      BY <2>1, <3>1, <3>2 DEF OrderInv
    <3>3. CASE queue'[j] = traced + 1
      BY <1>2, <1>3, <3>1, <3>3
    <3> QED
      BY <2>2, <3>2, <3>3
  <2>4. \A e \in Pending("StartSend") :
          /\ e.frag.pkt <= traced + 1
          /\ \A i \in 1..Len(queue') : e.frag.pkt < queue'[i]
    BY <1>2, <1>4, <2>1, <2>2 DEF OrderInv
  <2>5. \A a \in air :
          /\ a.frag.pkt <= traced + 1
          /\ \A i \in 1..Len(queue') : a.frag.pkt < queue'[i]
    BY <1>2, <1>5, <2>1, <2>2 DEF OrderInv
  <2> QED
    BY <1>1, <2>3, <2>4, <2>5 DEF OrderInv
<1> QED
  BY <1>6, <1>7, EnqueueKeepsCopies

LEMMA DequeueKeepsOrder ==
  ASSUME TxInv, OrderInv, NEW e \in events, Dequeue(e)
  PROVE  OrderInv'
<1>1. Pending("StartSend") = {}
  BY DequeueFindsNoCopies
<1>2. CASE queue = <<>>
  <2>1. /\ events' \subseteq events /\ UNCHANGED <<queue, seqNo, traced, air>>
    BY <1>2 DEF Dequeue
  <2>2. Pending("StartSend")' = {}
    BY <1>1, <2>1 DEF Pending
  <2> QED
    BY <2>1, <2>2 DEF OrderInv
<1>3. CASE queue # <<>>
  <2>1. /\ queue' = Tail(queue) /\ seqNo' = seqNo + 1
        /\ UNCHANGED <<traced, air>>
        /\ \A f \in Pending("StartSend")' :
             f.frag.pkt = Head(queue) /\ f.frag.seq = seqNo
    BY <1>3, DequeueBooks
  <2>2. /\ queue \in Seq(1..traced) /\ traced \in Nat /\ seqNo \in Nat
    BY DEF TxInv, TypeOK
  <2>3. /\ Len(queue) \in Nat /\ Len(queue) >= 1 /\ Head(queue) = queue[1]
        /\ Head(queue) \in 1..traced
        /\ Len(Tail(queue)) = Len(queue) - 1
        /\ \A i \in 1..Len(Tail(queue)) : Tail(queue)[i] = queue[i + 1]
    <3>1. Len(queue) \in Nat /\ Len(queue) >= 1
      BY <1>3, <2>2
    <3>2. Head(queue) = queue[1] /\ queue[1] \in 1..traced
      BY <2>2, <3>1
    <3>3. /\ Len(Tail(queue)) = Len(queue) - 1
          /\ \A i \in 1..(Len(queue) - 1) : Tail(queue)[i] = queue[i + 1]
      BY <1>3, <2>2, <3>1
    <3> QED
      BY <3>1, <3>2, <3>3
  <2>4. \A i \in 1..Len(queue) : queue[i] \in Nat
    BY <2>2
  <2>5. \A i, j \in 1..Len(queue') : i < j => queue'[i] < queue'[j]
    <3> SUFFICES ASSUME NEW i \in 1..Len(queue'), NEW j \in 1..Len(queue'),
                        i < j
                 PROVE  queue'[i] < queue'[j]
      OBVIOUS
    <3>1. i + 1 \in 1..Len(queue) /\ j + 1 \in 1..Len(queue) /\ i + 1 < j + 1
      BY <2>1, <2>3
    <3>2. queue'[i] = queue[i + 1] /\ queue'[j] = queue[j + 1]
      BY <2>1, <2>3
    <3> QED
      BY <3>1, <3>2 DEF OrderInv
  <2>6. \A f \in Pending("StartSend")' :
          /\ f.frag.pkt <= traced' /\ f.frag.seq < seqNo'
          /\ \A i \in 1..Len(queue') : f.frag.pkt < queue'[i]
    BY <2>1, <2>2, <2>3 DEF OrderInv
  <2>7. \A a \in air : a.frag.seq \in Nat
    BY FragTypes DEF TxInv
  <2>8. \A a \in air' :
          /\ a.frag.pkt <= traced' /\ a.frag.seq < seqNo'
          /\ \A i \in 1..Len(queue') : a.frag.pkt < queue'[i]
    BY <2>1, <2>2, <2>3, <2>7 DEF OrderInv
  <2>9. \A a \in air', f \in Pending("StartSend")' : InOrder(a.frag, f.frag)
    BY <2>1, <2>3 DEF OrderInv, InOrder
  <2>10. \A f, g \in Pending("StartSend")' :
           f.frag.pkt = g.frag.pkt /\ f.frag.seq = g.frag.seq
    BY <2>1
  <2> QED
    BY <2>1, <2>5, <2>6, <2>8, <2>9, <2>10 DEF OrderInv
<1> QED
  BY <1>2, <1>3

LEMMA StartSendKeepsOrder ==
  ASSUME TxInv, OrderInv, NEW e \in events, StartSend(e)
  PROVE  OrderInv'
<1> DEFINE b == [slot |-> slot, off |-> off, frag |-> e.frag]
<1>1. /\ e \in Pending("StartSend")
      /\ \A a \in air : a.slot < slot
      /\ Pending("StartSend")' = Pending("StartSend") \ {e}
      /\ air' = air \cup {b}
      /\ UNCHANGED <<queue, seqNo, traced>>
  BY StartSendPuts
<1>2. b.slot = slot /\ b.frag = e.frag
  OBVIOUS
<1> HIDE DEF b
<1>3. \A a \in air' :
        /\ a.frag.pkt <= traced /\ a.frag.seq < seqNo
        /\ \A i \in 1..Len(queue) : a.frag.pkt < queue[i]
  BY <1>1, <1>2 DEF OrderInv
<1>4. \A f \in Pending("StartSend") : InOrder(b.frag, f.frag)
  BY <1>1, <1>2 DEF OrderInv, InOrder
<1>5. \A a, c \in air' : a.slot < c.slot => InOrder(a.frag, c.frag)
  <2> SUFFICES ASSUME NEW a \in air', NEW c \in air', a.slot < c.slot
               PROVE  InOrder(a.frag, c.frag)
    OBVIOUS
  <2>1. slot \in Nat /\ \A x \in air : x.slot \in Nat
    BY FragTypes DEF TxInv
  <2>2. a \in air
    BY <1>1, <1>2, <2>1
  <2>3. CASE c \in air
    BY <2>2, <2>3 DEF OrderInv
  <2>4. CASE c = b
    BY <1>1, <1>2, <2>2, <2>4 DEF OrderInv
  <2> QED
    BY <1>1, <2>3, <2>4
<1> QED
  BY <1>1, <1>3, <1>4, <1>5 DEF OrderInv

LEMMA OrderInvStep == TxInv /\ OrderInv /\ [Next]_vars => OrderInv'
<1> SUFFICES ASSUME TxInv, OrderInv, [Next]_vars
             PROVE  OrderInv'
  OBVIOUS
<1>1. CASE Enqueue
  BY <1>1, EnqueueKeepsOrder
<1>2. ASSUME NEW e \in events, Dequeue(e)
      PROVE  OrderInv'
  BY <1>2, DequeueKeepsOrder
<1>3. ASSUME NEW e \in events, StartSend(e)
      PROVE  OrderInv'
  BY <1>3, StartSendKeepsOrder
<1>4. CASE (\E e \in events : EndSend(e)) \/ Tick \/ UNCHANGED vars
  BY <1>4, OthersKeepCopies DEF OrderInv
<1> QED
  BY <1>1, <1>2, <1>3, <1>4 DEF Next, Simulator

\* Packets keep their order from the queue to the air.
THEOREM OrderInvHolds == Spec => []OrderInv
<1>1. Init => OrderInv
  BY OrderInvInit
<1>2. TxInv /\ OrderInv /\ [Next]_vars => OrderInv'
  BY OrderInvStep
<1> QED
  BY <1>1, <1>2, TxInvHolds, PTL DEF Spec

\* (source, seqNo), the receivers' key, names the packet, and no packet
\* overtakes another.
THEOREM SeqNosNamePackets == Spec => []SeqNoIdentifiesPacket
<1>1. TxInv /\ OrderInv => SeqNoIdentifiesPacket
  <2> SUFFICES ASSUME TxInv, OrderInv, NEW a \in air, NEW b \in air
               PROVE  /\ a.frag.pkt = b.frag.pkt <=> a.frag.seq = b.frag.seq
                      /\ a.frag.pkt < b.frag.pkt
                           => a.frag.seq < b.frag.seq /\ a.slot < b.slot
    BY DEF SeqNoIdentifiesPacket
  <2>1. /\ a.slot \in Nat /\ a.frag.pkt \in Nat /\ a.frag.seq \in Nat
        /\ b.slot \in Nat /\ b.frag.pkt \in Nat /\ b.frag.seq \in Nat
    BY FragTypes DEF TxInv
  <2>2. CASE a.slot = b.slot
    BY <2>1, <2>2 DEF TxInv, OneFragmentPerSlot
  <2>3. CASE a.slot < b.slot
    BY <2>1, <2>3 DEF OrderInv, InOrder
  <2>4. CASE b.slot < a.slot
    BY <2>1, <2>4 DEF OrderInv, InOrder
  <2> QED
    BY <2>1, <2>2, <2>3, <2>4
<1> QED
  BY <1>1, TxInvHolds, OrderInvHolds, PTL

-----------------------------------------------------------------------------
(* Refinement *)

LEMMA InitRefines == Init => Sender!Init
  BY DEF Init, Sender!Init, Pending, Booked, OnAir

\* A packet the queue takes is new to the abstract sender.
LEMMA EnqueueRefines ==
  ASSUME TxInv, OrderInv, Enqueue
  PROVE  [Sender!Next]_(Sender!vars)
<1>1. Booked' = Booked /\ OnAir' = OnAir /\ traced < MaxOffered
  BY EnqueueKeepsCopies DEF Booked, OnAir
<1>2. CASE queue' = queue
  BY <1>1, <1>2 DEF Sender!vars
<1>3. CASE queue' = Append(queue, traced + 1)
  <2>1. traced \in Nat /\ queue \in Seq(1..traced)
    BY DEF TxInv, TypeOK
  <2>2. \A i \in DOMAIN queue : queue[i] # traced + 1
    BY <2>1
  <2>3. \A b \in Booked \cup OnAir : b.pkt # traced + 1
    <3>1. \A e \in Pending("StartSend") : e.frag.pkt # traced + 1
      BY <2>1, FragTypes DEF OrderInv, TxInv, Pending
    <3>2. \A a \in air : a.frag.pkt # traced + 1
      BY <2>1, FragTypes DEF OrderInv, TxInv
    <3> QED
      BY <3>1, <3>2 DEF Booked, OnAir, Copy
  <2>4. Sender!Accept(traced + 1)
    BY <1>1, <1>3, <2>2, <2>3 DEF Sender!Accept, Sender!InSystem
  <2>5. traced + 1 \in 1..MaxOffered
    BY <1>1, <2>1
  <2> QED
    BY <2>4, <2>5 DEF Sender!Next
<1> QED
  BY <1>2, <1>3, EnqueueKeepsCopies

\* A Dequeue with a packet begins it: N copies, all later than what was sent.
LEMMA DequeueRefines ==
  ASSUME TxInv, OrderInv, NEW e \in events, Dequeue(e)
  PROVE  [Sender!Next]_(Sender!vars)
<1>1. Pending("StartSend") = {} /\ \A a \in air : a.slot < slot
  BY DequeueFindsNoCopies
<1>2. Booked = {}
  BY <1>1 DEF Booked
<1>3. CASE queue = <<>>
  <2>1. events' \subseteq events /\ UNCHANGED <<queue, air>>
    BY <1>3 DEF Dequeue
  <2>2. Booked' = {} /\ OnAir' = OnAir
    BY <1>1, <2>1 DEF Booked, OnAir, Pending
  <2> QED
    BY <1>2, <2>1, <2>2 DEF Sender!vars
<1>4. CASE queue # <<>>
  <2>1. queue' = Tail(queue) /\ air' = air
    BY <1>4, DequeueBooks
  <2>2. PICK s \in [1..N -> Nat] :
          /\ \A i, j \in 1..N : s[i] = s[j] => i = j
          /\ \A i \in 1..N : slot <= s[i]
          /\ Booked' = {[slot |-> s[i], pkt |-> Head(queue)] : i \in 1..N}
    BY <1>4, DequeueBooks
  <2>3. Cardinality(Booked') \in {N}
    <3> DEFINE f == [i \in 1..N |-> [slot |-> s[i], pkt |-> Head(queue)]]
    <3>1. f \in [1..N -> Booked']
      BY <2>2
    <3>2. \A i, j \in 1..N : f[i] = f[j] => i = j
      BY <2>2 DEF Copy
    <3>3. \A b \in Booked' : \E i \in 1..N : f[i] = b
      BY <2>2
    <3>4. f \in Bijection(1..N, Booked')
      BY <3>1, <3>2, <3>3 DEF Bijection, Injection, Surjection, IsInjective
    <3>5. IsFiniteSet(1..N) /\ Cardinality(1..N) = N
      BY FS_Interval, N \in Int, ~(1 > N), N - 1 + 1 = N
    <3>6. ExistsBijection(1..N, Booked')
      BY <3>4 DEF ExistsBijection
    <3> QED
      BY <3>5, <3>6, FS_Bijection
  <2>4. /\ \A b \in Booked' : b.pkt = Head(queue)
        /\ \A b, c \in Booked' : b.slot = c.slot => b = c
    BY <2>2 DEF Copy
  <2>5. \A b \in Booked', a \in OnAir : a.slot < b.slot
    <3> SUFFICES ASSUME NEW b \in Booked', NEW a \in air
                 PROVE  a.slot < b.slot
      BY DEF OnAir, Copy
    <3>1. b.slot \in Nat /\ slot <= b.slot
      BY <2>2 DEF Copy
    <3> QED
      BY <1>1, <3>1, FragTypes DEF TxInv
  <2>6. OnAir' = OnAir
    BY <2>1 DEF OnAir
  <2>7. Sender!Begin
    <3>1. Sender!Cardinality(Booked') = Cardinality(Booked')
      BY DEF Sender!Cardinality, Cardinality
    <3> QED
      BY <1>2, <1>4, <2>1, <2>3, <2>4, <2>5, <2>6, <3>1 DEF Sender!Begin
  <2> QED
    BY <2>7 DEF Sender!Next
<1> QED
  BY <1>3, <1>4

\* A StartSend sends the earliest copy.
LEMMA StartSendRefines ==
  ASSUME TxInv, OrderInv, NEW e \in events, StartSend(e)
  PROVE  [Sender!Next]_(Sender!vars)
<1> DEFINE b == Copy(slot, e.frag)
<1>1. /\ e \in Pending("StartSend") /\ e.slot = slot /\ slot \in Nat
      /\ \A f \in Pending("StartSend") : f # e => slot < f.slot
      /\ Pending("StartSend")' = Pending("StartSend") \ {e}
      /\ queue' = queue
  BY StartSendPuts, FragTypes DEF TxInv
<1>2. b \in Booked
  BY <1>1 DEF Booked
<1>3. Booked' = Booked \ {b}
  BY <1>1 DEF Booked, Copy
<1>4. OnAir' = OnAir \cup {b}
  <2> DEFINE a == [slot |-> slot, off |-> off, frag |-> e.frag]
  <2>1. air' = air \cup {a} /\ a.slot = slot /\ a.frag = e.frag
    BY StartSendPuts
  <2> HIDE DEF a
  <2> QED
    BY <2>1 DEF OnAir
<1>5. \A c \in Booked : b.slot <= c.slot
  BY <1>1, FragTypes DEF Booked, Copy, TxInv, Pending
<1>6. Sender!Put(b)
  BY <1>1, <1>3, <1>4, <1>5 DEF Sender!Put
<1> QED
  BY <1>2, <1>6 DEF Sender!Next

LEMMA StepRefines == TxInv /\ OrderInv /\ [Next]_vars => [Sender!Next]_(Sender!vars)
<1> SUFFICES ASSUME TxInv, OrderInv, [Next]_vars
             PROVE  [Sender!Next]_(Sender!vars)
  OBVIOUS
<1>1. CASE Enqueue
  BY <1>1, EnqueueRefines
<1>2. ASSUME NEW e \in events, Dequeue(e)
      PROVE  [Sender!Next]_(Sender!vars)
  BY <1>2, DequeueRefines
<1>3. ASSUME NEW e \in events, StartSend(e)
      PROVE  [Sender!Next]_(Sender!vars)
  BY <1>3, StartSendRefines
<1>4. CASE (\E e \in events : EndSend(e)) \/ Tick \/ UNCHANGED vars
  <2>1. UNCHANGED <<queue, air>> /\ Pending("StartSend")' = Pending("StartSend")
    BY <1>4, OthersKeepCopies
  <2>2. Booked' = Booked /\ OnAir' = OnAir
    BY <2>1 DEF Booked, OnAir
  <2> QED
    BY <2>1, <2>2 DEF Sender!vars
<1> QED
  BY <1>1, <1>2, <1>3, <1>4 DEF Next, Simulator

\* A CSA node keeps the promise of the abstract sender, whatever its timers and
\* the moments packets come in.
THEOREM MacImplementsSender == Spec => ImplementsSender
<1>1. Init => Sender!Init
  BY InitRefines
<1>2. TxInv /\ OrderInv /\ [Next]_vars => [Sender!Next]_(Sender!vars)
  BY StepRefines
<1> QED
  BY <1>1, <1>2, TxInvHolds, OrderInvHolds, PTL
     DEF Spec, ImplementsSender, Sender!Spec

-----------------------------------------------------------------------------
(***************************************************************************)
(* m_isTx, slot by slot.  FlagInv says when the EndSend of a slot and the  *)
(* StartSend of the next meet, which of them ns-3 runs first: StartSend if *)
(* both are of one packet, because SendPacket scheduled it before the      *)
(* first copy went out, EndSend otherwise.                                 *)
(***************************************************************************)

Starts == Pending("StartSend")
Ends == Pending("EndSend")

\* The copies of this slot for which m_isTx should be set.
Marked ==
  {a \in air : a.slot = slot
                 /\ \A b \in air : b.slot + 1 = slot => b.frag.pkt # a.frag.pkt}

FlagOrder ==
  /\ \A e \in events : e.uid < uid
  /\ \A a \in air : a.slot <= slot
  /\ \A e \in Ends : \E b \in air : b.slot + 1 = e.slot
  /\ \A a \in air : a.slot = slot => \E e \in Ends : e.slot = slot + 1
  /\ \A b \in air, f \in Starts, e \in Ends :
       b.slot + 1 = f.slot /\ e.slot = f.slot =>
         IF b.frag.pkt = f.frag.pkt THEN f.uid < e.uid ELSE e.uid < f.uid
  /\ \A b \in air, f \in Starts :
       b.slot + 1 = f.slot /\ b.frag.pkt = f.frag.pkt =>
         \E e \in Ends : e.slot = f.slot
  /\ \A a, b \in air, e \in Ends :
       a.slot = slot /\ b.slot + 1 = slot /\ e.slot = slot =>
         a.frag.pkt = b.frag.pkt

FlagInv ==
  /\ FlagOrder
  /\ (\A e \in Ends : e.slot # slot) => (isTx <=> Marked # {})

FlagContext == TxInv /\ OrderInv /\ FlagInv

-----------------------------------------------------------------------------
(* FlagInv is an invariant *)

LEMMA FlagInvInit == Init => FlagInv
  BY DEF Init, FlagInv, FlagOrder, Starts, Ends, Pending, Marked

\* Steps that leave the copies, the flag and the clock alone.
LEMMA SameFlag ==
  ASSUME FlagInv, UNCHANGED <<slot, isTx, air>>, Starts' = Starts, Ends' = Ends,
         \A e \in events' : e.uid < uid'
  PROVE  FlagInv'
<1>1. Marked' = Marked
  BY DEF Marked
<1>2. FlagOrder'
  BY DEF FlagInv, FlagOrder
<1> QED
  BY <1>1, <1>2, Zenon DEF FlagInv

LEMMA EnqueueKeepsFlag ==
  ASSUME FlagContext, Enqueue
  PROVE  FlagInv'
<1>1. uid \in Nat /\ \A e \in events : e.uid \in Nat /\ e.uid < uid
  BY DEF FlagContext, FlagInv, FlagOrder, TxInv, TypeOK, Event
<1>2. UNCHANGED <<slot, isTx, air>>
  BY DEF Enqueue, clock
<1> DEFINE d == NewEvent("Dequeue", NextSlot, 0, uid, NoFragment)
<1>3. \/ UNCHANGED <<events, uid>>
      \/ events' = events \cup {d} /\ uid' = uid + 1
  BY DEF Enqueue, WakeUp
<1>4. d.op = "Dequeue" /\ d.uid = uid
  BY DEF NewEvent
<1> HIDE DEF d
<1>5. Starts' = Starts /\ Ends' = Ends
  BY <1>3, <1>4 DEF Starts, Ends, Pending
<1>6. \A e \in events' : e.uid < uid'
  BY <1>1, <1>3, <1>4
<1> QED
  BY <1>2, <1>5, <1>6, SameFlag DEF FlagContext

\* The clock advances when no EndSend is due; a copy of the slot that is over
\* has its EndSend in the next.
LEMMA TickKeepsFlag ==
  ASSUME FlagContext, Tick
  PROVE  FlagInv'
<1>1. UNCHANGED <<events, uid, isTx, air>>
  BY DEF Tick
<1>2. Starts' = Starts /\ Ends' = Ends
  BY <1>1 DEF Starts, Ends, Pending
<1>3. slot \in Nat /\ (slot' = slot \/ slot' = slot + 1)
  BY DEF Tick, FlagContext, TxInv, TypeOK
<1>4. CASE slot' = slot
  BY <1>1, <1>2, <1>4, SameFlag DEF FlagContext, FlagInv, FlagOrder
<1>5. CASE slot' = slot + 1
  <2>1. \A a \in air : a.slot \in Nat /\ a.slot <= slot
    BY FragTypes DEF FlagContext, TxInv, FlagInv, FlagOrder
  <2>2. \A e \in Ends : e.slot # slot
    <3>1. \A e \in events : slot < e.slot
      BY DEF Tick, Due, ScheduleSafe, FlagContext, TxInv, TypeOK, Event
    <3> QED
      BY <1>3, <3>1 DEF Ends, Pending
  <2>3. \A a \in air : a.slot <= slot' /\ a.slot # slot'
    BY <1>3, <1>5, <2>1
  <2>4. Marked' = {}
    BY <1>1, <2>3 DEF Marked
  <2>5. ASSUME \A e \in Ends : e.slot # slot + 1
        PROVE  Marked = {}
    BY <2>5 DEF FlagContext, FlagInv, FlagOrder, Marked
  <2>6. (\A e \in Ends : e.slot # slot') => (isTx' <=> Marked' # {})
    BY <1>1, <1>5, <2>2, <2>4, <2>5, Zenon DEF FlagContext, FlagInv
  <2>7. FlagOrder'
    BY <1>1, <1>2, <2>3 DEF FlagContext, FlagInv, FlagOrder
  <2> QED
    BY <1>2, <2>6, <2>7, Zenon DEF FlagInv
<1> QED
  BY <1>3, <1>4, <1>5

\* The new copies are of a packet later than all that is on air, and are
\* scheduled after the EndSend that may meet the first of them.
LEMMA DequeueKeepsFlag ==
  ASSUME FlagContext, NEW e \in events, Dequeue(e)
  PROVE  FlagInv'
<1>1. uid \in Nat /\ \A f \in events : f.uid \in Nat /\ f.uid < uid
  BY DEF FlagContext, FlagInv, FlagOrder, TxInv, TypeOK, Event
<1>2. UNCHANGED <<slot, isTx, air>> /\ e.op = "Dequeue"
  BY DEF Dequeue, clock
<1>3. CASE queue = <<>>
  <2>1. events' = events \ {e} /\ uid' = uid
    BY <1>3 DEF Dequeue
  <2>2. Starts' = Starts /\ Ends' = Ends
    BY <1>2, <2>1 DEF Starts, Ends, Pending
  <2> QED
    BY <1>1, <1>2, <2>1, <2>2, SameFlag DEF FlagContext
<1>4. CASE queue # <<>>
  <2>1. PICK s \in GetNSlots :
          /\ events' = (events \ {e}) \cup SendEvents(Head(queue), s)
          /\ uid' = uid + N + 1
    BY <1>4 DEF Dequeue, SendPacket
  <2> DEFINE send(i) == NewEvent("StartSend", s[i], off, uid + i - 1,
                                 PrepareHeader(Head(queue), s, i))
             next == NewEvent("Dequeue", DequeueSlot(s), off, uid + N, NoFragment)
  <2>2. events' = (events \ {e}) \cup {send(i) : i \in 1..N} \cup {next}
    BY <2>1 DEF SendEvents
  <2>3. /\ \A i \in 1..N : send(i).op = "StartSend" /\ send(i).uid = uid + i - 1
        /\ next.op = "Dequeue" /\ next.uid = uid + N
    BY DEF NewEvent
  <2> HIDE DEF send, next
  <2>4. \A f \in events' : f.uid < uid'
    BY <1>1, <2>1, <2>2, <2>3
  <2>5. Ends' = Ends
    BY <1>2, <2>2, <2>3 DEF Ends, Pending
  <2>6. Starts = {} /\ \A f \in Starts' : f.uid >= uid
    <3>1. Starts = {}
      BY DequeueFindsNoCopies DEF FlagContext, Starts
    <3>2. \A f \in Starts' : \E i \in 1..N : f = send(i)
      BY <2>2, <2>3, <3>1 DEF Starts, Pending
    <3> QED
      BY <1>1, <2>3, <3>1, <3>2
  <2>7. \A b \in air, f \in Starts' : b.frag.pkt # f.frag.pkt
    <3>1. \A f \in Starts' : f.frag.pkt = Head(queue)
      BY <1>4, DequeueBooks DEF FlagContext, Starts
    <3>2. \A b \in air : b.frag.pkt \in Nat /\ b.frag.pkt < queue[1]
      BY <1>4, FragTypes DEF FlagContext, TxInv, TypeOK, OrderInv
    <3>3. Head(queue) = queue[1] /\ queue[1] \in Nat
      BY <1>4 DEF FlagContext, TxInv, TypeOK
    <3> QED
      BY <3>1, <3>2, <3>3
  <2>8. \A f \in Ends, g \in Starts' : f.uid < g.uid
    <3> SUFFICES ASSUME NEW f \in Ends, NEW g \in Starts' PROVE f.uid < g.uid
      OBVIOUS
    <3>1. f.uid \in Nat /\ f.uid < uid
      BY <1>1 DEF Ends, Pending
    <3>2. g.uid >= uid /\ \E i \in 1..N : g = send(i)
      BY <2>2, <2>3, <2>6 DEF Starts, Pending
    <3>3. g.uid \in Nat
      BY <1>1, <2>3, <3>2
    <3> QED
      BY <1>1, <3>1, <3>2, <3>3
  <2>9. Marked' = Marked
    BY <1>2 DEF Marked
  <2>10. FlagOrder'
    BY <1>2, <2>4, <2>5, <2>7, <2>8 DEF FlagContext, FlagInv, FlagOrder
  <2> QED
    BY <1>2, <2>5, <2>9, <2>10, Zenon DEF FlagContext, FlagInv
<1> QED
  BY <1>3, <1>4

\* The flag goes up for a copy whose packet has none in the slot before, and
\* that copy's own EndSend is due in the next slot.
LEMMA StartSendKeepsFlag ==
  ASSUME FlagContext, NEW e \in events, StartSend(e)
  PROVE  FlagInv'
<1> DEFINE end == NewEvent("EndSend", slot + 1, off, uid, NoFragment)
           c == [slot |-> slot, off |-> off, frag |-> e.frag]
<1>1. /\ e \in Starts /\ e.slot = slot
      /\ \A f \in Starts : f # e => slot < f.slot
      /\ \A a \in air : a.slot < slot
      /\ Starts' = Starts \ {e} /\ air' = air \cup {c}
  BY StartSendPuts DEF FlagContext, Starts
<1>2. /\ events' = (events \ {e}) \cup {end} /\ uid' = uid + 1
      /\ slot' = slot /\ e.op = "StartSend"
  BY DEF StartSend, clock, EndSendSlot
<1>3. isTx' = TRUE
  BY DEF StartSend
<1>4. /\ end.op = "EndSend" /\ end.slot = slot + 1 /\ end.uid = uid
      /\ c.slot = slot /\ c.frag = e.frag
  BY DEF NewEvent
<1> HIDE DEF end, c
<1>5. Ends' = Ends \cup {end}
  BY <1>2, <1>4 DEF Ends, Pending
<1>6. /\ uid \in Nat /\ slot \in Nat
      /\ \A f \in events : f.uid \in Nat /\ f.uid < uid /\ f.slot \in Nat
      /\ \A a \in air : a.slot \in Nat
  BY FragTypes DEF FlagContext, FlagInv, FlagOrder, TxInv, TypeOK, Event
<1>7. \A f \in Ends : f.slot = slot => e.uid <= f.uid
  <2>1. \A f \in events : f.slot = slot => Due(f)
    BY DEF StartSend, IsNext, Due, ScheduleSafe, FlagContext, TxInv
  <2> QED
    BY <2>1 DEF StartSend, IsNext, Ends, Pending
<1>8. \A b \in air, f \in Ends :
        b.slot + 1 = slot /\ f.slot = slot => b.frag.pkt = e.frag.pkt
  <2> SUFFICES ASSUME NEW b \in air, NEW f \in Ends,
                      b.slot + 1 = slot, f.slot = slot,
                      b.frag.pkt # e.frag.pkt
               PROVE  FALSE
    OBVIOUS
  <2>1. f.uid < e.uid
    BY <1>1 DEF FlagContext, FlagInv, FlagOrder
  <2>2. f.uid \in Nat /\ e.uid \in Nat
    BY <1>6 DEF Ends, Pending
  <2> QED
    BY <1>7, <2>1, <2>2
<1>9. \A f \in Starts : f.frag.pkt = e.frag.pkt /\ f.uid < uid /\ f.slot \in Nat
  BY <1>1, <1>6 DEF FlagContext, OrderInv, Starts, Pending
<1>10. FlagOrder'
  <2>1. \A f \in events' : f.uid < uid'
    BY <1>2, <1>4, <1>6
  <2>2. \A a \in air' : a.slot <= slot'
    BY <1>1, <1>2, <1>4, <1>6
  <2>3. \A f \in Ends' : \E b \in air' : b.slot + 1 = f.slot
    BY <1>1, <1>4, <1>5 DEF FlagContext, FlagInv, FlagOrder
  <2>4. \A a \in air' : a.slot = slot' => \E f \in Ends' : f.slot = slot' + 1
    BY <1>2, <1>4, <1>5
  <2>5. ASSUME NEW b \in air', NEW f \in Starts', NEW g \in Ends',
               b.slot + 1 = f.slot, g.slot = f.slot
        PROVE  IF b.frag.pkt = f.frag.pkt THEN f.uid < g.uid ELSE g.uid < f.uid
    <3>1. f \in Starts /\ f # e /\ slot < f.slot
      BY <1>1
    <3>2. CASE b = c
      <4>1. b.frag.pkt = f.frag.pkt
        BY <1>4, <1>9, <3>1, <3>2
      <4>2. g = end
        <5> SUFFICES ASSUME g \in Ends PROVE FALSE
          BY <1>5
        <5>1. PICK a \in air : a.slot + 1 = g.slot
          BY DEF FlagContext, FlagInv, FlagOrder
        <5> QED
          BY <1>1, <1>4, <1>6, <2>5, <3>2, <5>1
      <4> QED
        BY <1>4, <1>9, <3>1, <4>1, <4>2
    <3>3. CASE b \in air
      <4>1. b.slot + 1 <= slot
        BY <1>1, <1>6, <3>3
      <4> QED
        BY <1>6, <1>9, <2>5, <3>1, <4>1
    <3> QED
      BY <1>1, <3>2, <3>3
  <2>6. ASSUME NEW b \in air', NEW f \in Starts', b.slot + 1 = f.slot,
               b.frag.pkt = f.frag.pkt
        PROVE  \E g \in Ends' : g.slot = f.slot
    <3>1. CASE b = c
      BY <1>4, <1>5, <2>6, <3>1
    <3>2. CASE b \in air
      BY <1>1, <1>5, <2>6, <3>2 DEF FlagContext, FlagInv, FlagOrder
    <3> QED
      BY <1>1, <3>1, <3>2
  <2>7. ASSUME NEW a \in air', NEW b \in air', NEW f \in Ends',
               a.slot = slot, b.slot + 1 = slot, f.slot = slot
        PROVE  a.frag.pkt = b.frag.pkt
    <3>1. f \in Ends
      BY <1>4, <1>5, <1>6, <2>7
    <3>2. b \in air
      BY <1>1, <1>4, <1>6, <2>7
    <3>3. a = c
      BY <1>1, <1>6, <2>7
    <3> QED
      BY <1>4, <1>8, <2>7, <3>1, <3>2, <3>3
  <2> QED
    BY <1>2, <2>1, <2>2, <2>3, <2>4, <2>5, <2>6, <2>7 DEF FlagOrder
<1>11. ASSUME \A f \in Ends' : f.slot # slot'
       PROVE  Marked' # {}
  <2>1. \A b \in air' : b.slot + 1 = slot => b.frag.pkt # c.frag.pkt
    <3> SUFFICES ASSUME NEW b \in air, b.slot + 1 = slot,
                        b.frag.pkt = e.frag.pkt
                 PROVE  FALSE
      BY <1>1, <1>4, <1>6
    <3>1. \E f \in Ends : f.slot = slot
      BY <1>1 DEF FlagContext, FlagInv, FlagOrder
    <3> QED
      BY <1>2, <1>5, <1>11, <3>1
  <2>2. c \in Marked'
    BY <1>1, <1>2, <1>4, <2>1 DEF Marked
  <2> QED
    BY <2>2
<1> QED
  BY <1>3, <1>10, <1>11, Zenon DEF FlagInv

\* An EndSend takes the flag from copies of its own packet only.
LEMMA EndSendKeepsFlag ==
  ASSUME FlagContext, NEW e \in events, EndSend(e)
  PROVE  FlagInv'
<1>1. /\ events' = events \ {e} /\ UNCHANGED <<slot, uid, air>>
      /\ e \in Ends /\ e.slot = slot
  BY DEF EndSend, clock, IsNext, Due, Ends, Pending
<1>2. isTx' = FALSE
  BY DEF EndSend
<1>3. Starts' = Starts /\ Ends' = Ends \ {e}
  BY <1>1 DEF Starts, Ends, Pending
<1>4. \A f \in Starts : f.slot = slot => e.uid <= f.uid
  <2>1. \A f \in events : f.slot = slot => Due(f)
    BY DEF EndSend, IsNext, Due, ScheduleSafe, FlagContext, TxInv
  <2> QED
    BY <2>1 DEF EndSend, IsNext, Starts, Pending
<1>5. /\ slot \in Nat
      /\ \A f \in events : f.uid \in Nat /\ f.slot \in Nat
      /\ \A a \in air : a.slot \in Nat
  BY FragTypes DEF FlagContext, TxInv, TypeOK, Event
<1>6. \A b \in air, f \in Starts :
        b.slot + 1 = slot /\ f.slot = slot => b.frag.pkt # f.frag.pkt
  <2> SUFFICES ASSUME NEW b \in air, NEW f \in Starts,
                      b.slot + 1 = slot, f.slot = slot,
                      b.frag.pkt = f.frag.pkt
               PROVE  FALSE
    OBVIOUS
  <2>1. f.uid < e.uid
    BY <1>1 DEF FlagContext, FlagInv, FlagOrder
  <2>2. f.uid \in Nat /\ e.uid \in Nat
    BY <1>5 DEF Starts, Pending
  <2> QED
    BY <1>4, <2>1, <2>2
<1>7. FlagOrder'
  <2>1. \A a \in air : a.slot = slot => \E f \in Ends' : f.slot = slot + 1
    BY <1>1, <1>3, <1>5 DEF FlagContext, FlagInv, FlagOrder
  <2>2. \A b \in air, f \in Starts :
          b.slot + 1 = f.slot /\ b.frag.pkt = f.frag.pkt =>
            \E g \in Ends' : g.slot = f.slot
    <3> SUFFICES ASSUME NEW b \in air, NEW f \in Starts, b.slot + 1 = f.slot,
                        b.frag.pkt = f.frag.pkt
                 PROVE  \E g \in Ends' : g.slot = f.slot
      OBVIOUS
    <3>1. PICK g \in Ends : g.slot = f.slot
      BY DEF FlagContext, FlagInv, FlagOrder
    <3>2. f.slot # slot
      BY <1>6
    <3> QED
      BY <1>1, <1>3, <3>1, <3>2
  <2> QED
    BY <1>1, <1>3, <2>1, <2>2 DEF FlagContext, FlagInv, FlagOrder
<1>8. Marked' = {}
  <2>1. PICK b \in air : b.slot + 1 = slot
    BY <1>1 DEF FlagContext, FlagInv, FlagOrder
  <2>2. \A a \in air : a.slot = slot => a.frag.pkt = b.frag.pkt
    BY <1>1, <2>1 DEF FlagContext, FlagInv, FlagOrder
  <2> QED
    BY <1>1, <2>1, <2>2 DEF Marked
<1> QED
  BY <1>2, <1>7, <1>8, Zenon DEF FlagInv

LEMMA FlagInvStep == FlagContext /\ [Next]_vars => FlagInv'
<1> SUFFICES ASSUME FlagContext, [Next]_vars
             PROVE  FlagInv'
  OBVIOUS
<1>1. CASE Enqueue
  BY <1>1, EnqueueKeepsFlag
<1>2. ASSUME NEW e \in events, Dequeue(e)
      PROVE  FlagInv'
  BY <1>2, DequeueKeepsFlag
<1>3. ASSUME NEW e \in events, StartSend(e)
      PROVE  FlagInv'
  BY <1>3, StartSendKeepsFlag
<1>4. ASSUME NEW e \in events, EndSend(e)
      PROVE  FlagInv'
  BY <1>4, EndSendKeepsFlag
<1>5. CASE Tick
  BY <1>5, TickKeepsFlag
<1>6. CASE UNCHANGED vars
  <2>1. UNCHANGED <<slot, isTx, air, events, uid>>
    BY <1>6 DEF vars
  <2>2. Starts' = Starts /\ Ends' = Ends
    BY <2>1 DEF Starts, Ends, Pending
  <2>3. \A e \in events' : e.uid < uid'
    BY <2>1 DEF FlagContext, FlagInv, FlagOrder
  <2> QED
    BY <2>1, <2>2, <2>3, SameFlag DEF FlagContext
<1> QED
  BY <1>1, <1>2, <1>3, <1>4, <1>5, <1>6 DEF Next, Simulator

-----------------------------------------------------------------------------
(* The theorem *)

\* Between slot boundaries m_isTx is set exactly in the slots the node sends in
\* whose slot before did not carry a copy of the same packet: a node is never deaf
\* where it could listen, and hears while it sends only when EndSend of one copy
\* meets StartSend of the next.
THEOREM FlagIsExact == Spec => []TxFlagExact
<1>1. Init => FlagInv
  BY FlagInvInit
<1>2. TxInv /\ OrderInv /\ FlagInv /\ [Next]_vars => FlagInv'
  BY FlagInvStep DEF FlagContext
<1>3. TxInv /\ FlagInv => TxFlagExact
  <2> SUFFICES ASSUME TxInv, FlagInv, off > 0
               PROVE  isTx <=> Marked # {}
    BY Zenon DEF TxFlagExact, Marked
  <2>1. \A e \in Ends : e.slot # slot
    BY DEF Ends, Pending, TxInv, ScheduleSafe
  <2> QED
    BY <2>1, Zenon DEF FlagInv
<1> QED
  BY <1>1, <1>2, <1>3, TxInvHolds, OrderInvHolds, PTL DEF Spec

=============================================================================
