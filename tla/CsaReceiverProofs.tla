------------------------- MODULE CsaReceiverProofs -------------------------
(***************************************************************************)
(* Proofs about the receiving side, for all packets, strategies, powers,   *)
(* timeouts and thresholds, with and without power solving.                *)
(*                                                                         *)
(* The inductive invariant RxInv joins the properties to prove with what   *)
(* they rest on:                                                           *)
(*   TypeOK and ClockInv   types; the solver works on past slots only;     *)
(*   AskInv                who has asked for the solver of this slot;      *)
(*   TimersMatchBuffers    entries and their timers;                       *)
(*   ContentsInv           what a slot holds was sent in it and heard;     *)
(*   PeelInv               slots neither queued nor worked on are peeled;  *)
(*   IdentityInv           a packet within the timeout has one state.      *)
(*                                                                         *)
(* CancelInv is what perfect cancellation adds: a packet leaves a slot     *)
(* because it is decoded or was never audible there.  With it the receiver *)
(* decodes all that an ideal decoder could and implements the abstract     *)
(* decoder: only what peeling gets out of the fragments heard is decoded,  *)
(* where s > 1 with one fragment of each packet.                           *)
(***************************************************************************)
EXTENDS CsaReceiver, FiniteSetTheorems, TLAPS

InQueue(x) == \E i \in 1..Len(activeSlotQueue) : activeSlotQueue[i] = x

StartEvent(x) == [op |-> "StartSolveAtSlot", slot |-> x]
EndEvent(x) == [op |-> "EndSolve", slot |-> x]

ClockInv ==
  /\ currentSlot <= slot
  /\ phase = "arrivals" => currentSlot < slot /\ SolverIdle
  /\ \A x \in slotBuffer : x <= slot
  /\ solving <= currentSlot

AskInv ==
  /\ \A e \in solveEvents : e.slot = slot
  /\ solvingAsked <=> EndEvent(slot) \in solveEvents
  /\ solvingAsked /\ phase = "arrivals" => StartEvent(slot) \in solveEvents
  /\ HeardSlotsSolved

ContentsInv ==
  \A x \in Slots : \A o \in packets[x] :
    x \in SlotsOf(o.pkt) /\ o \in heard[x] /\ x \in slotBuffer

PeelInv ==
  \A x \in slotBuffer :
    x <= currentSlot /\ x # solving /\ ~InQueue(x) => Peeled(x)

Known(o) == \E x \in Slots : o \in heard[x]

IdentityInv ==
  /\ \A o \in PacketState :
       /\ received[o] = IF IsDecoded(o) THEN 1 ELSE 0
       /\ received[o] > 0 => Known(o)
       /\ Known(o) => /\ o.born \in SlotsOf(o.pkt) /\ o.born <= slot
                      /\ slot < o.born + Timeout => o \in packetBuffer
  /\ \A o \in packetBuffer : Known(o)
  /\ \A o, q \in PacketState :
       Known(o) /\ Known(q) /\ o.pkt = q.pkt /\ Span(o.pkt) < Timeout => o = q

RxInv ==
  /\ TypeOK
  /\ ClockInv
  /\ AskInv
  /\ TimersMatchBuffers
  /\ ContentsInv
  /\ PeelInv
  /\ IdentityInv

USE RxAssumption

-----------------------------------------------------------------------------
(* What is sent *)

LEMMA TransmissionFacts ==
  ASSUME NEW t \in Transmission
  PROVE  /\ t.allSlots \in Seq(Slots) /\ Len(t.allSlots) \in Nat \ {0}
         /\ \A i, j \in 1..Len(t.allSlots) :
              i < j => t.allSlots[i] < t.allSlots[j]
         /\ t.s \in Nat \ {0} /\ t.power \in Nat
<1>1. PICK k \in Strategies :
        t.allSlots \in [1..k.n -> Slots] /\ k.n \in Nat \ {0}
  BY DEF Transmission
<1>2. t.allSlots \in Seq(Slots) /\ Len(t.allSlots) = k.n
  BY <1>1
<1>3. \A i, j \in 1..k.n : i < j => t.allSlots[i] < t.allSlots[j]
  BY <1>1 DEF Transmission
<1>4. t.s \in Nat \ {0} /\ t.power \in Nat
  BY DEF Transmission
<1> QED
  BY <1>1, <1>2, <1>3, <1>4

LEMMA SlotsFacts ==
  ASSUME sent \in [Packets -> Transmission], NEW p \in Packets
  PROVE  /\ SlotsOf(p) \subseteq Slots
         /\ \A x, y \in SlotsOf(p) : x - y <= Span(p)
         /\ Span(p) \in Int
         /\ SlotsOf(p) = {sent[p].allSlots[i] : i \in 1..Len(sent[p].allSlots)}
<1> DEFINE q == sent[p].allSlots
<1>1. /\ q \in Seq(Slots) /\ Len(q) \in Nat \ {0}
      /\ \A i, j \in 1..Len(q) : i < j => q[i] < q[j]
  BY TransmissionFacts
<1> HIDE DEF q
<1>2. SlotsOf(p) = {q[i] : i \in 1..Len(q)}
  BY <1>1 DEF SlotsOf, q
<1>3. \A i \in 1..Len(q) : q[i] \in Nat /\ q[1] <= q[i] /\ q[i] <= q[Len(q)]
  <2> SUFFICES ASSUME NEW i \in 1..Len(q)
               PROVE  q[i] \in Nat /\ q[1] <= q[i] /\ q[i] <= q[Len(q)]
    OBVIOUS
  <2>1. q[i] \in Slots /\ q[1] \in Slots /\ q[Len(q)] \in Slots
    BY <1>1
  <2>2. i = 1 \/ q[1] < q[i]
    BY <1>1
  <2>3. i = Len(q) \/ q[i] < q[Len(q)]
    BY <1>1
  <2> QED
    BY <2>1, <2>2, <2>3 DEF Slots
<1>4. Span(p) = q[Len(q)] - q[1]
  BY DEF Span, q
<1>5. q[1] \in Nat /\ q[Len(q)] \in Nat
  BY <1>1, <1>3
<1>6. SlotsOf(p) \subseteq Slots
  BY <1>1, <1>2
<1>7. \A x, y \in SlotsOf(p) : x - y <= Span(p)
  BY <1>2, <1>3, <1>4, <1>5
<1> QED
  BY <1>1, <1>2, <1>4, <1>5, <1>6, <1>7 DEF q

\* Everything the solver puts on its queue.
LEMMA RequeueFacts ==
  ASSUME TypeOK, NEW o \in PacketState
  PROVE  /\ Requeue(o) \in Seq(Slots)
         /\ \A x : InQueue(x) =>
              \E i \in 1..Len(Requeue(o)) : Requeue(o)[i] = x
         /\ \A x \in SlotsOf(o.pkt) :
              \E i \in 1..Len(Requeue(o)) : Requeue(o)[i] = x
<1> DEFINE q == sent[o.pkt].allSlots
           a == activeSlotQueue
<1>1. o.pkt \in Packets /\ sent[o.pkt] \in Transmission
  BY DEF TypeOK, PacketState
<1>2. q \in Seq(Slots) /\ a \in Seq(Slots)
  BY <1>1, TransmissionFacts DEF TypeOK
<1>3. SlotsOf(o.pkt) = {q[i] : i \in 1..Len(q)}
  BY <1>1, SlotsFacts DEF TypeOK
<1> HIDE DEF q, a
<1>4. Requeue(o) = a \o q
  BY DEF Requeue, q, a
<1>5. Len(a \o q) = Len(a) + Len(q) /\ a \o q \in Seq(Slots)
  BY <1>2
<1>6. \A i \in 1..Len(a) : i \in 1..Len(a \o q) /\ (a \o q)[i] = a[i]
  BY <1>2, <1>5
<1>7. \A i \in 1..Len(q) :
        Len(a) + i \in 1..Len(a \o q) /\ (a \o q)[Len(a) + i] = q[i]
  BY <1>2, <1>5
<1>8. \A x : InQueue(x) => \E i \in 1..Len(a) : a[i] = x
  BY DEF InQueue, a
<1>9. \A x : InQueue(x) =>
        \E i \in 1..Len(Requeue(o)) : Requeue(o)[i] = x
  BY <1>4, <1>6, <1>8
<1>10. \A x \in SlotsOf(o.pkt) :
         \E i \in 1..Len(Requeue(o)) : Requeue(o)[i] = x
  BY <1>3, <1>4, <1>7
<1> QED
  BY <1>4, <1>5, <1>9, <1>10

-----------------------------------------------------------------------------
(* Initially *)

LEMMA RxInvInit == Init => RxInv
<1> SUFFICES ASSUME Init PROVE RxInv
  OBVIOUS
<1>1. \A o \in PacketState : o.pkt \in Packets
  BY DEF PacketState
<1>2. TypeOK
  <2>1. sent \in [Packets -> Transmission]
    BY DEF Init
  <2>2. \A o \in PacketState : count[o] = 0 /\ sent[o.pkt].s \in Nat \ {0}
    BY <1>1, <2>1, TransmissionFacts DEF Init
  <2>3. isTx \in BOOLEAN
    BY DEF Init
  <2>4. solvingAsked \in BOOLEAN
    BY DEF Init
  <2>5. activeSlotQueue \in Seq(Slots) /\ solving \in 0..LastSlot
        /\ currentSlot \in 0..LastSlot
    BY DEF Init
  <2>6. /\ packets \in [Slots -> SUBSET PacketState]
        /\ noise \in [Slots -> Nat]
        /\ heard \in [Slots -> SUBSET PacketState]
        /\ credited \in [PacketState -> SUBSET Slots]
        /\ count \in [PacketState -> Nat] /\ received \in [PacketState -> Nat]
    BY DEF Init
  <2>7. \A o \in PacketState : count[o] <= sent[o.pkt].s
    BY <2>2
  <2> QED
    BY <2>1, <2>3, <2>4, <2>5, <2>6, <2>7 DEF Init, TypeOK
<1>3. ClockInv
  BY DEF Init, ClockInv, SolverIdle
<1>4. AskInv
  BY DEF Init, AskInv, HeardSlotsSolved
<1>5. TimersMatchBuffers
  BY DEF Init, TimersMatchBuffers
<1>6. ContentsInv
  BY DEF Init, ContentsInv
<1>7. PeelInv
  BY DEF Init, PeelInv
<1>8. IdentityInv
  <2>1. \A o \in PacketState : ~Known(o) /\ received[o] = 0 /\ count[o] = 0
    BY DEF Init, Known
  <2>2. \A o \in PacketState : ~IsDecoded(o)
    BY <1>1, <2>1, TransmissionFacts DEF Init, IsDecoded
  <2>3. packetBuffer = {}
    BY DEF Init
  <2> QED
    BY <2>1, <2>2, <2>3 DEF IdentityInv
<1> QED
  BY <1>2, <1>3, <1>4, <1>5, <1>6, <1>7, <1>8 DEF RxInv

-----------------------------------------------------------------------------
(* What each part of the invariant does not depend on *)

LEMMA PeeledFrame ==
  ASSUME NEW x, packets'[x] = packets[x], noise'[x] = noise[x],
         UNCHANGED <<count, sent>>,
         \A o \in packets[x] : x \in credited[o] => x \in credited'[o],
         Peeled(x)
  PROVE  Peeled(x)'
<1>1. \A o : (Removable(x, o)' <=> Removable(x, o))
  BY DEF Removable, IsDecoded, IsClear, Power
<1>2. \A o : (Yields(x, o)' <=> Yields(x, o))
  BY DEF Yields, IsDecodable, Power
<1> QED
  BY <1>1, <1>2 DEF Peeled

LEMMA PeelInvFrame ==
  ASSUME PeelInv, UNCHANGED <<packets, noise, count, sent, credited, solving,
                              activeSlotQueue, currentSlot>>,
         slotBuffer' \subseteq slotBuffer
  PROVE  PeelInv'
<1>1. \A x : InQueue(x)' <=> InQueue(x)
  BY DEF InQueue
<1>2. \A x \in slotBuffer : Peeled(x) => Peeled(x)'
  BY PeeledFrame
<1> QED
  BY <1>1, <1>2 DEF PeelInv

LEMMA IdentityFrame ==
  ASSUME IdentityInv, slot <= slot', TypeOK, slot' \in Nat,
         UNCHANGED <<received, count, sent, heard, packetBuffer>>
  PROVE  IdentityInv'
<1>1. \A o : (Known(o)' <=> Known(o)) /\ (IsDecoded(o)' <=> IsDecoded(o))
  BY DEF Known, IsDecoded
<1>2. \A p : SlotsOf(p)' = SlotsOf(p) /\ Span(p)' = Span(p)
  BY DEF SlotsOf, Span
<1>3. \A o \in PacketState : o.born \in Nat
  BY DEF PacketState, Slots
<1>4. \A o \in PacketState :
        /\ o.born <= slot => o.born <= slot'
        /\ slot' < o.born + Timeout => slot < o.born + Timeout
  BY <1>3 DEF TypeOK
<1> QED
  BY <1>1, <1>2, <1>4 DEF IdentityInv

LEMMA ContentsFrame ==
  ASSUME ContentsInv, UNCHANGED <<packets, sent, heard, slotBuffer>>
  PROVE  ContentsInv'
BY DEF ContentsInv, SlotsOf

LEMMA ArrivedFrame ==
  ASSUME RxInv, arrived' \in SUBSET Packets,
         UNCHANGED <<clockVars, bufferVars, stateVars, solverVars, askVars>>
  PROVE  RxInv'
<1> USE DEF RxInv, clockVars, bufferVars, stateVars, solverVars, askVars
<1>1. TypeOK'
  BY DEF TypeOK
<1>2. ClockInv' /\ AskInv' /\ TimersMatchBuffers'
  BY DEF ClockInv, SolverIdle, AskInv, HeardSlotsSolved, StartEvent, EndEvent,
         TimersMatchBuffers
<1>3. slot <= slot' /\ slot' \in Nat
  BY DEF TypeOK
<1> QED
  BY <1>1, <1>2, <1>3, ContentsFrame, PeelInvFrame, IdentityFrame

-----------------------------------------------------------------------------
(* A fragment is heard *)

LEMMA LookupFacts ==
  ASSUME RxInv, NEW p \in Packets, slot \in Slots
  PROVE  /\ Lookup(p) \in PacketState /\ Lookup(p).pkt = p
         /\ Lookup(p).born <= slot
         /\ \/ Lookup(p) \in packetBuffer
            \/ /\ Lookup(p).born = slot
               /\ \A q \in packetBuffer : q.pkt # p
         /\ \A q \in packetBuffer : q.pkt = p => q = Lookup(p)
<1>1. CASE \E o \in packetBuffer : o.pkt = p
  <2>1. Lookup(p) \in packetBuffer /\ Lookup(p).pkt = p
    BY <1>1 DEF Lookup
  <2> QED
    BY <2>1 DEF RxInv, TypeOK, TimersMatchBuffers
<1>2. CASE ~\E o \in packetBuffer : o.pkt = p
  <2>1. Lookup(p) = [pkt |-> p, born |-> slot]
    BY <1>2 DEF Lookup
  <2> QED
    BY <1>2, <2>1 DEF PacketState, RxInv, TypeOK
<1> QED
  BY <1>1, <1>2

LEMMA ReceiveKeepsInv ==
  ASSUME RxInv, NEW p \in Packets, Receive(p)
  PROVE  RxInv'
<1> USE DEF RxInv
<1>1. phase = "arrivals" /\ SolverIdle /\ slot \in SlotsOf(p) /\ slot \in Slots
  BY SlotsFacts DEF Receive, TypeOK
<1>2. UNCHANGED <<slot, phase, isTx, sent, noise, count, credited, received,
                  activeSlotQueue, currentSlot, solving>>
  BY DEF Receive, clockVars, solverVars
<1>3. arrived' \in SUBSET Packets
  BY DEF Receive, TypeOK
<1>4. CASE isTx /\ UNCHANGED <<bufferVars, packets, heard, askVars>>
  <2>1. UNCHANGED <<clockVars, bufferVars, stateVars, solverVars, askVars>>
    BY <1>2, <1>4 DEF clockVars, bufferVars, stateVars, solverVars
  <2> QED
    BY <1>3, <2>1, ArrivedFrame
<1>5. CASE ~isTx
  <2> DEFINE o == Lookup(p)
  <2>1. /\ AddPacketState(o) /\ AddSlotState /\ AskSolve
        /\ packets' = [packets EXCEPT ![slot] = @ \cup {o}]
        /\ heard' = [heard EXCEPT ![slot] = @ \cup {o}]
    BY <1>5 DEF Receive
  <2>2. /\ o \in PacketState /\ o.pkt = p /\ o.born <= slot
        /\ o \in packetBuffer
             \/ (o.born = slot /\ \A q \in packetBuffer : q.pkt # p)
        /\ \A q \in packetBuffer : q.pkt = p => q = o
    BY <1>1, LookupFacts
  <2> HIDE DEF o
  <2>3. packetBuffer' = packetBuffer \cup {o}
        /\ packetTimers' = packetTimers \cup {o}
    BY <2>1 DEF AddPacketState, TimersMatchBuffers
  <2>4. slotBuffer' = slotBuffer \cup {slot}
        /\ slotTimers' = slotTimers \cup {slot}
    BY <2>1 DEF AddSlotState, TimersMatchBuffers
  <2>5. /\ solvingAsked' = TRUE
        /\ solveEvents' = solveEvents \cup {StartEvent(slot), EndEvent(slot)}
    <3>1. CASE solvingAsked
      <4>1. EndEvent(slot) \in solveEvents /\ StartEvent(slot) \in solveEvents
        BY <1>1, <3>1 DEF AskInv
      <4>2. UNCHANGED <<solvingAsked, solveEvents>>
        BY <2>1, <3>1 DEF AskSolve, askVars
      <4> QED
        BY <3>1, <4>1, <4>2 DEF TypeOK
    <3>2. CASE ~solvingAsked
      BY <2>1, <3>2 DEF AskSolve, StartEvent, EndEvent
    <3> QED
      BY <3>1, <3>2
  <2>6. TypeOK'
    <3>1. packetBuffer' \subseteq PacketState /\ packetTimers' \subseteq PacketState
          /\ slotBuffer' \subseteq Slots /\ slotTimers' \subseteq Slots
      BY <1>1, <2>2, <2>3, <2>4 DEF TypeOK
    <3>2. packets' \in [Slots -> SUBSET PacketState]
          /\ heard' \in [Slots -> SUBSET PacketState]
      BY <1>1, <2>1, <2>2 DEF TypeOK
    <3>3. solvingAsked' \in BOOLEAN
      BY <2>5
    <3>4. solveEvents' \subseteq
            [op : {"StartSolveAtSlot", "EndSolve"}, slot : Slots]
      BY <1>1, <2>5 DEF StartEvent, EndEvent, TypeOK
    <3> QED
      BY <1>2, <1>3, <3>1, <3>2, <3>3, <3>4 DEF TypeOK
  <2>7. ClockInv'
    BY <1>1, <1>2, <2>4 DEF ClockInv, SolverIdle, TypeOK
  <2>8. AskInv'
    <3>1. \A e \in solveEvents' : e.slot = slot
      BY <2>5 DEF AskInv, StartEvent, EndEvent
    <3>2. HeardSlotsSolved'
      BY <1>2, <2>4, <2>5 DEF AskInv, HeardSlotsSolved, StartEvent
    <3> QED
      BY <1>2, <2>5, <3>1, <3>2 DEF AskInv, StartEvent, EndEvent
  <2>9. TimersMatchBuffers'
    <3>1. \A q \in packetBuffer' : q.born <= slot /\ slot <= q.born + Timeout
      BY <2>2, <2>3 DEF TimersMatchBuffers, TypeOK, PacketState, Slots
    <3>2. \A x \in slotBuffer' : x <= slot /\ slot <= x + Timeout
      BY <2>4 DEF TimersMatchBuffers, TypeOK
    <3>3. \A q, r \in packetBuffer' : q.pkt = r.pkt => q = r
      BY <2>2, <2>3 DEF TimersMatchBuffers
    <3> QED
      BY <1>2, <2>3, <2>4, <3>1, <3>2, <3>3 DEF TimersMatchBuffers
  <2>10. ContentsInv'
    <3> SUFFICES ASSUME NEW x \in Slots, NEW q \in packets'[x]
                 PROVE  x \in SlotsOf(q.pkt)' /\ q \in heard'[x]
                        /\ x \in slotBuffer'
      BY DEF ContentsInv
    <3>1. SlotsOf(q.pkt)' = SlotsOf(q.pkt)
      BY <1>2 DEF SlotsOf
    <3>2. CASE q \in packets[x]
      BY <2>1, <2>4, <3>1, <3>2, <1>1 DEF ContentsInv, TypeOK
    <3>3. CASE q \notin packets[x]
      <4>1. x = slot /\ q = o
        BY <1>1, <2>1, <3>3 DEF TypeOK
      <4> QED
        BY <1>1, <2>1, <2>2, <2>4, <3>1, <4>1 DEF TypeOK
    <3> QED
      BY <3>2, <3>3
  <2>11. PeelInv'
    <3>1. \A x \in slotBuffer' : x <= currentSlot =>
            x \in slotBuffer /\ packets'[x] = packets[x]
      <4> SUFFICES ASSUME NEW x \in slotBuffer', x <= currentSlot
                   PROVE  x \in slotBuffer /\ packets'[x] = packets[x]
        OBVIOUS
      <4>1. slotBuffer' \subseteq Slots /\ Slots \subseteq Nat
        BY <2>6 DEF TypeOK, Slots
      <4>2. x # slot
        BY <1>1, <4>1 DEF ClockInv, TypeOK
      <4>3. x \in Slots
        BY <4>1
      <4> QED
        BY <2>1, <2>4, <4>2, <4>3 DEF TypeOK
    <3>2. \A x : InQueue(x)' <=> InQueue(x)
      BY <1>2 DEF InQueue
    <3>3. \A x \in slotBuffer' : x <= currentSlot /\ Peeled(x) => Peeled(x)'
      BY <1>2, <3>1, PeeledFrame
    <3> QED
      BY <1>2, <3>1, <3>2, <3>3 DEF PeelInv
  <2>12. IdentityInv'
    <3>1. \A q : Known(q)' <=> Known(q) \/ q = o
      BY <1>1, <2>1 DEF Known, TypeOK
    <3>2. \A q : IsDecoded(q)' <=> IsDecoded(q)
      BY <1>2 DEF IsDecoded
    <3>3. \A r \in Packets : SlotsOf(r)' = SlotsOf(r) /\ Span(r)' = Span(r)
      BY <1>2 DEF SlotsOf, Span
    <3>4. \A q \in PacketState : q.pkt \in Packets /\ q.born \in Nat
      BY DEF PacketState, Slots
    <3>5. \A q \in PacketState :
            Known(q) /\ q.pkt = p /\ Span(p) < Timeout => q = o
      <4> SUFFICES ASSUME NEW q \in PacketState, Known(q), q.pkt = p,
                          Span(p) < Timeout
                   PROVE  q = o
        OBVIOUS
      <4>1. q.born \in SlotsOf(p)
        BY DEF IdentityInv
      <4>2. slot - q.born <= Span(p) /\ Span(p) \in Int
        BY <1>1, <4>1, SlotsFacts DEF TypeOK
      <4>3. slot < q.born + Timeout
        BY <3>4, <4>2 DEF TypeOK
      <4>4. q \in packetBuffer
        BY <4>3 DEF IdentityInv
      <4> QED
        BY <2>2, <4>4
    <3>6. o.born \in SlotsOf(p)
      BY <1>1, <2>2 DEF IdentityInv
    <3> QED
      BY <1>2, <2>2, <2>3, <3>1, <3>2, <3>3, <3>4, <3>5, <3>6 DEF IdentityInv
  <2> QED
    BY <2>6, <2>7, <2>8, <2>9, <2>10, <2>11, <2>12
<1> QED
  BY <1>4, <1>5 DEF Receive

-----------------------------------------------------------------------------
(* The solver at work *)

\* The only slot whose solver is asked for is the current one, so every other
\* slot up to it has been solved before.
LEMMA StartSolveKeepsInv ==
  ASSUME RxInv, NEW x \in Slots, StartSolveAtSlot(x)
  PROVE  RxInv'
<1> USE DEF RxInv
<1>1. /\ SolverIdle /\ phase = "solve" /\ StartEvent(x) \in solveEvents
      /\ solveEvents' = solveEvents \ {StartEvent(x)}
      /\ activeSlotQueue' = Append(activeSlotQueue, x)
      /\ currentSlot' = x
      /\ UNCHANGED <<slot, phase, isTx, sent, arrived, packetBuffer,
                     packetTimers, slotBuffer, slotTimers, packets, noise,
                     count, heard, credited, received, solving, solvingAsked>>
  BY DEF StartSolveAtSlot, StartEvent, clockVars, bufferVars, stateVars
<1>2. x = slot
  BY <1>1 DEF AskInv, StartEvent
<1>3. activeSlotQueue = <<>> /\ solving = 0 /\ activeSlotQueue' = <<x>>
  BY <1>1 DEF SolverIdle
<1>4. TypeOK'
  <2>1. activeSlotQueue' \in Seq(Slots) /\ currentSlot' \in 0..LastSlot
    BY <1>1, <1>3 DEF Slots, RxAssumption
  <2> QED
    BY <1>1, <2>1 DEF TypeOK
<1>5. ClockInv'
  BY <1>1, <1>2, <1>3 DEF ClockInv, TypeOK
<1>6. AskInv'
  <2>1. HeardSlotsSolved'
    <3> SUFFICES ASSUME NEW y \in slotBuffer PROVE y <= slot
      BY <1>1, <1>2 DEF HeardSlotsSolved
    <3> QED
      BY DEF ClockInv
  <2>2. EndEvent(slot) # StartEvent(x)
    BY DEF EndEvent, StartEvent
  <2>3. EndEvent(slot)' = EndEvent(slot)
    BY <1>1 DEF EndEvent
  <2>4. \A e \in solveEvents' : e.slot = slot'
    BY <1>1 DEF AskInv
  <2>5. solvingAsked' <=> EndEvent(slot) \in solveEvents'
    BY <1>1, <2>2 DEF AskInv
  <2>6. phase' # "arrivals"
    BY <1>1
  <2> QED
    BY <2>1, <2>3, <2>4, <2>5, <2>6 DEF AskInv
<1>7. TimersMatchBuffers'
  BY <1>1 DEF TimersMatchBuffers
<1>8. ContentsInv'
  BY <1>1, ContentsFrame
<1>9. PeelInv'
  <2> SUFFICES ASSUME NEW y \in slotBuffer, y <= x, ~InQueue(y)'
               PROVE  Peeled(y)'
    BY <1>1 DEF PeelInv
  <2>1. y # x
    <3>1. InQueue(x)'
      BY <1>3 DEF InQueue
    <3> QED
      BY <3>1
  <2>2. y \in Nat /\ y > 0 /\ currentSlot \in Nat
    BY DEF TypeOK, Slots
  <2>3. y <= currentSlot
    <3>1. StartEvent(y) \notin solveEvents
      BY <1>2, <2>1 DEF AskInv, StartEvent
    <3> QED
      BY <3>1 DEF AskInv, HeardSlotsSolved, StartEvent
  <2>4. ~InQueue(y) /\ y # solving
    BY <1>3, <2>2 DEF InQueue
  <2>5. Peeled(y)
    BY <2>3, <2>4 DEF PeelInv
  <2> QED
    BY <1>1, <2>5, PeeledFrame
<1>10. IdentityInv'
  <2>1. slot <= slot' /\ slot' \in Nat
    BY <1>1 DEF TypeOK
  <2> QED
    BY <1>1, <2>1, IdentityFrame
<1> QED
  BY <1>4, <1>5, <1>6, <1>7, <1>8, <1>9, <1>10

\* A slot that leaves the queue is worked on, unless it is not solved yet or
\* forgotten.
LEMMA PopSlotKeepsInv ==
  ASSUME RxInv, PopSlot
  PROVE  RxInv'
<1> USE DEF RxInv
<1> DEFINE x == Head(activeSlotQueue)
<1>1. /\ activeSlotQueue # <<>> /\ solving = 0
      /\ activeSlotQueue' = Tail(activeSlotQueue)
      /\ solving' = IF x <= currentSlot /\ x \in slotBuffer THEN x ELSE 0
      /\ UNCHANGED <<slot, phase, isTx, sent, arrived, packetBuffer,
                     packetTimers, slotBuffer, slotTimers, packets, noise,
                     count, heard, credited, received, currentSlot,
                     solvingAsked, solveEvents>>
  BY DEF PopSlot, clockVars, bufferVars, stateVars, askVars
<1>2. x \in Slots /\ activeSlotQueue \in Seq(Slots)
  BY <1>1 DEF TypeOK
<1>3. \A y : InQueue(y) /\ y # x => InQueue(y)'
  <2> SUFFICES ASSUME NEW y, NEW i \in 1..Len(activeSlotQueue),
                      activeSlotQueue[i] = y, y # x
               PROVE  InQueue(y)'
    BY DEF InQueue
  <2>1. i # 1
    BY <1>2
  <2>2. i - 1 \in 1..Len(Tail(activeSlotQueue))
        /\ Tail(activeSlotQueue)[i - 1] = y
    BY <1>1, <1>2, <2>1
  <2> QED
    BY <1>1, <2>2 DEF InQueue
<1>4. TypeOK'
  <2>1. activeSlotQueue' \in Seq(Slots)
    BY <1>1, <1>2
  <2>2. solving' \in 0..LastSlot
    BY <1>1, <1>2 DEF Slots
  <2> QED
    BY <1>1, <2>1, <2>2 DEF TypeOK
<1>5. ClockInv'
  <2>1. phase # "arrivals"
    BY <1>1 DEF ClockInv, SolverIdle
  <2>2. solving' <= currentSlot
    BY <1>1, <1>2 DEF TypeOK, Slots
  <2> QED
    BY <1>1, <2>1, <2>2 DEF ClockInv
<1>6. AskInv' /\ TimersMatchBuffers'
  BY <1>1 DEF AskInv, HeardSlotsSolved, EndEvent, StartEvent,
              TimersMatchBuffers
<1>7. ContentsInv'
  BY <1>1, ContentsFrame
<1>8. PeelInv'
  <2> SUFFICES ASSUME NEW y \in slotBuffer, y <= currentSlot, y # solving',
                      ~InQueue(y)'
               PROVE  Peeled(y)'
    BY <1>1 DEF PeelInv
  <2>1. y # x
    BY <1>1
  <2>2. ~InQueue(y)
    BY <1>3, <2>1
  <2>3. y # solving
    BY <1>1 DEF TypeOK, Slots
  <2>4. Peeled(y)
    BY <2>2, <2>3 DEF PeelInv
  <2> QED
    BY <1>1, <2>4, PeeledFrame
<1>9. IdentityInv'
  <2>1. slot <= slot' /\ slot' \in Nat
    BY <1>1 DEF TypeOK
  <2> QED
    BY <1>1, <2>1, IdentityFrame
<1> QED
  BY <1>4, <1>5, <1>6, <1>7, <1>8, <1>9

\* Removals change only the slot the solver works on.
LEMMA CleanSlotKeepsInv ==
  ASSUME RxInv, CleanSlot
  PROVE  RxInv'
<1> USE DEF RxInv
<1>1. PICK o \in packets[solving] :
        /\ packets' = [packets EXCEPT ![solving] = @ \ {o}]
        /\ noise' = [noise EXCEPT ![solving] = @ + Residual(o)]
  BY DEF CleanSlot
<1>2. solving # 0
      /\ UNCHANGED <<slot, phase, isTx, sent, arrived, packetBuffer,
                     packetTimers, slotBuffer, slotTimers, count, heard,
                     credited, received, activeSlotQueue, currentSlot,
                     solving, solvingAsked, solveEvents>>
  BY DEF CleanSlot, clockVars, bufferVars, solverVars, askVars
<1>3. solving \in Slots
  BY <1>2 DEF TypeOK, Slots
<1>4. Residual(o) \in Nat
  <2>1. o \in PacketState
    BY <1>1, <1>3 DEF TypeOK
  <2>2. Power(o) \in Nat
    BY <2>1, TransmissionFacts DEF Power, TypeOK, PacketState
  <2>3. Power(o) \div 100 \in Nat /\ 100 - Efficiency \in Nat
    BY <2>2
  <2>4. (Power(o) \div 100) * (100 - Efficiency) \in Nat
    BY <2>3
  <2> QED
    BY <2>2, <2>4 DEF Residual
<1>5. TypeOK'
  <2>1. packets' \in [Slots -> SUBSET PacketState]
    BY <1>1, <1>3 DEF TypeOK
  <2>2. noise' \in [Slots -> Nat]
    BY <1>1, <1>3, <1>4 DEF TypeOK
  <2> QED
    BY <1>2, <2>1, <2>2 DEF TypeOK
<1>6. ClockInv' /\ AskInv' /\ TimersMatchBuffers'
  BY <1>2 DEF ClockInv, SolverIdle, AskInv, HeardSlotsSolved, EndEvent,
              StartEvent, TimersMatchBuffers
<1>7. ContentsInv'
  <2>1. \A x \in Slots : packets'[x] \subseteq packets[x]
    BY <1>1 DEF TypeOK
  <2> QED
    BY <1>2, <2>1 DEF ContentsInv, SlotsOf
<1>8. PeelInv'
  <2> SUFFICES ASSUME NEW y \in slotBuffer, y <= currentSlot, y # solving,
                      ~InQueue(y)'
               PROVE  Peeled(y)'
    BY <1>2 DEF PeelInv
  <2>1. ~InQueue(y)
    BY <1>2 DEF InQueue
  <2>2. Peeled(y)
    BY <2>1 DEF PeelInv
  <2>3. packets'[y] = packets[y] /\ noise'[y] = noise[y]
    BY <1>1 DEF TypeOK
  <2> QED
    BY <1>2, <2>2, <2>3, PeeledFrame
<1>9. IdentityInv'
  <2>1. slot <= slot' /\ slot' \in Nat
    BY <1>2 DEF TypeOK
  <2> QED
    BY <1>2, <2>1, IdentityFrame
<1> QED
  BY <1>5, <1>6, <1>7, <1>8, <1>9

\* A credited fragment changes what can be removed from a slot only when it
\* decodes its packet; then all slots of the packet are back on the queue.
LEMMA SolveSlotKeepsInv ==
  ASSUME RxInv, SolveSlot
  PROVE  RxInv'
<1> USE DEF RxInv
<1>1. /\ solving # 0 /\ solving' = 0
      /\ \A o \in packets[solving] : ~Removable(solving, o)
      /\ UNCHANGED <<slot, phase, isTx, sent, arrived, packetBuffer,
                     packetTimers, slotBuffer, slotTimers, packets, noise,
                     heard, currentSlot, solvingAsked, solveEvents>>
  BY DEF SolveSlot, clockVars, bufferVars, askVars
<1>2. solving \in Slots
  BY <1>1 DEF TypeOK, Slots
<1>3. ClockInv' /\ AskInv' /\ TimersMatchBuffers' /\ ContentsInv'
  <2>1. phase # "arrivals"
    BY <1>1 DEF ClockInv, SolverIdle
  <2>2. ClockInv'
    BY <1>1, <2>1 DEF ClockInv, TypeOK
  <2>3. AskInv' /\ TimersMatchBuffers'
    BY <1>1 DEF AskInv, HeardSlotsSolved, EndEvent, StartEvent,
                TimersMatchBuffers
  <2> QED
    BY <1>1, <2>2, <2>3, ContentsFrame
<1>4. CASE /\ \A o \in packets[solving] : ~Yields(solving, o)
           /\ UNCHANGED <<count, credited, received, activeSlotQueue>>
  <2>1. TypeOK'
    <3>1. solving' \in 0..LastSlot
      BY <1>1
    <3> QED
      BY <1>1, <1>4, <3>1 DEF TypeOK
  <2>2. Peeled(solving)
    BY <1>1, <1>4 DEF Peeled
  <2>3. PeelInv'
    <3> SUFFICES ASSUME NEW y \in slotBuffer, y <= currentSlot, ~InQueue(y)'
                 PROVE  Peeled(y)'
      BY <1>1 DEF PeelInv
    <3>1. ~InQueue(y)
      BY <1>4 DEF InQueue
    <3>2. Peeled(y)
      BY <2>2, <3>1 DEF PeelInv
    <3> QED
      BY <1>1, <1>4, <3>2, PeeledFrame
  <2>4. IdentityInv'
    <3>1. slot <= slot' /\ slot' \in Nat
      BY <1>1 DEF TypeOK
    <3> QED
      BY <1>1, <1>4, <3>1, IdentityFrame
  <2> QED
    BY <1>3, <2>1, <2>3, <2>4
<1>5. ASSUME NEW o \in packets[solving], Yields(solving, o), Credit(o)
      PROVE  RxInv'
  <2>1. /\ o \in PacketState /\ o.pkt \in Packets /\ ~IsDecoded(o)
        /\ solving \in SlotsOf(o.pkt) /\ Known(o)
    <3>1. o \in PacketState /\ o.pkt \in Packets
      BY <1>2 DEF TypeOK, PacketState
    <3>2. ~IsDecoded(o)
      BY <1>1 DEF Removable
    <3>3. solving \in SlotsOf(o.pkt) /\ Known(o)
      BY <1>2 DEF ContentsInv, Known
    <3> QED
      BY <3>1, <3>2, <3>3
  <2>2. /\ count' = [count EXCEPT ![o] = @ + 1]
        /\ credited' = [credited EXCEPT ![o] = @ \cup {solving}]
    BY <1>5 DEF Credit
  <2>3. \A q \in PacketState :
          /\ count[q] \in Nat /\ sent[q.pkt].s \in Nat
          /\ count'[q] = IF q = o THEN count[o] + 1 ELSE count[q]
    BY <2>1, <2>2, TransmissionFacts DEF TypeOK, PacketState
  <2>4. count[o] + 1 <= sent[o.pkt].s
    BY <2>1, <2>3 DEF IsDecoded
  <2>5. \A q \in PacketState : credited[q] \subseteq credited'[q]
    BY <2>1, <2>2 DEF TypeOK
  <2>6. solving \in credited'[o]
    BY <2>1, <2>2 DEF TypeOK
  <2>7. \A q \in PacketState : q # o => (IsDecoded(q)' <=> IsDecoded(q))
    BY <1>1, <2>3 DEF IsDecoded
  <2>8. /\ activeSlotQueue' \in Seq(Slots) /\ received' \in [PacketState -> Nat]
        /\ \A x : InQueue(x) => InQueue(x)'
        /\ IsDecoded(o)' => \A x \in Slots : o \in packets[x] => InQueue(x)'
        /\ \A q \in PacketState :
             received'[q] = IF IsDecoded(q)' THEN 1 ELSE 0
    <3>1. CASE count[o] + 1 >= sent[o.pkt].s
      <4>1. /\ received' = [received EXCEPT ![o] = @ + 1]
            /\ activeSlotQueue' = Requeue(o)
        BY <1>5, <3>1 DEF Credit
      <4>2. IsDecoded(o)'
        BY <1>1, <2>1, <2>3, <3>1 DEF IsDecoded
      <4>3. /\ activeSlotQueue' \in Seq(Slots)
            /\ \A x : InQueue(x) => InQueue(x)'
            /\ \A x \in SlotsOf(o.pkt) : InQueue(x)'
        <5>1. /\ Requeue(o) \in Seq(Slots)
              /\ \A x : InQueue(x) =>
                   \E i \in 1..Len(Requeue(o)) : Requeue(o)[i] = x
              /\ \A x \in SlotsOf(o.pkt) :
                   \E i \in 1..Len(Requeue(o)) : Requeue(o)[i] = x
          BY <2>1, RequeueFacts
        <5>2. \A x : InQueue(x)' <=>
                \E i \in 1..Len(Requeue(o)) : Requeue(o)[i] = x
          BY <4>1 DEF InQueue
        <5> QED
          BY <4>1, <5>1, <5>2
      <4>4. received' \in [PacketState -> Nat]
            /\ \A q \in PacketState :
                 received'[q] = IF q = o THEN received[o] + 1 ELSE received[q]
        BY <2>1, <4>1 DEF TypeOK
      <4>5. received[o] = 0
        BY <2>1 DEF IdentityInv
      <4>6. \A q \in PacketState :
              received'[q] = IF IsDecoded(q)' THEN 1 ELSE 0
        BY <2>7, <4>2, <4>4, <4>5 DEF IdentityInv
      <4>7. \A x \in Slots : o \in packets[x] => InQueue(x)'
        BY <4>3 DEF ContentsInv
      <4> QED
        BY <4>3, <4>4, <4>6, <4>7
    <3>2. CASE ~(count[o] + 1 >= sent[o.pkt].s)
      <4>1. UNCHANGED <<received, activeSlotQueue>>
        BY <1>5, <3>2 DEF Credit
      <4>2. ~IsDecoded(o)'
        BY <1>1, <2>1, <2>3, <3>2 DEF IsDecoded
      <4>3. \A q \in PacketState :
              received'[q] = IF IsDecoded(q)' THEN 1 ELSE 0
        BY <2>1, <2>7, <4>1, <4>2 DEF IdentityInv
      <4>4. \A x : InQueue(x) => InQueue(x)'
        BY <4>1 DEF InQueue
      <4> QED
        BY <4>1, <4>2, <4>3, <4>4 DEF TypeOK
    <3> QED
      BY <3>1, <3>2
  <2>9. TypeOK'
    <3>1. count' \in [PacketState -> Nat]
      BY <2>1, <2>2 DEF TypeOK
    <3>2. \A q \in PacketState : count'[q] <= sent'[q.pkt].s
      BY <1>1, <2>3, <2>4 DEF TypeOK
    <3>3. credited' \in [PacketState -> SUBSET Slots]
      BY <1>2, <2>1, <2>2 DEF TypeOK
    <3>4. solving' \in 0..LastSlot
      BY <1>1
    <3> QED
      BY <1>1, <2>8, <3>1, <3>2, <3>3, <3>4 DEF TypeOK
  <2>10. PeelInv'
    <3> SUFFICES ASSUME NEW y \in slotBuffer, y <= currentSlot, ~InQueue(y)'
                 PROVE  Peeled(y)'
      BY <1>1 DEF PeelInv
    <3>1. y \in Slots /\ packets[y] \subseteq PacketState
      BY DEF TypeOK
    <3>2. \A q \in packets[y] : IsDecoded(q)' <=> IsDecoded(q)
      BY <2>1, <2>7, <2>8, <3>1
    <3>3. \A q \in packets[y] : Removable(y, q)' <=> Removable(y, q)
      BY <1>1, <3>2 DEF Removable, IsClear, Power
    <3>4. \A q : Yields(y, q)' <=> Yields(y, q)
      BY <1>1 DEF Yields, IsDecodable, Power
    <3>5. CASE y = solving
      BY <1>1, <1>5, <2>6, <3>3, <3>4, <3>5 DEF Peeled
    <3>6. CASE y # solving
      <4>1. Peeled(y)
        BY <2>8, <3>6 DEF PeelInv
      <4> QED
        BY <1>1, <2>5, <3>1, <3>3, <3>4, <4>1 DEF Peeled
    <3> QED
      BY <3>5, <3>6
  <2>11. IdentityInv'
    <3>1. \A q : Known(q)' <=> Known(q)
      BY <1>1 DEF Known
    <3>2. \A p : SlotsOf(p)' = SlotsOf(p) /\ Span(p)' = Span(p)
      BY <1>1 DEF SlotsOf, Span
    <3>3. \A q \in PacketState : received'[q] > 0 => Known(q)
      BY <2>1, <2>7, <2>8 DEF IdentityInv
    <3> QED
      BY <1>1, <2>8, <3>1, <3>2, <3>3 DEF IdentityInv
  <2> QED
    BY <1>3, <2>9, <2>10, <2>11
<1> QED
  BY <1>4, <1>5 DEF SolveSlot

LEMMA EndSolveKeepsInv ==
  ASSUME RxInv, EndSolve
  PROVE  RxInv'
<1> USE DEF RxInv
<1>1. PICK e \in solveEvents :
        e.op = "EndSolve" /\ solveEvents' = solveEvents \ {e}
  BY DEF EndSolve
<1>2. /\ SolverIdle /\ phase = "endSolve" /\ solvingAsked' = FALSE
      /\ UNCHANGED <<slot, phase, isTx, sent, arrived, packetBuffer,
                     packetTimers, slotBuffer, slotTimers, packets, noise,
                     count, heard, credited, received, activeSlotQueue,
                     currentSlot, solving>>
  BY DEF EndSolve, clockVars, bufferVars, stateVars, solverVars
<1>3. e = EndEvent(slot)
  BY <1>1 DEF EndEvent, AskInv, TypeOK
<1>4. TypeOK'
  <2>1. solvingAsked' \in BOOLEAN
    BY <1>2
  <2>2. solveEvents' \subseteq solveEvents
    BY <1>1
  <2> QED
    BY <1>2, <2>1, <2>2 DEF TypeOK
<1>5. ClockInv' /\ TimersMatchBuffers'
  BY <1>2 DEF ClockInv, SolverIdle, TimersMatchBuffers
<1>6. AskInv'
  <2>1. \A x : StartEvent(x) \in solveEvents' <=> StartEvent(x) \in solveEvents
    BY <1>1, <1>3 DEF StartEvent, EndEvent
  <2>2. HeardSlotsSolved'
    BY <1>2, <2>1 DEF AskInv, HeardSlotsSolved, StartEvent
  <2>3. EndEvent(slot)' \notin solveEvents'
    BY <1>1, <1>2, <1>3 DEF EndEvent
  <2> QED
    BY <1>1, <1>2, <2>2, <2>3 DEF AskInv
<1>7. slot <= slot' /\ slot' \in Nat
  BY <1>2 DEF TypeOK
<1> QED
  BY <1>2, <1>4, <1>5, <1>6, <1>7, ContentsFrame, PeelInvFrame, IdentityFrame

-----------------------------------------------------------------------------
(* Expiry *)

\* The state that leaves the buffer is the one the timer was set for, and the
\* packet can no longer be within its timeout.
LEMMA DeletePacketStateKeepsInv ==
  ASSUME RxInv, NEW o \in PacketState, DeletePacketState(o)
  PROVE  RxInv'
<1> USE DEF RxInv
<1>1. /\ o \in packetTimers /\ slot = o.born + Timeout
      /\ packetTimers' = packetTimers \ {o}
      /\ packetBuffer' = {q \in packetBuffer : q.pkt # o.pkt}
      /\ UNCHANGED <<slot, phase, isTx, sent, arrived, slotBuffer, slotTimers,
                     packets, noise, count, heard, credited, received,
                     activeSlotQueue, currentSlot, solving, solvingAsked,
                     solveEvents>>
  BY DEF DeletePacketState, clockVars, stateVars, solverVars, askVars
<1>2. packetBuffer' = packetBuffer \ {o}
  BY <1>1 DEF TimersMatchBuffers
<1>3. TypeOK'
  <2>1. packetBuffer' \subseteq packetBuffer /\ packetTimers' \subseteq packetTimers
    BY <1>1, <1>2
  <2> QED
    BY <1>1, <2>1 DEF TypeOK
<1>4. ClockInv' /\ AskInv'
  BY <1>1 DEF ClockInv, SolverIdle, AskInv, HeardSlotsSolved, EndEvent,
              StartEvent
<1>5. TimersMatchBuffers'
  BY <1>1, <1>2 DEF TimersMatchBuffers
<1>6. IdentityInv'
  <2>1. \A q : (Known(q)' <=> Known(q)) /\ (IsDecoded(q)' <=> IsDecoded(q))
    BY <1>1 DEF Known, IsDecoded
  <2>2. \A p : SlotsOf(p)' = SlotsOf(p) /\ Span(p)' = Span(p)
    BY <1>1 DEF SlotsOf, Span
  <2>3. \A q \in PacketState :
          slot < q.born + Timeout /\ q \in packetBuffer => q \in packetBuffer'
    BY <1>1, <1>2 DEF TypeOK
  <2> QED
    BY <1>1, <1>2, <2>1, <2>2, <2>3 DEF IdentityInv
<1> QED
  BY <1>1, <1>3, <1>4, <1>5, <1>6, ContentsFrame, PeelInvFrame

LEMMA DeleteSlotStateKeepsInv ==
  ASSUME RxInv, NEW x \in Slots, DeleteSlotState(x)
  PROVE  RxInv'
<1> USE DEF RxInv
<1>1. /\ x \in slotTimers /\ slotTimers' = slotTimers \ {x}
      /\ slotBuffer' = slotBuffer \ {x}
      /\ packets' = [packets EXCEPT ![x] = {}]
      /\ noise' = [noise EXCEPT ![x] = DefaultNoise]
      /\ UNCHANGED <<slot, phase, isTx, sent, arrived, packetBuffer,
                     packetTimers, count, heard, credited, received,
                     activeSlotQueue, currentSlot, solving, solvingAsked,
                     solveEvents>>
  BY DEF DeleteSlotState, clockVars, solverVars, askVars
<1>2. TypeOK'
  <2>1. slotBuffer' \subseteq slotBuffer /\ slotTimers' \subseteq slotTimers
    BY <1>1
  <2>2. packets' \in [Slots -> SUBSET PacketState]
    BY <1>1 DEF TypeOK
  <2>3. noise' \in [Slots -> Nat]
    BY <1>1 DEF TypeOK
  <2> QED
    BY <1>1, <2>1, <2>2, <2>3 DEF TypeOK
<1>3. ClockInv' /\ AskInv'
  BY <1>1 DEF ClockInv, SolverIdle, AskInv, HeardSlotsSolved, EndEvent,
              StartEvent
<1>4. TimersMatchBuffers'
  BY <1>1 DEF TimersMatchBuffers
<1>5. ContentsInv'
  <2>1. \A y \in Slots :
          packets'[y] = IF y = x THEN {} ELSE packets[y]
    BY <1>1 DEF TypeOK
  <2> QED
    BY <1>1, <2>1 DEF ContentsInv, SlotsOf
<1>6. PeelInv'
  <2> SUFFICES ASSUME NEW y \in slotBuffer', y <= currentSlot, y # solving,
                      ~InQueue(y)'
               PROVE  Peeled(y)'
    BY <1>1 DEF PeelInv
  <2>1. y \in slotBuffer /\ y # x /\ y \in Slots
    BY <1>1 DEF TypeOK
  <2>2. ~InQueue(y)
    BY <1>1 DEF InQueue
  <2>3. Peeled(y)
    BY <2>1, <2>2 DEF PeelInv
  <2>4. packets'[y] = packets[y] /\ noise'[y] = noise[y]
    BY <1>1, <2>1 DEF TypeOK
  <2> QED
    BY <1>1, <2>3, <2>4, PeeledFrame
<1>7. slot <= slot' /\ slot' \in Nat
  BY <1>1 DEF TypeOK
<1> QED
  BY <1>1, <1>2, <1>3, <1>4, <1>5, <1>6, <1>7, IdentityFrame

-----------------------------------------------------------------------------
(* The clock *)

LEMMA TickKeepsInv ==
  ASSUME RxInv, Tick
  PROVE  RxInv'
<1> USE DEF RxInv
<1>1. SolverIdle /\ activeSlotQueue = <<>> /\ solving = 0
      /\ UNCHANGED <<sent, packetBuffer, packetTimers, slotBuffer, slotTimers,
                     packets, noise, count, heard, credited, received,
                     activeSlotQueue, currentSlot, solving, solvingAsked,
                     solveEvents>>
  BY DEF Tick, SolverIdle, bufferVars, stateVars, solverVars, askVars
<1>2. SolverIdle'
  BY <1>1 DEF SolverIdle
<1>3. CASE /\ UNCHANGED <<slot, isTx, arrived>>
           /\ phase' \in {"solve", "endSolve"}
  <2>1. TypeOK'
    BY <1>1, <1>3 DEF TypeOK
  <2>2. ClockInv' /\ TimersMatchBuffers'
    BY <1>1, <1>3 DEF ClockInv, TimersMatchBuffers
  <2>3. AskInv'
    BY <1>1, <1>3 DEF AskInv, HeardSlotsSolved, EndEvent, StartEvent
  <2>4. slot <= slot' /\ slot' \in Nat
    BY <1>3 DEF TypeOK
  <2> QED
    BY <1>1, <2>1, <2>2, <2>3, <2>4, ContentsFrame, PeelInvFrame, IdentityFrame
<1>4. CASE /\ solveEvents = {}
           /\ \A o \in packetTimers : slot # o.born + Timeout
           /\ \A x \in slotTimers : slot # x + Timeout
           /\ phase' = "arrivals" /\ slot' = slot + 1
           /\ isTx' \in TxChoices /\ arrived' = {}
  <2>1. slot \in Nat /\ slot' \in Nat /\ slot' = slot + 1
        /\ currentSlot \in Nat /\ Timeout \in Nat
    BY <1>4 DEF TypeOK
  <2>2. TypeOK'
    <3>1. isTx' \in BOOLEAN
      BY <1>4
    <3>2. arrived' \subseteq Packets /\ phase' \in {"arrivals", "solve", "endSolve"}
      BY <1>4
    <3> QED
      BY <1>1, <2>1, <3>1, <3>2 DEF TypeOK
  <2>3. ClockInv'
    <3>1. \A x \in slotBuffer : x <= slot'
      BY <2>1 DEF ClockInv, TypeOK, Slots
    <3>2. currentSlot < slot'
      BY <2>1 DEF ClockInv
    <3> QED
      BY <1>1, <1>2, <2>1, <3>1, <3>2 DEF ClockInv
  <2>4. AskInv'
    <3>1. ~solvingAsked
      BY <1>4 DEF AskInv
    <3> QED
      BY <1>1, <1>4, <3>1 DEF AskInv, HeardSlotsSolved
  <2>5. TimersMatchBuffers'
    <3>1. \A o \in packetBuffer : o.born <= slot' /\ slot' <= o.born + Timeout
      <4> SUFFICES ASSUME NEW o \in packetBuffer
                   PROVE  o.born <= slot' /\ slot' <= o.born + Timeout
        OBVIOUS
      <4>1. o.born \in Nat /\ o.born <= slot /\ slot <= o.born + Timeout
        BY DEF TimersMatchBuffers, TypeOK, PacketState, Slots
      <4>2. slot # o.born + Timeout
        BY <1>4 DEF TimersMatchBuffers
      <4> QED
        BY <2>1, <4>1, <4>2
    <3>2. \A x \in slotBuffer : x <= slot' /\ slot' <= x + Timeout
      <4> SUFFICES ASSUME NEW x \in slotBuffer
                   PROVE  x <= slot' /\ slot' <= x + Timeout
        OBVIOUS
      <4>1. x \in Nat /\ x <= slot /\ slot <= x + Timeout
        BY DEF TimersMatchBuffers, TypeOK, Slots
      <4>2. slot # x + Timeout
        BY <1>4 DEF TimersMatchBuffers
      <4> QED
        BY <2>1, <4>1, <4>2
    <3> QED
      BY <1>1, <3>1, <3>2 DEF TimersMatchBuffers
  <2>6. slot <= slot'
    BY <2>1
  <2> QED
    BY <1>1, <2>1, <2>2, <2>3, <2>4, <2>5, <2>6, ContentsFrame, PeelInvFrame,
       IdentityFrame
<1> QED
  BY <1>3, <1>4 DEF Tick

-----------------------------------------------------------------------------
(* The theorems *)

LEMMA RxInvStep == RxInv /\ [Next]_vars => RxInv'
<1> SUFFICES ASSUME RxInv, [Next]_vars PROVE RxInv'
  OBVIOUS
<1>1. ASSUME NEW p \in Packets, Receive(p) PROVE RxInv'
  BY <1>1, ReceiveKeepsInv
<1>2. ASSUME NEW x \in Slots, StartSolveAtSlot(x) PROVE RxInv'
  BY <1>2, StartSolveKeepsInv
<1>3. ASSUME NEW x \in Slots, DeleteSlotState(x) PROVE RxInv'
  BY <1>3, DeleteSlotStateKeepsInv
<1>4. ASSUME NEW o \in PacketState, DeletePacketState(o) PROVE RxInv'
  BY <1>4, DeletePacketStateKeepsInv
<1>5. CASE PopSlot
  BY <1>5, PopSlotKeepsInv
<1>6. CASE CleanSlot
  BY <1>6, CleanSlotKeepsInv
<1>7. CASE SolveSlot
  BY <1>7, SolveSlotKeepsInv
<1>8. CASE EndSolve
  BY <1>8, EndSolveKeepsInv
<1>9. CASE Tick
  BY <1>9, TickKeepsInv
<1>10. CASE UNCHANGED vars
  <2>1. arrived' \in SUBSET Packets
    BY <1>10 DEF vars, RxInv, TypeOK
  <2>2. UNCHANGED <<clockVars, bufferVars, stateVars, solverVars, askVars>>
    BY <1>10 DEF vars
  <2> QED
    BY <2>1, <2>2, ArrivedFrame
<1> QED
  BY <1>1, <1>2, <1>3, <1>4, <1>5, <1>6, <1>7, <1>8, <1>9, <1>10 DEF Next

\* The inductive invariant holds in every reachable state.
THEOREM RxInvHolds == Spec => []RxInv
BY RxInvInit, RxInvStep, PTL DEF Spec

\* Types: every counter, buffer, timer and queue of the receiver holds what it
\* is declared for, and PacketState::count never passes s.
THEOREM RxTypeCorrect == Spec => []TypeOK
<1>1. RxInv => TypeOK
  BY DEF RxInv
<1> QED
  BY <1>1, RxInvHolds, PTL

\* The cascade of CsaSolver::Solve is finished whenever the solver rests: no
\* slot it has worked on could be peeled further, whatever the order in which
\* CleanSlot took the packets out.
THEOREM PeelingIsComplete == Spec => []PeelingComplete
<1>1. RxInv => PeelingComplete
  <2> SUFFICES ASSUME RxInv, SolverIdle, NEW x \in slotBuffer, x <= currentSlot
               PROVE  Peeled(x)
    BY DEF PeelingComplete
  <2>1. x # solving
    BY DEF RxInv, TypeOK, SolverIdle, Slots
  <2>2. ~InQueue(x)
    BY DEF SolverIdle, InQueue
  <2> QED
    BY <2>1, <2>2 DEF RxInv, PeelInv
<1> QED
  BY <1>1, RxInvHolds, PTL

\* Mac::Solve loses no request: every slot in which something was heard has
\* been through the solver, or its StartSolveAtSlot is pending.
THEOREM HeardSlotsAreSolved == Spec => []HeardSlotsSolved
<1>1. RxInv => HeardSlotsSolved
  BY DEF RxInv, AskInv
<1> QED
  BY <1>1, RxInvHolds, PTL

\* CsaSolver::Decode hands a packet to ForwardUp at most once, as long as its
\* copies are closer together than the timeout of the packet buffer.
THEOREM HandedUpOnce == Spec => []AtMostOnce
<1>1. RxInv => AtMostOnce
  <2> SUFFICES ASSUME RxInv,
                      NEW o \in PacketState, received[o] > 0,
                      NEW q \in PacketState, received[q] > 0,
                      o.pkt = q.pkt, Span(o.pkt) < Timeout
               PROVE  o = q /\ received[o] = 1
    BY DEF AtMostOnce
  <2>1. Known(o) /\ Known(q)
    BY DEF RxInv, IdentityInv
  <2>2. o = q
    BY <2>1 DEF RxInv, IdentityInv
  <2>3. received[o] = 1
    BY DEF RxInv, IdentityInv
  <2> QED
    BY <2>2, <2>3
<1> QED
  BY <1>1, RxInvHolds, PTL

\* The expiry events of CsaMac and the entries of its two buffers go together,
\* one for one, and no entry outlives its timeout.
THEOREM TimersMatch == Spec => []TimersMatchBuffers
<1>1. RxInv => TimersMatchBuffers
  BY DEF RxInv
<1> QED
  BY <1>1, RxInvHolds, PTL

-----------------------------------------------------------------------------
(* What perfect cancellation adds *)

CancelInv ==
  /\ \A x \in Slots : noise[x] = DefaultNoise
  /\ \A x \in Slots : heard[x] # {} =>
       x <= slot /\ (slot < x + Timeout => x \in slotBuffer)
  /\ \A x \in slotBuffer : \A o \in Audible(x) : o \in packets[x] \/ IsDecoded(o)
  /\ solving # 0 => solving \in slotBuffer
  /\ \A o \in PacketState :
       IsFiniteSet(credited[o]) /\ Cardinality(credited[o]) <= count[o]

-----------------------------------------------------------------------------
(* CancelInv is an invariant *)

LEMMA CancelInit == Init => CancelInv
<1> SUFFICES ASSUME Init PROVE CancelInv
  OBVIOUS
<1>1. \A o \in PacketState : IsFiniteSet(credited[o]) /\ Cardinality(credited[o]) <= count[o]
  BY FS_EmptySet DEF Init
<1> QED
  BY <1>1 DEF Init, CancelInv

\* Steps that change none of what CancelInv speaks of but the clock.
LEMMA CancelFrame ==
  ASSUME TypeOK, CancelInv,
         UNCHANGED <<sent, packets, noise, count, heard, credited, slotBuffer>>,
         slot' \in Nat, slot <= slot',
         solving' # 0 => solving' \in slotBuffer
  PROVE  CancelInv'
<1>1. \A x : Audible(x)' = Audible(x)
  BY DEF Audible, Power
<1>2. \A o : IsDecoded(o)' <=> IsDecoded(o)
  BY DEF IsDecoded
<1>3. \A x \in Slots : heard'[x] # {} =>
        x <= slot' /\ (slot' < x + Timeout => x \in slotBuffer')
  <2> SUFFICES ASSUME NEW x \in Slots, heard[x] # {}
               PROVE  x <= slot' /\ (slot' < x + Timeout => x \in slotBuffer)
    OBVIOUS
  <2>1. x \in Nat /\ slot \in Nat /\ Timeout \in Nat
    BY DEF TypeOK, Slots
  <2>2. x <= slot /\ (slot < x + Timeout => x \in slotBuffer)
    BY DEF CancelInv
  <2> QED
    BY <2>1, <2>2
<1> QED
  BY <1>1, <1>2, <1>3 DEF CancelInv

LEMMA ReceiveKeepsCancel ==
  ASSUME RxInv, CancelInv, NEW p \in Packets, Receive(p)
  PROVE  CancelInv'
<1> USE DEF RxInv
<1>1. /\ slot \in Slots
      /\ UNCHANGED <<slot, sent, noise, count, credited, solving>>
      /\ solving = 0
  BY SlotsFacts DEF Receive, TypeOK, clockVars, solverVars, SolverIdle
<1>2. CASE isTx
  <2>1. UNCHANGED <<packets, heard, slotBuffer>>
    BY <1>2 DEF Receive, bufferVars
  <2> QED
    BY <1>1, <2>1, CancelFrame DEF TypeOK
<1>3. CASE ~isTx
  <2> DEFINE o == Lookup(p)
  <2>1. /\ packets' = [packets EXCEPT ![slot] = @ \cup {o}]
        /\ heard' = [heard EXCEPT ![slot] = @ \cup {o}]
        /\ slotBuffer' = slotBuffer \cup {slot}
    BY <1>3 DEF Receive, AddSlotState
  <2> HIDE DEF o
  <2>2. /\ packets'[slot] = packets[slot] \cup {o}
        /\ heard'[slot] = heard[slot] \cup {o}
        /\ \A x \in Slots : x # slot => packets'[x] = packets[x] /\ heard'[x] = heard[x]
    BY <1>1, <2>1 DEF TypeOK
  <2>3. \A q : (IsDecoded(q)' <=> IsDecoded(q)) /\ Power(q)' = Power(q)
    BY <1>1 DEF IsDecoded, Power
  <2>4. \A x \in Slots : heard'[x] # {} =>
          x <= slot' /\ (slot' < x + Timeout => x \in slotBuffer')
    BY <1>1, <2>1, <2>2 DEF CancelInv, TypeOK, Slots
  <2>5. heard[slot] # {} => slot \in slotBuffer
    BY <1>1 DEF CancelInv, TypeOK
  <2>6. ASSUME NEW x \in slotBuffer', NEW q \in Audible(x)'
        PROVE  q \in packets'[x] \/ IsDecoded(q)'
    <3>1. x \in Slots
      BY <1>1, <2>1 DEF TypeOK
    <3>2. CASE x # slot
      BY <2>1, <2>2, <2>3, <3>1, <3>2 DEF CancelInv, Audible
    <3>3. CASE x = slot
      BY <2>2, <2>3, <2>5, <3>1, <3>3 DEF CancelInv, Audible
    <3> QED
      BY <3>2, <3>3
  <2> QED
    BY <1>1, <2>4, <2>6 DEF CancelInv
<1> QED
  BY <1>2, <1>3

LEMMA CleanSlotKeepsCancel ==
  ASSUME Efficiency = 100, RxInv, CancelInv, CleanSlot
  PROVE  CancelInv'
<1> USE DEF RxInv
<1>1. PICK o \in packets[solving] :
        /\ Removable(solving, o)
        /\ packets' = [packets EXCEPT ![solving] = @ \ {o}]
        /\ noise' = [noise EXCEPT ![solving] = @ + Residual(o)]
  BY DEF CleanSlot
<1>2. /\ UNCHANGED <<slot, sent, count, heard, credited, slotBuffer, solving>>
      /\ solving # 0
  BY DEF CleanSlot, clockVars, bufferVars, solverVars
<1>3. solving \in Slots
  BY <1>2 DEF TypeOK, Slots
<1>4. noise' = noise
  <2>1. Residual(o) = 0
    BY DEF Residual
  <2> QED
    BY <1>1, <1>3, <2>1 DEF TypeOK
<1>5. IsDecoded(o) \/ o \notin Audible(solving)
  BY <1>1, <1>3 DEF Removable, IsClear, Audible, CancelInv
<1>6. \A x : Audible(x)' = Audible(x)
  BY <1>2 DEF Audible, Power
<1>7. \A q : IsDecoded(q)' <=> IsDecoded(q)
  BY <1>2 DEF IsDecoded
<1>8. ASSUME NEW x \in slotBuffer, NEW q \in Audible(x)
      PROVE  q \in packets'[x] \/ IsDecoded(q)
  <2>1. q \in packets[x] \/ IsDecoded(q)
    BY DEF CancelInv
  <2>2. x \in Slots
    BY DEF TypeOK
  <2>3. CASE x # solving
    BY <1>1, <2>1, <2>2, <2>3 DEF TypeOK
  <2>4. CASE x = solving
    BY <1>1, <1>3, <1>5, <2>1, <2>4 DEF TypeOK
  <2> QED
    BY <2>3, <2>4
<1> QED
  BY <1>2, <1>4, <1>6, <1>7, <1>8 DEF CancelInv

LEMMA CreditKeepsCancel ==
  ASSUME RxInv, CancelInv, solving \in Slots, NEW o \in PacketState, Credit(o),
         UNCHANGED <<slot, sent, packets, noise, heard, slotBuffer>>, solving' = 0
  PROVE  CancelInv'
<1> USE DEF RxInv
<1>1. /\ count' = [count EXCEPT ![o] = @ + 1]
      /\ credited' = [credited EXCEPT ![o] = @ \cup {solving}]
  BY DEF Credit
<1>2. \A x : Audible(x)' = Audible(x)
  BY DEF Audible, Power
<1>3. ASSUME NEW q \in PacketState, IsDecoded(q)
      PROVE  IsDecoded(q)'
  <2>1. count[q] \in Nat /\ sent[q.pkt].s \in Nat
    BY TransmissionFacts DEF TypeOK, PacketState
  <2>2. count'[q] = count[q] \/ count'[q] = count[q] + 1
    BY <1>1 DEF TypeOK
  <2> QED
    BY <1>3, <2>1, <2>2 DEF IsDecoded
<1>4. ASSUME NEW q \in PacketState
      PROVE  IsFiniteSet(credited'[q]) /\ Cardinality(credited'[q]) <= count'[q]
  <2>1. /\ IsFiniteSet(credited[q]) /\ Cardinality(credited[q]) <= count[q]
        /\ count[q] \in Nat
    BY DEF CancelInv, TypeOK
  <2>2. CASE q # o
    BY <1>1, <2>1, <2>2 DEF TypeOK
  <2>3. CASE q = o
    <3>1. credited'[q] = credited[q] \cup {solving} /\ count'[q] = count[q] + 1
      BY <1>1, <2>3 DEF TypeOK
    <3>2. /\ IsFiniteSet(credited[q] \cup {solving})
          /\ \/ Cardinality(credited[q] \cup {solving}) = Cardinality(credited[q])
             \/ Cardinality(credited[q] \cup {solving}) = Cardinality(credited[q]) + 1
      BY <2>1, FS_AddElement
    <3>3. Cardinality(credited[q]) \in Nat
      BY <2>1, FS_CardinalityType
    <3> QED
      BY <2>1, <3>1, <3>2, <3>3
  <2> QED
    BY <2>2, <2>3
<1>5. ASSUME NEW x \in slotBuffer', NEW q \in Audible(x)'
      PROVE  q \in packets'[x] \/ IsDecoded(q)'
  <2>1. q \in PacketState
    BY <1>2 DEF Audible, TypeOK
  <2> QED
    BY <1>2, <1>3, <2>1 DEF CancelInv
<1> QED
  BY <1>4, <1>5 DEF CancelInv

LEMMA DeleteSlotKeepsCancel ==
  ASSUME RxInv, CancelInv, NEW x \in Slots, DeleteSlotState(x)
  PROVE  CancelInv'
<1> USE DEF RxInv
<1>1. /\ slot = x + Timeout /\ slotBuffer' = slotBuffer \ {x}
      /\ packets' = [packets EXCEPT ![x] = {}]
      /\ noise' = [noise EXCEPT ![x] = DefaultNoise]
      /\ solving = 0
      /\ UNCHANGED <<slot, sent, count, heard, credited, solving>>
  BY DEF DeleteSlotState, clockVars, solverVars, SolverIdle
<1>2. \A y : Audible(y)' = Audible(y)
  BY <1>1 DEF Audible, Power
<1>3. \A q : IsDecoded(q)' <=> IsDecoded(q)
  BY <1>1 DEF IsDecoded
<1>4. \A y \in Slots : noise'[y] = DefaultNoise
  BY <1>1 DEF CancelInv, TypeOK
<1>5. \A y \in slotBuffer' : packets'[y] = packets[y]
  BY <1>1 DEF TypeOK
<1>6. \A y \in Slots : heard'[y] # {} =>
        y <= slot' /\ (slot' < y + Timeout => y \in slotBuffer')
  BY <1>1 DEF CancelInv, TypeOK, Slots
<1> QED
  BY <1>1, <1>2, <1>3, <1>4, <1>5, <1>6 DEF CancelInv

LEMMA CancelStep ==
  ASSUME Efficiency = 100
  PROVE  RxInv /\ CancelInv /\ [Next]_vars => CancelInv'
<1> SUFFICES ASSUME RxInv, CancelInv, [Next]_vars
             PROVE  CancelInv'
  OBVIOUS
<1> USE DEF RxInv
<1>1. ASSUME NEW p \in Packets, Receive(p) PROVE CancelInv'
  BY <1>1, ReceiveKeepsCancel
<1>2. CASE CleanSlot
  BY <1>2, CleanSlotKeepsCancel
<1>3. ASSUME NEW x \in Slots, DeleteSlotState(x) PROVE CancelInv'
  BY <1>3, DeleteSlotKeepsCancel
<1>4. CASE SolveSlot
  <2>1. /\ UNCHANGED <<slot, sent, packets, noise, heard, slotBuffer>>
        /\ solving # 0 /\ solving' = 0
    BY <1>4 DEF SolveSlot, clockVars, bufferVars
  <2>2. solving \in Slots
    BY <2>1 DEF TypeOK, Slots
  <2>3. ASSUME NEW o \in packets[solving], Credit(o)
        PROVE  CancelInv'
    <3>1. o \in PacketState
      BY <2>2 DEF TypeOK
    <3> QED
      BY <2>1, <2>2, <2>3, <3>1, CreditKeepsCancel
  <2>4. CASE UNCHANGED <<count, credited, received, activeSlotQueue>>
    BY <2>1, <2>4, CancelFrame DEF TypeOK
  <2> QED
    BY <1>4, <2>3, <2>4 DEF SolveSlot
<1>5. CASE PopSlot
  <2>1. UNCHANGED <<sent, packets, noise, count, heard, credited, slotBuffer, slot>>
    BY <1>5 DEF PopSlot, clockVars, bufferVars, stateVars
  <2>2. solving' # 0 => solving' \in slotBuffer'
    BY <1>5, <2>1 DEF PopSlot
  <2> QED
    BY <2>1, <2>2, CancelFrame DEF TypeOK
<1>6. CASE \/ \E x \in Slots : StartSolveAtSlot(x)
           \/ \E o \in PacketState : DeletePacketState(o)
           \/ EndSolve
           \/ UNCHANGED vars
  <2>1. UNCHANGED <<sent, packets, noise, count, heard, credited, slotBuffer,
                    slot, solving>>
    BY <1>6 DEF StartSolveAtSlot, DeletePacketState, EndSolve, vars, clockVars,
                bufferVars, stateVars, solverVars
  <2> QED
    BY <2>1, CancelFrame DEF TypeOK, CancelInv
<1>7. CASE Tick
  <2>1. UNCHANGED <<sent, packets, noise, count, heard, credited, slotBuffer,
                    solving>>
    BY <1>7 DEF Tick, bufferVars, stateVars, solverVars
  <2>2. slot' \in Nat /\ slot <= slot'
    BY <1>7 DEF Tick, TypeOK
  <2> QED
    BY <2>1, <2>2, CancelFrame DEF CancelInv
<1> QED
  BY <1>1, <1>2, <1>3, <1>4, <1>5, <1>6, <1>7 DEF Next

\* With perfect cancellation packets leave a slot only when decoded or drowned.
THEOREM CancelInvHolds ==
  ASSUME Efficiency = 100
  PROVE  Spec => [](RxInv /\ CancelInv)
<1>1. Init => CancelInv
  BY CancelInit
<1>2. RxInv /\ CancelInv /\ [Next]_vars => CancelInv'
  BY CancelStep
<1> QED
  BY <1>1, <1>2, RxInvHolds, PTL DEF Spec

-----------------------------------------------------------------------------
(* Completeness *)

\* A slot at rest that shows a packet yet to be decoded has been credited to it.
LEMMA ShownIsCredited ==
  ASSUME RxInv, CancelInv, PeelingComplete, SolverIdle, NEW o \in PacketState, ~IsDecoded(o),
         NEW x \in Shown(SolvedSlots \cap slotBuffer, Decoded, o)
  PROVE  x \in credited[o]
<1> USE DEF RxInv
<1>1. /\ x \in Slots /\ x \in slotBuffer /\ x <= currentSlot
      /\ o \in Audible(x) /\ Audible(x) \ Decoded \subseteq {o}
  BY DEF Shown, SolvedSlots
<1>2. Peeled(x)
  BY <1>1 DEF PeelingComplete
<1>3. o \in packets[x]
  BY <1>1 DEF CancelInv
<1>4. ASSUME NEW q \in packets[x]
      PROVE  q = o
  <2>1. q \in PacketState /\ q \in heard[x]
    BY <1>1 DEF TypeOK, ContentsInv
  <2>2. ~IsDecoded(q) /\ IsClear(x, q)
    BY <1>2 DEF Peeled, Removable
  <2>3. q \in Audible(x)
    BY <1>1, <2>1, <2>2 DEF Audible, IsClear, CancelInv
  <2> QED
    BY <1>1, <2>1, <2>2, <2>3 DEF Decoded
<1>5. packets[x] = {o}
  BY <1>3, <1>4
<1>6. Yields(x, o)
  BY <1>5 DEF Yields
<1> QED
  BY <1>2, <1>3, <1>4, <1>6 DEF Peeled

\* CsaSolver, with its queue of slots and whatever order it visits them in,
\* leaves nothing undecoded that the fragments in the buffered slots let an ideal
\* decoder decode, for every number of fragments a packet needs.
THEOREM DecodesAll ==
  ASSUME Efficiency = 100
  PROVE  Spec => []DecodesAllDecodable
<1>1. RxInv /\ CancelInv /\ PeelingComplete => DecodesAllDecodable
  <2> SUFFICES ASSUME RxInv, CancelInv, PeelingComplete, SolverIdle,
                      NEW o, \E x \in SolvedSlots \cap slotBuffer : o \in Audible(x),
                      Cardinality(Shown(SolvedSlots \cap slotBuffer, Decoded, o))
                        >= sent[o.pkt].s
               PROVE  o \in Decoded
    BY DEF DecodesAllDecodable, ClosedUnderPeeling
  <2> USE DEF RxInv
  <2> DEFINE S == Shown(SolvedSlots \cap slotBuffer, Decoded, o)
  <2>1. o \in PacketState
    BY DEF Audible, TypeOK, SolvedSlots
  <2>2. /\ IsFiniteSet(credited[o]) /\ Cardinality(credited[o]) <= count[o]
        /\ count[o] \in Nat /\ sent[o.pkt].s \in Nat
    BY <2>1, TransmissionFacts DEF CancelInv, TypeOK, PacketState
  <2> SUFFICES ASSUME ~IsDecoded(o) PROVE FALSE
    BY <2>1 DEF Decoded
  <2>3. S \subseteq credited[o]
    BY <2>1, ShownIsCredited
  <2>4. /\ Cardinality(S) <= Cardinality(credited[o])
        /\ Cardinality(S) \in Nat /\ Cardinality(credited[o]) \in Nat
    BY <2>2, <2>3, FS_Subset, FS_CardinalityType
  <2>5. Cardinality(S) >= sent[o.pkt].s
    OBVIOUS
  <2> HIDE DEF S
  <2>6. count[o] >= sent[o.pkt].s
    BY <2>2, <2>4, <2>5
  <2> QED
    BY <2>6 DEF IsDecoded
<1> QED
  BY <1>1, CancelInvHolds, PeelingIsComplete, PTL

-----------------------------------------------------------------------------
(* Soundness *)

LEMMA HearingsFacts ==
  /\ \A x \in Slots : \A o \in Audible(x) : [slot |-> x, pkt |-> o] \in Hearings
  /\ \A h \in Hearings :
       h.slot \in Slots /\ h.pkt \in Audible(h.slot)
         /\ h = [slot |-> h.slot, pkt |-> h.pkt]
BY DEF Hearings

LEMMA SomeFragmentsDecode ==
  ASSUME TypeOK, NEW o \in PacketState
  PROVE  sent[o.pkt].s \in Nat \ {0}
<1>1. sent[o.pkt] \in Transmission
  BY DEF TypeOK, PacketState
<1> QED
  BY <1>1, RxAssumption DEF Transmission

LEMMA DecoderInit ==
  ASSUME Init
  PROVE  Decoder!Init
<1>1. Hearings = {}
  BY HearingsFacts DEF Audible, Init
<1>2. TypeOK
  BY RxInvInit DEF RxInv
<1>3. Decoded = {}
  BY <1>2, SomeFragmentsDecode DEF Decoded, IsDecoded, Init
<1> QED
  BY <1>1, <1>3 DEF Decoder!Init, Init

\* A fragment is heard in a slot the solver has not worked on.
LEMMA ReceiveHears ==
  ASSUME RxInv, NEW p \in Packets, Receive(p)
  PROVE  Decoder!Hear
<1> USE DEF RxInv
<1>1. /\ slot \in Slots /\ currentSlot < slot
      /\ UNCHANGED <<sent, count, currentSlot>>
  BY SlotsFacts DEF Receive, TypeOK, ClockInv, clockVars, solverVars
<1>2. \A x \in Slots : heard[x] \subseteq heard'[x] /\ (x # slot => heard'[x] = heard[x])
  BY <1>1 DEF Receive, TypeOK
<1>3. \A x \in Slots :
        Audible(x) \subseteq Audible(x)' /\ (x # slot => Audible(x)' = Audible(x))
  BY <1>1, <1>2 DEF Audible, Power
<1>4. Hearings \subseteq Hearings'
  <2> SUFFICES ASSUME NEW h \in Hearings PROVE h \in Hearings'
    OBVIOUS
  <2>1. h.slot \in Slots /\ h.pkt \in Audible(h.slot)' /\ h = [slot |-> h.slot, pkt |-> h.pkt]
    BY <1>3, HearingsFacts
  <2> QED
    BY <2>1 DEF Hearings
<1>5. ASSUME NEW h \in Hearings' \ Hearings
      PROVE  h.slot = slot
  <2>1. h.slot \in Slots /\ h.pkt \in Audible(h.slot)' /\ h = [slot |-> h.slot, pkt |-> h.pkt]
    BY DEF Hearings
  <2> SUFFICES ASSUME h.slot # slot PROVE FALSE
    OBVIOUS
  <2>2. h.pkt \in Audible(h.slot)
    BY <1>3, <2>1
  <2>3. [slot |-> h.slot, pkt |-> h.pkt] \in Hearings
    BY <2>1, <2>2, HearingsFacts
  <2> QED
    BY <2>1, <2>3
<1>6. slot \in Nat /\ currentSlot \in Nat
  BY DEF TypeOK
<1>7. Decoded' = Decoded
  BY <1>1 DEF Decoded, IsDecoded
<1> QED
  BY <1>1, <1>4, <1>5, <1>6, <1>7 DEF Decoder!Hear

\* Whoever knows the packets taken out of a cleaned slot finds the one it yields.
LEMMA SolveSlotDecodes ==
  ASSUME Efficiency = 100, ~IsPowerSolvable, RxInv, CancelInv,
         SolveSlot
  PROVE  Decoder!Decode \/ UNCHANGED Decoder!vars
<1> USE DEF RxInv
<1> DEFINE x == solving
<1>1. /\ solving # 0 /\ solving \in Slots /\ solving <= currentSlot
      /\ solving \in slotBuffer
      /\ UNCHANGED <<sent, heard, currentSlot>>
      /\ \A o \in packets[solving] : ~Removable(solving, o)
  BY DEF SolveSlot, TypeOK, Slots, ClockInv, CancelInv, clockVars
<1>2. Hearings' = Hearings
  <2>1. \A y : Audible(y)' = Audible(y)
    BY <1>1 DEF Audible, Power
  <2> QED
    BY <2>1 DEF Hearings
<1>3. CASE UNCHANGED count
  BY <1>1, <1>2, <1>3 DEF Decoder!vars, Decoded, IsDecoded
<1>4. ASSUME NEW o \in packets[solving], Yields(solving, o), Credit(o)
      PROVE  Decoder!Decode
  <2>1. o \in PacketState /\ o \in heard[solving] /\ packets[solving] = {o}
    BY <1>1, <1>4 DEF TypeOK, ContentsInv, Yields
  <2>2. o \in Audible(solving)
    BY <1>1, <2>1 DEF Removable, IsClear, Audible, CancelInv
  <2>3. Decoded \subseteq Decoded' /\ Decoded' \subseteq Decoded \cup {o}
    <3>1. count' = [count EXCEPT ![o] = @ + 1]
      BY <1>4 DEF Credit
    <3>2. \A q \in PacketState : /\ sent[q.pkt].s \in Nat /\ count[q] \in Nat
                                 /\ count'[q] = IF q = o THEN count[q] + 1 ELSE count[q]
      BY <3>1, SomeFragmentsDecode DEF TypeOK
    <3>3. \A q \in PacketState :
            /\ count[q] >= sent[q.pkt].s => count'[q] >= sent[q.pkt].s
            /\ q # o /\ count'[q] >= sent[q.pkt].s => count[q] >= sent[q.pkt].s
      BY <3>2
    <3> QED
      BY <1>1, <3>3 DEF Decoded, IsDecoded
  <2> DEFINE h == [slot |-> solving, pkt |-> o]
  <2>4. h \in Hearings
    BY <1>1, <2>2, HearingsFacts
  <2>5. o \in Decoder!HeardPackets
    BY <2>4 DEF Decoder!HeardPackets
  <2>6. ASSUME NEW K, Decoded \subseteq K, Decoder!Closed(K)
        PROVE  o \in K
    <3>1. h \in Decoder!Over
      BY <1>1, <2>4 DEF Decoder!Over
    <3>2. ASSUME NEW g \in Decoder!Over, g.slot = h.slot
          PROVE  g.pkt \in K \cup {h.pkt}
      <4>1. g \in Hearings /\ g.slot = solving
        BY <3>2 DEF Decoder!Over
      <4>2. g.pkt \in Audible(solving)
        BY <4>1, HearingsFacts
      <4>3. g.pkt \in packets[solving] \/ IsDecoded(g.pkt)
        BY <1>1, <4>2 DEF CancelInv
      <4>4. g.pkt \in PacketState
        BY <1>1, <4>2 DEF Audible, TypeOK
      <4> QED
        BY <2>1, <2>6, <4>3, <4>4 DEF Decoded
    <3>3. h.pkt \in K
      BY <2>6, <3>1, <3>2 DEF Decoder!Closed
    <3> QED
      BY <3>3
  <2> QED
    BY <1>1, <1>2, <2>3, <2>5, <2>6 DEF Decoder!Decode
<1> QED
  BY <1>3, <1>4 DEF SolveSlot

LEMMA DecoderStep ==
  ASSUME Efficiency = 100, ~IsPowerSolvable
  PROVE  RxInv /\ CancelInv /\ [Next]_vars => [Decoder!Next]_(Decoder!vars)
<1> SUFFICES ASSUME RxInv, CancelInv, [Next]_vars
             PROVE  [Decoder!Next]_(Decoder!vars)
  OBVIOUS
<1> USE DEF RxInv
<1>1. ASSUME NEW p \in Packets, Receive(p)
      PROVE  [Decoder!Next]_(Decoder!vars)
  BY <1>1, ReceiveHears DEF Decoder!Next
<1>2. CASE SolveSlot
  BY <1>2, SolveSlotDecodes DEF Decoder!Next
<1>3. ASSUME UNCHANGED <<sent, heard, count>>
      PROVE  Hearings' = Hearings /\ Decoded' = Decoded
  <2>1. \A y : Audible(y)' = Audible(y)
    BY <1>3 DEF Audible, Power
  <2> QED
    BY <1>3, <2>1 DEF Hearings, Decoded, IsDecoded
<1>4. ASSUME NEW x \in Slots, StartSolveAtSlot(x)
      PROVE  [Decoder!Next]_(Decoder!vars)
  <2>1. UNCHANGED <<sent, heard, count>>
    BY <1>4 DEF StartSolveAtSlot, clockVars, stateVars
  <2>2. [op |-> "StartSolveAtSlot", slot |-> x].slot = slot
    BY <1>4 DEF StartSolveAtSlot, AskInv
  <2>3. currentSlot' = slot /\ currentSlot <= slot /\ slot \in Nat
    BY <1>4, <2>2 DEF StartSolveAtSlot, ClockInv, TypeOK
  <2>4. Decoder!Close
    BY <1>3, <2>1, <2>3 DEF Decoder!Close, TypeOK
  <2> QED
    BY <2>4 DEF Decoder!Next
<1>5. CASE \/ \E x \in Slots : DeleteSlotState(x)
           \/ \E o \in PacketState : DeletePacketState(o)
           \/ PopSlot \/ CleanSlot \/ EndSolve \/ Tick \/ UNCHANGED vars
  <2>1. UNCHANGED <<sent, heard, count, currentSlot>>
    BY <1>5 DEF DeleteSlotState, DeletePacketState, PopSlot, CleanSlot, EndSolve,
                Tick, vars, clockVars, stateVars, solverVars
  <2> QED
    BY <1>3, <2>1 DEF Decoder!vars
<1> QED
  BY <1>1, <1>2, <1>4, <1>5 DEF Next

\* Whatever the order of fragments and slots and whatever expires, the receiver
\* with its solver is an instance of the abstract decoder.
THEOREM ReceiverImplementsDecoder ==
  ASSUME Efficiency = 100, ~IsPowerSolvable
  PROVE  Spec => ImplementsDecoder
<1>1. Init => Decoder!Init
  BY DecoderInit
<1>2. RxInv /\ CancelInv /\ [Next]_vars => [Decoder!Next]_(Decoder!vars)
  BY DecoderStep
<1> QED
  BY <1>1, <1>2, CancelInvHolds, PTL DEF Spec, ImplementsDecoder, Decoder!Spec

\* The proof that the abstract decoder is sound, for the receiver's state.
Sound == INSTANCE CsaDecoderProofs WITH
  heard <- Hearings, now <- currentSlot, known <- Decoded

\* So what CsaSolver decodes follows from the fragments heard by peeling alone, as
\* it would if one fragment decoded a packet.
THEOREM DecodesOnly ==
  ASSUME Efficiency = 100, ~IsPowerSolvable
  PROVE  Spec => []DecodesOnlyDecodable
<1>1. Sound!Spec => []Sound!KnownIsDecodable
  BY Sound!DecoderIsSound
<1>2. Decoder!Init => Sound!Init
  BY DEF Decoder!Init, Sound!Init
<1>3. Decoder!HeardPackets = Sound!HeardPackets /\ Decoder!Over = Sound!Over
  BY DEF Decoder!HeardPackets, Sound!HeardPackets, Decoder!Over, Sound!Over
<1>4. \A K : Decoder!Closed(K) <=> Sound!Closed(K)
  BY <1>3 DEF Decoder!Closed, Sound!Closed
<1>5. [Decoder!Next]_(Decoder!vars) => [Sound!Next]_(Sound!vars)
  BY <1>3, <1>4 DEF Decoder!Next, Decoder!vars, Decoder!Hear, Decoder!Close,
     Decoder!Decode, Sound!Next, Sound!vars, Sound!Hear, Sound!Close, Sound!Decode
<1>6. Sound!KnownIsDecodable => Decoder!KnownIsDecodable
  BY <1>3, <1>4 DEF Decoder!KnownIsDecodable, Sound!KnownIsDecodable
<1> QED
  BY <1>1, <1>2, <1>5, <1>6, ReceiverImplementsDecoder, PTL
  DEF ImplementsDecoder, DecodesOnlyDecodable, Decoder!Spec, Sound!Spec

=============================================================================
