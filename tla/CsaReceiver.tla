---------------------------- MODULE CsaReceiver ----------------------------
(***************************************************************************)
(* The receiving side of one node: the receive handler of CsaMac, the      *)
(* packet and slot buffers with their expiry timers, and CsaSolver, which  *)
(* peels decoded packets out of the slots they collided in.                *)
(*                                                                         *)
(* Time is the slot number and a phase of the slot: fragments arrive, then *)
(* StartSolveAtSlot runs 2 epsilon before the boundary and EndSolve 1      *)
(* epsilon before it.  Inside a phase events may run in any order.         *)
(*                                                                         *)
(* Powers are in linear units, scaled so that a percent of a power is      *)
(* whole; the dB comparisons of CsaPhy become products.                    *)
(***************************************************************************)
EXTENDS Naturals, Sequences, FiniteSets, FiniteSetsExt

CONSTANTS
  Packets,         \* packets of the other nodes; a packet is its (source, seqNo)
  Strategies,      \* the records [n, s] the senders choose from
  LastSlot,        \* bound: no fragment is sent after this slot
  MaxSpan,         \* bound: slots between the first and last copy of a packet
  Timeout,         \* m_timeout, in slots
  Powers,          \* received powers explored, in linear units
  DefaultNoise,    \* m_defaultNoise, in the same units
  Threshold,       \* csaRates[m_dataRate].thresholdDb as a ratio
  Efficiency,      \* m_efficiency, in percent
  IsPowerSolvable, \* m_isPowerSolvable
  TxChoices        \* the values m_isTx may take from slot to slot

ASSUME RxAssumption ==
  /\ IsFiniteSet(Packets)
  /\ Strategies \subseteq [n : Nat \ {0}, s : Nat \ {0}]
  /\ LastSlot \in Nat /\ MaxSpan \in Nat
  /\ Timeout \in Nat \ {0}
  /\ Powers \subseteq Nat
  /\ DefaultNoise \in Nat /\ Threshold \in Nat \ {0}
  /\ Efficiency \in 0..100
  /\ IsPowerSolvable \in BOOLEAN
  /\ TxChoices \subseteq BOOLEAN

VARIABLES
  slot, phase,     \* Simulator::Now()
  isTx,            \* m_isTx of this node, constant through a slot
  sent,            \* what the other nodes transmit
  arrived,         \* packets whose fragment of this slot the PHY has handed up
  packetBuffer,    \* m_packetBuffer, as the set of its values
  packetTimers,    \* pending DeletePacketState events
  slotBuffer,      \* the keys of m_slotBuffer
  slotTimers,      \* pending DeleteSlotState events
  packets,         \* SlotState::packets of each slot
  noise,           \* SlotState::noise of each slot
  count,           \* PacketState::count
  solvingAsked,    \* m_solvingAsked
  solveEvents,     \* pending StartSolveAtSlot and EndSolve events
  activeSlotQueue, \* m_activeSlotQueue
  currentSlot,     \* m_currentSlot
  solving,         \* the slot the Solve loop works on, 0 between slots
  heard,           \* history: the states ever put in each slot
  credited,        \* history: the slots in which a state's count grew
  received         \* history: how often ForwardUp was called for a state

clockVars == <<slot, phase, isTx, sent>>
bufferVars == <<packetBuffer, packetTimers, slotBuffer, slotTimers>>
stateVars == <<packets, noise, count, heard, credited, received>>
solverVars == <<activeSlotQueue, currentSlot, solving>>
askVars == <<solvingAsked, solveEvents>>
vars == <<clockVars, arrived, bufferVars, stateVars, solverVars, askVars>>

-----------------------------------------------------------------------------
(* Packets and their states *)

Slots == 1..LastSlot

\* What one sender does with a packet: the slots of its copies, the number of
\* fragments that decode it and the power it is received with.
Transmission ==
  {t \in [allSlots : UNION {[1..k.n -> Slots] : k \in Strategies},
          s : {k.s : k \in Strategies}, power : Powers] :
     /\ \E k \in Strategies : t.s = k.s /\ DOMAIN t.allSlots = 1..k.n
     /\ \A i, j \in DOMAIN t.allSlots :
          i < j => /\ t.allSlots[i] < t.allSlots[j]
                   /\ t.allSlots[j] - t.allSlots[i] <= MaxSpan}

SlotsOf(p) == {sent[p].allSlots[i] : i \in DOMAIN sent[p].allSlots}

\* A PacketState object: shared_ptr identity is the packet and the slot in
\* which AddPacketState made it.
PacketState == [pkt : Packets, born : Slots]

IsDecoded(o) == count[o] >= sent[o.pkt].s

-----------------------------------------------------------------------------
(* CsaPhy, for the states os of a slot *)

Power(o) == sent[o.pkt].power

\* The power of all states of S, for the transmissions tx.
TotalPower(tx, S) == MapThenSumSet(LAMBDA o : tx[o.pkt].power, S)

\* Mutant: the others in the slot count as noise already.
IsClearSinr(x, o) ==
  Power(o) > (noise[x] + TotalPower(sent, packets[x] \ {o})) * Threshold

\* GetSnr against the threshold: only the noise disturbs.
IsClear(x, o) == Power(o) > noise[x] * Threshold

\* GetSinr against the threshold: all others in the slot disturb.
IsDecodable(x, o) ==
  Power(o) > (noise[x] + TotalPower(sent, packets[x] \ {o})) * Threshold

-----------------------------------------------------------------------------
(* CsaMac::Receive *)

SolverIdle == activeSlotQueue = <<>> /\ solving = 0

\* Mutant: the state is looked up by slot, so each fragment makes a new one.
LookupFresh(p) ==
  [pkt |-> p, born |-> slot]

\* The PacketState a fragment of p belongs to: the buffered one or a new one.
Lookup(p) ==
  IF \E o \in packetBuffer : o.pkt = p
    THEN CHOOSE o \in packetBuffer : o.pkt = p
    ELSE [pkt |-> p, born |-> slot]

AddPacketState(o) ==
  IF o \in packetBuffer
    THEN UNCHANGED <<packetBuffer, packetTimers>>
    ELSE /\ packetBuffer' = packetBuffer \cup {o}
         /\ packetTimers' = packetTimers \cup {o}

\* Mutant: a slot's state is made without its expiry timer.
AddSlotStateNoTimer ==
  /\ slotBuffer' = slotBuffer \cup {slot}
  /\ UNCHANGED slotTimers

AddSlotState ==
  IF slot \in slotBuffer
    THEN UNCHANGED <<slotBuffer, slotTimers>>
    ELSE /\ slotBuffer' = slotBuffer \cup {slot}
         /\ slotTimers' = slotTimers \cup {slot}

\* Mac::Solve: the solver runs at the end of this slot, EndSolve after it.
AskSolve ==
  IF solvingAsked
    THEN UNCHANGED askVars
    ELSE /\ solvingAsked' = TRUE
         /\ solveEvents' = solveEvents \cup
              {[op |-> "StartSolveAtSlot", slot |-> slot],
               [op |-> "EndSolve", slot |-> slot]}

Receive(p) ==
  /\ SolverIdle /\ phase = "arrivals"
  /\ slot \in SlotsOf(p) /\ p \notin arrived
  /\ arrived' = arrived \cup {p}
  /\ \/ /\ ~isTx
        /\ LET o == Lookup(p) IN
             /\ AddPacketState(o)
             /\ AddSlotState
             /\ packets' = [packets EXCEPT ![slot] = @ \cup {o}]
             /\ heard' = [heard EXCEPT ![slot] = @ \cup {o}]
        /\ AskSolve
     \/ isTx /\ UNCHANGED <<bufferVars, packets, heard, askVars>>
  /\ UNCHANGED <<clockVars, noise, count, credited, received, solverVars>>

-----------------------------------------------------------------------------
(* CsaSolver.  StartSolveAtSlot runs the Solve loop to its end: nothing    *)
(* else runs until the loop is idle again.                                 *)

StartSolveAtSlot(x) ==
  /\ SolverIdle /\ phase = "solve"
  /\ [op |-> "StartSolveAtSlot", slot |-> x] \in solveEvents
  /\ solveEvents' = solveEvents \ {[op |-> "StartSolveAtSlot", slot |-> x]}
  /\ activeSlotQueue' = Append(activeSlotQueue, x)
  /\ currentSlot' = x
  /\ UNCHANGED <<clockVars, arrived, bufferVars, stateVars, solving,
                 solvingAsked>>

\* Mutant: front() without pop().
PopSlotKeeps ==
  /\ activeSlotQueue # <<>> /\ solving = 0
  /\ LET x == Head(activeSlotQueue) IN
       solving' = IF x <= currentSlot /\ x \in slotBuffer THEN x ELSE 0
  /\ UNCHANGED <<clockVars, arrived, bufferVars, stateVars, activeSlotQueue,
                 currentSlot, askVars>>

\* Takes the next active slot; future and forgotten slots are skipped.
PopSlot ==
  /\ activeSlotQueue # <<>> /\ solving = 0
  /\ activeSlotQueue' = Tail(activeSlotQueue)
  /\ LET x == Head(activeSlotQueue) IN
       solving' = IF x <= currentSlot /\ x \in slotBuffer THEN x ELSE 0
  /\ UNCHANGED <<clockVars, arrived, bufferVars, stateVars, currentSlot,
                 askVars>>

\* Mutant: decoded packets stay in the slot.
RemovableNoiseOnly(x, o) == o \in packets[x] /\ ~IsDecoded(o) /\ ~IsClear(x, o)

\* CleanSlot has to take o out of slot x.
Removable(x, o) == o \in packets[x] /\ (IsDecoded(o) \/ ~IsClear(x, o))

\* What taking o out leaves behind as noise.
Residual(o) ==
  IF Efficiency = 100 THEN 0
  ELSE IF IsDecoded(o) THEN (Power(o) \div 100) * (100 - Efficiency)
  ELSE Power(o)

\* One round of CleanSlot: a removable state, the first in pointer order, so
\* any of them, leaves the slot.
CleanSlot ==
  /\ solving # 0
  /\ \E o \in packets[solving] :
       /\ Removable(solving, o)
       /\ packets' = [packets EXCEPT ![solving] = @ \ {o}]
       /\ noise' = [noise EXCEPT ![solving] = @ + Residual(o)]
  /\ UNCHANGED <<clockVars, arrived, bufferVars, count, heard, credited,
                 received, solverVars, askVars>>

\* The state whose fragment the cleaned slot x yields: the only one left, or
\* with power solving the strongest if it stands out of the rest.
Yields(x, o) ==
  /\ o \in packets[x]
  /\ \/ packets[x] = {o}
     \/ /\ IsPowerSolvable
        /\ packets[x] # {o}
        /\ \A q \in packets[x] : Power(q) <= Power(o)
        /\ IsDecodable(x, o)

\* Mutant: a decoded packet's other slots are not looked at again.
RequeueNone(o) == activeSlotQueue

\* Decode puts every slot of the packet back on the queue.
Requeue(o) == activeSlotQueue \o sent[o.pkt].allSlots

\* A fragment of o is decoded; with enough of them the packet is, and goes up.
Credit(o) ==
  /\ count' = [count EXCEPT ![o] = @ + 1]
  /\ credited' = [credited EXCEPT ![o] = @ \cup {solving}]
  /\ IF count[o] + 1 >= sent[o.pkt].s
       THEN /\ received' = [received EXCEPT ![o] = @ + 1]
            /\ activeSlotQueue' = Requeue(o)
       ELSE UNCHANGED <<received, activeSlotQueue>>

SolveSlot ==
  /\ solving # 0
  /\ \A o \in packets[solving] : ~Removable(solving, o)
  /\ \/ \E o \in packets[solving] : Yields(solving, o) /\ Credit(o)
     \/ /\ \A o \in packets[solving] : ~Yields(solving, o)
        /\ UNCHANGED <<count, credited, received, activeSlotQueue>>
  /\ solving' = 0
  /\ UNCHANGED <<clockVars, arrived, bufferVars, packets, noise, heard,
                 currentSlot, askVars>>

\* Mutant: the request flag is not reset.
EndSolveKeepsAsked ==
  /\ SolverIdle /\ phase = "endSolve"
  /\ \E e \in solveEvents :
       e.op = "EndSolve" /\ solveEvents' = solveEvents \ {e}
  /\ UNCHANGED <<clockVars, arrived, bufferVars, stateVars, solverVars,
                 solvingAsked>>

EndSolve ==
  /\ SolverIdle /\ phase = "endSolve"
  /\ \E e \in solveEvents :
       e.op = "EndSolve" /\ solveEvents' = solveEvents \ {e}
  /\ solvingAsked' = FALSE
  /\ UNCHANGED <<clockVars, arrived, bufferVars, stateVars, solverVars>>

-----------------------------------------------------------------------------
(* Expiry: a timer set in slot b fires at some moment of slot b + Timeout *)

DeletePacketState(o) ==
  /\ SolverIdle
  /\ o \in packetTimers /\ slot = o.born + Timeout
  /\ packetTimers' = packetTimers \ {o}
  /\ packetBuffer' = {q \in packetBuffer : q.pkt # o.pkt}
  /\ UNCHANGED <<clockVars, arrived, slotBuffer, slotTimers, stateVars,
                 solverVars, askVars>>

DeleteSlotState(x) ==
  /\ SolverIdle
  /\ x \in slotTimers /\ slot = x + Timeout
  /\ slotTimers' = slotTimers \ {x}
  /\ slotBuffer' = slotBuffer \ {x}
  /\ packets' = [packets EXCEPT ![x] = {}]
  /\ noise' = [noise EXCEPT ![x] = DefaultNoise]
  /\ UNCHANGED <<clockVars, arrived, packetBuffer, packetTimers, count, heard,
                 credited, received, solverVars, askVars>>

-----------------------------------------------------------------------------
(* The clock moves on when nothing is left to run in the phase *)

Tick ==
  /\ SolverIdle
  /\ \/ /\ phase = "arrivals"
        /\ \A p \in Packets : slot \in SlotsOf(p) => p \in arrived
        /\ phase' = "solve"
        /\ UNCHANGED <<slot, isTx, arrived>>
     \/ /\ phase = "solve"
        /\ \A e \in solveEvents : e.op # "StartSolveAtSlot"
        /\ phase' = "endSolve"
        /\ UNCHANGED <<slot, isTx, arrived>>
     \/ /\ phase = "endSolve"
        /\ solveEvents = {}
        /\ \A o \in packetTimers : slot # o.born + Timeout
        /\ \A x \in slotTimers : slot # x + Timeout
        /\ slot <= LastSlot + Timeout
        /\ phase' = "arrivals"
        /\ slot' = slot + 1
        /\ isTx' \in TxChoices
        /\ arrived' = {}
  /\ UNCHANGED <<sent, bufferVars, stateVars, solverVars, askVars>>

Init ==
  /\ slot = 1 /\ phase = "arrivals"
  /\ isTx \in TxChoices
  /\ sent \in [Packets -> Transmission]
  /\ arrived = {}
  /\ packetBuffer = {} /\ packetTimers = {}
  /\ slotBuffer = {} /\ slotTimers = {}
  /\ packets = [x \in Slots |-> {}]
  /\ noise = [x \in Slots |-> DefaultNoise]
  /\ count = [o \in PacketState |-> 0]
  /\ solvingAsked = FALSE /\ solveEvents = {}
  /\ activeSlotQueue = <<>> /\ currentSlot = 0 /\ solving = 0
  /\ heard = [x \in Slots |-> {}]
  /\ credited = [o \in PacketState |-> {}]
  /\ received = [o \in PacketState |-> 0]

Next ==
  \/ \E p \in Packets : Receive(p)
  \/ \E x \in Slots : StartSolveAtSlot(x) \/ DeleteSlotState(x)
  \/ \E o \in PacketState : DeletePacketState(o)
  \/ PopSlot \/ CleanSlot \/ SolveSlot \/ EndSolve
  \/ Tick

\* Simulator::Run keeps running what is due.
Spec == Init /\ [][Next]_vars /\ WF_vars(Next)

-----------------------------------------------------------------------------
(* Properties *)

\* count fits its uint8_t: it never passes s.
TypeOK ==
  /\ slot \in Nat /\ phase \in {"arrivals", "solve", "endSolve"}
  /\ isTx \in BOOLEAN
  /\ sent \in [Packets -> Transmission]
  /\ arrived \subseteq Packets
  /\ packetBuffer \subseteq PacketState /\ packetTimers \subseteq PacketState
  /\ slotBuffer \subseteq Slots /\ slotTimers \subseteq Slots
  /\ packets \in [Slots -> SUBSET PacketState]
  /\ noise \in [Slots -> Nat]
  /\ count \in [PacketState -> Nat]
  /\ \A o \in PacketState : count[o] <= sent[o.pkt].s
  /\ solvingAsked \in BOOLEAN
  /\ solveEvents \subseteq
       [op : {"StartSolveAtSlot", "EndSolve"}, slot : Slots]
  /\ activeSlotQueue \in Seq(Slots)
  /\ currentSlot \in 0..LastSlot /\ solving \in 0..LastSlot
  /\ heard \in [Slots -> SUBSET PacketState]
  /\ credited \in [PacketState -> SUBSET Slots]
  /\ received \in [PacketState -> Nat]

\* The cascade stops only when it is finished: between two runs of the solver
\* no solved slot still holds a packet that could be removed from it, nor does
\* one still yield a fragment and none was credited for it.  A slot that Decode
\* fails to put back on the queue would stay blocked for good.
Peeled(x) ==
  \A o \in packets[x] :
    /\ ~Removable(x, o)
    /\ Yields(x, o) =>
         \E q \in packets[x] : Yields(x, q) /\ x \in credited[q]

PeelingComplete ==
  SolverIdle => \A x \in slotBuffer : x <= currentSlot => Peeled(x)

\* A request to solve is not lost in m_solvingAsked: a slot in which something
\* was heard has been solved or its StartSolveAtSlot is still to come.
HeardSlotsSolved ==
  \A x \in slotBuffer :
    x <= currentSlot
      \/ [op |-> "StartSolveAtSlot", slot |-> x] \in solveEvents

Span(p) ==
  LET s == sent[p].allSlots IN s[Len(s)] - s[1]

\* A packet is handed up at most once if its copies lie within the timeout:
\* all of them then find the same PacketState, whatever expires in between.
AtMostOnce ==
  \A o, q \in {r \in PacketState : received[r] > 0} :
    o.pkt = q.pkt /\ Span(o.pkt) < Timeout => o = q /\ received[o] = 1

\* An expiry timer, which knows only the key, takes out the entry it was set
\* for, and every entry has its timer: nothing is buffered past its timeout,
\* and no key is in the buffer twice.
TimersMatchBuffers ==
  /\ packetBuffer = packetTimers
  /\ slotBuffer = slotTimers
  /\ \A o \in packetBuffer : o.born <= slot /\ slot <= o.born + Timeout
  /\ \A x \in slotBuffer : x <= slot /\ slot <= x + Timeout
  /\ \A o, q \in packetBuffer : o.pkt = q.pkt => o = q

-----------------------------------------------------------------------------
(* What an ideal decoder could do with the fragments heard, without noise  *)
(* and without expiry.                                                     *)

Decoded == {o \in PacketState : IsDecoded(o)}

Audible(x) == {o \in heard[x] : Power(o) > DefaultNoise * Threshold}

\* The slots in X that show a fragment of o to one who knows the packets D.
Shown(X, D, o) == {x \in X : o \in Audible(x) /\ Audible(x) \ D \subseteq {o}}

\* D holds every packet it lets one decode.
ClosedUnderPeeling(X, D) ==
  \A o \in UNION {Audible(x) : x \in X} :
    Cardinality(Shown(X, D, o)) >= sent[o.pkt].s => o \in D

SolvedSlots == {x \in Slots : x <= currentSlot}

\* Completeness against the ideal decoder: what the fragments of the slots
\* still buffered let one decode is decoded (with perfect cancellation).
DecodesAllDecodable ==
  SolverIdle => ClosedUnderPeeling(SolvedSlots \cap slotBuffer, Decoded)

Hearings == UNION {[slot : {x}, pkt : Audible(x)] : x \in Slots}

Decoder == INSTANCE CsaDecoder WITH
  heard <- Hearings, now <- currentSlot, known <- Decoded

\* Soundness: the buffers, timers and the cascade's order come down to the
\* abstract decoder, for which one fragment of a packet is enough.
ImplementsDecoder == Decoder!Spec

\* So only what an ideal decoder gets from the fragments heard so far is decoded;
\* where s > 1, from one fragment of each packet.
DecodesOnlyDecodable == Decoder!KnownIsDecodable

\* What the comment in CsaSolver::Solve says of count: it grows once for each
\* fragment decoded.
CountIsFragments ==
  \A o \in PacketState : count[o] = Cardinality(credited[o])

\* The Solve loop ends, so the simulation goes on.
SolverTerminates == ~SolverIdle ~> SolverIdle

=============================================================================
