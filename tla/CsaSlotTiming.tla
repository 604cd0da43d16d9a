--------------------------- MODULE CsaSlotTiming ---------------------------
(***************************************************************************)
(* The flight of fragments from SendPacket to the solver, in nanoseconds:  *)
(* does a fragment fit the slot the simulation script makes for it, and    *)
(* does the solver of a slot run when all of them are in?                  *)
(*                                                                         *)
(* Each sender sends one packet's fragment in one slot to one receiver.    *)
(* The simulator always runs the earliest pending event.                   *)
(***************************************************************************)
EXTENDS Naturals

CONSTANTS
  Senders,
  Rates,         \* csaRates[..].dataRateMbps, in tenths of a Mbps
  Bits,          \* packetSizeBits of the script
  Strategies,    \* the records [n, s] of the script
  FirstS,        \* strategies[0].second, which sizes the slot
  StackOverhead, \* bytes the UDP and IP layers add to a packet
  PropDelays,    \* propagation delays between two vehicles, in ns
  HandDowns,     \* times at which a packet reaches the MAC, in ns
  MaxGap         \* bound: the largest value GetGeometricValue draws

\* What the script and csaRates give: two fragments or more for one packet, at
\* most seven copies, at most 27 Mbps, UDP over IPv4, and vehicles on 300 m by 6 m.
ASSUME TimingAssumption ==
  /\ Rates \subseteq 1..270
  /\ Bits \subseteq Nat
  /\ FirstS \in Nat /\ FirstS >= 2
  /\ \A k \in Strategies : k.n \in 0..7 /\ k.s \in Nat /\ k.s >= FirstS
  /\ StackOverhead \in 0..28
  /\ PropDelays \subseteq 0..1001
  /\ HandDowns \subseteq Nat
  /\ MaxGap \in Nat

Epsilon == 1000  \* m_epsilonTime

VARIABLES
  rate, bits,  \* the script's parameters for this simulation
  frag,        \* per sender: its fragment's stage, slot, strategy and next event
  solveAt,     \* per slot asked for: when StartSolveAtSlot runs
  solved       \* the slots it has run for

vars == <<rate, bits, frag, solveAt, solved>>

-----------------------------------------------------------------------------
(* Sizes and durations *)

CeilDiv(x, y) == (x + y - 1) \div y

\* Mutant: the header's part of the slot is forgotten.
SlotDurationNoHeader ==
  1000 * ((bits * 10) \div (FirstS * rate) + 3)

\* Mutant: room for exactly the longest header and its fragment's share of the
\* stack's headers, 70 bytes, without the reserve.
SlotDurationNoReserve ==
  1000 * ((bits * 10) \div (FirstS * rate) + 3 + (70 * 8 * 10) \div rate)

\* slotDuration() of the script.  MicroSeconds drops the fraction of each term.
SlotDuration ==
  1000 * ((bits * 10) \div (FirstS * rate) + 3 + (85 * 8 * 10) \div rate)

\* CsaHeader::GetSerializedSize, in bytes.
HeaderSize(n) == 28 + 4 * n

\* The size of fragBase in CsaMac::SendPacket.
FragmentSize(s) == CeilDiv(bits \div 8 + StackOverhead, s)

\* CsaPhy::Receive: the time a fragment takes on air, rounded up to the ns.
TransmissionDelay(k) ==
  CeilDiv((FragmentSize(k.s) + HeaderSize(k.n)) * 8 * 10000, rate)

SlotNumber(t) == t \div SlotDuration

NextSlotTime(t) ==
  IF t % SlotDuration = 0 THEN 0 ELSE SlotDuration - (t % SlotDuration)

-----------------------------------------------------------------------------
(* Events, in the order of their times *)

Pending ==
  {frag[f].at : f \in {g \in Senders : frag[g].stage # "received"}}
    \cup {solveAt[x] : x \in DOMAIN solveAt \ solved}

Earliest(t) == \A u \in Pending : t <= u

\* The event of f in stage from runs; the next one, in stage to, is at t.
Move(f, from, to, t) ==
  /\ frag[f].stage = from /\ Earliest(frag[f].at)
  /\ frag' = [frag EXCEPT ![f].stage = to, ![f].at = t]

\* CsaMac::Enqueue wakes the node, which dequeues at the next boundary.
WakeUp(f) ==
  /\ Move(f, "enqueued", "woken", frag[f].at + NextSlotTime(frag[f].at))
  /\ UNCHANGED <<rate, bits, solveAt, solved>>

\* CsaMac::SendPacket draws the slot and writes it in the header.
SendPacket(f) ==
  /\ frag[f].stage = "woken" /\ Earliest(frag[f].at)
  /\ \E gap \in 0..MaxGap :
       frag' = [frag EXCEPT ![f].stage = "scheduled",
                            ![f].hdrSlot = SlotNumber(frag[f].at) + gap,
                            ![f].at = @ + gap * SlotDuration]
  /\ UNCHANGED <<rate, bits, solveAt, solved>>

\* CsaMac::StartSend and CsaChannel::Send.
StartSend(f) ==
  /\ Move(f, "scheduled", "onAir", frag[f].at + frag[f].prop)
  /\ UNCHANGED <<rate, bits, solveAt, solved>>

PhyReceive(f) ==
  /\ Move(f, "onAir", "atPhy",
          frag[f].at + TransmissionDelay(frag[f].strategy))
  /\ UNCHANGED <<rate, bits, solveAt, solved>>

\* Mutant: the solver runs as soon as the first fragment is in.
SolveTimeNow(t) == t

\* When CsaMac::Solve, called at t, makes the solver run.
SolveTime(t) == t + NextSlotTime(t) - 2 * Epsilon

\* CsaMac::Receive; the first fragment of a slot asks for the solver.
MacReceive(f) ==
  /\ Move(f, "atPhy", "received", frag[f].at)
  /\ LET x == SlotNumber(frag[f].at) IN
       solveAt' = IF x \in DOMAIN solveAt THEN solveAt
                  ELSE [y \in DOMAIN solveAt \cup {x} |->
                          IF y = x THEN SolveTime(frag[f].at) ELSE solveAt[y]]
  /\ UNCHANGED <<rate, bits, solved>>

StartSolveAtSlot(x) ==
  /\ x \notin solved /\ Earliest(solveAt[x])
  /\ solved' = solved \cup {x}
  /\ UNCHANGED <<rate, bits, frag, solveAt>>

Init ==
  /\ rate \in Rates /\ bits \in Bits
  /\ frag \in [Senders -> [stage : {"enqueued"}, at : HandDowns, hdrSlot : {0},
                           strategy : Strategies, prop : PropDelays]]
  /\ solveAt = <<>> /\ solved = {}

Next ==
  \/ \E f \in Senders :
       WakeUp(f) \/ SendPacket(f) \/ StartSend(f) \/ PhyReceive(f)
         \/ MacReceive(f)
  \/ \E x \in DOMAIN solveAt : StartSolveAtSlot(x)

Spec == Init /\ [][Next]_vars

-----------------------------------------------------------------------------
(* Properties *)

Received == {f \in Senders : frag[f].stage = "received"}

\* The assertion "Packet is crossing slots" of CsaMac::Receive never fails: a
\* fragment is received in the slot it was sent in, whatever its sender's
\* strategy, its size, the data rate and the distance.
NotCrossingSlots ==
  \A f \in Received : SlotNumber(frag[f].at) = frag[f].hdrSlot

\* The assertion "Late arrival!" of CsaMac::Solve never fails, and would not
\* fail for a fragment that finds the solver already asked for.
NoLateArrival ==
  \A f \in Received : NextSlotTime(frag[f].at) > 2 * Epsilon

\* The solver of a slot runs after all of the slot's fragments are in and
\* before the slot ends; one that came later would be left out of the cascade.
SolverSeesAll ==
  \A x \in solved :
    /\ \A f \in Senders :
         frag[f].stage \in {"onAir", "atPhy"} => frag[f].hdrSlot # x
    /\ \A f \in Received : frag[f].hdrSlot = x => frag[f].at < solveAt[x]
    /\ SlotNumber(solveAt[x]) = x

=============================================================================
