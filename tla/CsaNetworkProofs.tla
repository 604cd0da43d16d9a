-------------------------- MODULE CsaNetworkProofs --------------------------
(***************************************************************************)
(* Proofs about the network, for all nodes, ranges, strategies, queue      *)
(* sizes and traffic.                                                      *)
(*                                                                         *)
(* The inductive invariant is Inv, a conjunction of                        *)
(*   MacInv    the sending sides: types, no event overdue, one Dequeue to  *)
(*             come for a node that is awake, one packet taken at a time;  *)
(*   FlagInv   what m_isTx says of the fragment on air, which depends on   *)
(*             the order in which the events of a boundary were scheduled; *)
(*   HearInv   every fragment is in flight to a node, heard by it, or lost *)
(*             to its flag;                                                *)
(*   RxInv     the buffers of a receiver: BufferInv, what was heard, what  *)
(*             is decoded and delivered, and that a strong signal leaves a *)
(*             slot only with its packet decoded or its slot lost;         *)
(*             TimerInv, that a packet whose copies lie within the timeout *)
(*             has one state;                                              *)
(*   QueueInv  the bound of the queue.                                     *)
(*                                                                         *)
(* Single theorems add to it                                               *)
(*   TrafficInv, SentInv, RxCountInv  what the statistics have counted;    *)
(*   CountInv  the slots for which a packet's state must have a fragment;  *)
(*   AgreeInv  that of two nodes with the same strong signals one is where *)
(*             the other will come to, until one of them loses a slot.     *)
(* The last two, and the bound on what is counted, are claimed of packets  *)
(* whose copies lie within the timeout; past it the code breaks them.      *)
(***************************************************************************)
EXTENDS CsaNetwork, CsaSums

-----------------------------------------------------------------------------
(* The inductive invariant *)

Packets ==
  [src : Nodes, seq : Nat, tid : Tids, allSlots : Seq(Nat), s : Nat \ {0}]

Fragments == [pkt : Packets, slot : Nat]

Events ==
  [op : {"Dequeue", "StartSend", "EndSend"}, node : Nodes, at : Nat,
   pkt : Packets \cup {NoPacket}]

Distinct(s) == \A i, j \in 1..Len(s) : s[i] = s[j] => i = j

\* e comes before f in the sequence s.
Before(s, e, f) == \E i, j \in 1..Len(s) : i < j /\ s[i] = e /\ s[j] = f

Pending(op, v) == {e \in ToSet(events) : e.op = op /\ e.node = v}
Wakes(v) == Pending("Dequeue", v)
Starts(v) == Pending("StartSend", v)
Ends(v) == Pending("EndSend", v)

OnAir(v) == {f \in air : f.pkt.src = v}

\* The packets v has taken from its queue.
Taken(v) == {f.pkt : f \in OnAir(v)} \cup {e.pkt : e \in Starts(v)}

\* Types of the sending sides and the channel.
MacTypes ==
  /\ slot \in Nat /\ phase \in {"boundary", "flight", "solve"}
  /\ strategy \in [Nodes -> Strategies] /\ inRange \in Ranges
  /\ events \in Seq(Events) /\ Distinct(events)
  /\ queue \in [Nodes -> Seq(Tids)]
  /\ isSleeping \in [Nodes -> BOOLEAN] /\ isTx \in [Nodes -> BOOLEAN]
  /\ seqNo \in [Nodes -> Nat]
  /\ air \subseteq Fragments

\* No event is overdue.
InTime ==
  \A e \in ToSet(events) : slot <= e.at /\ (phase # "boundary" => slot < e.at)

\* A node that is awake has one Dequeue to come, when all copies are sent.
WakeInv(v) ==
  /\ isSleeping[v] => queue[v] = <<>> /\ Wakes(v) = {} /\ Starts(v) = {}
  /\ ~isSleeping[v] => Wakes(v) # {}
  /\ \A d, e \in Wakes(v) : d = e
  /\ \A d \in Wakes(v), e \in Starts(v) : e.at < d.at

\* The copies to come are of one packet, the last taken.
StartInv(v) ==
  /\ \A e \in Starts(v) : e.pkt \in Packets /\ e.pkt.src = v /\ e.pkt.seq + 1 = seqNo[v]
  /\ \A e, f \in Starts(v) : e.pkt = f.pkt /\ (e.at = f.at => e = f)

\* What is on air is older than what is to come, one fragment in a slot.
AirInv(v) ==
  /\ \A f \in OnAir(v) :
       /\ f.slot <= slot /\ (isSleeping[v] => f.slot < slot)
       /\ \A e \in Starts(v) \cup Wakes(v) : f.slot < e.at
  /\ \A f, g \in OnAir(v) : f.slot = g.slot => f = g
  /\ \A e \in Ends(v) : \E g \in OnAir(v) : e.at = g.slot + 1

\* A sequence number names one packet, and all its copies are sent or to come.
TakenInv(v) ==
  /\ \A p \in Taken(v) : p.seq < seqNo[v] /\ p.s = strategy[v].s
  /\ \A p, q \in Taken(v) : p.seq = q.seq => p = q
  /\ \A p \in Taken(v) : \A x \in ToSet(p.allSlots) :
       \/ \E e \in Starts(v) : e.at = x /\ e.pkt = p
       \/ [pkt |-> p, slot |-> x] \in OnAir(v)

SendInv(v) == WakeInv(v) /\ StartInv(v) /\ AirInv(v) /\ TakenInv(v)

MacInv == MacTypes /\ InTime /\ \A v \in Nodes : SendInv(v)

\* The flag m_isTx of v.  Where EndSend of one copy and StartSend of the next are due
\* in one slot, EndSend was scheduled later and so runs last, if they belong to one
\* packet; it then clears the flag that the next copy has set.
FlagInv(v) ==
  /\ \A g \in OnAir(v) : g.slot = slot => \E e \in Ends(v) : e.at = slot + 1
  /\ \A e \in Ends(v), f \in Starts(v), g \in OnAir(v) :
       g.slot + 1 = e.at /\ f.at = e.at =>
         (Before(events, f, e) <=> f.pkt = g.pkt)
  /\ (\E e \in Ends(v) : e.at = slot) => (Sends(v, slot) => SendsInARow(v, slot))
  /\ (\A e \in Ends(v) : e.at # slot) =>
       /\ isTx[v] <=> Sends(v, slot) /\ ~SendsInARow(v, slot)
       /\ \A f \in Starts(v), g \in OnAir(v) :
            f.at = slot /\ g.slot + 1 = slot => f.pkt # g.pkt

\* Each fragment is on its way to another node, or it has come in and is heard unless
\* the flag was set.
HearInv ==
  /\ inFlight \subseteq [to : Nodes, frag : air]
  /\ heard \in [Nodes -> SUBSET air]
  /\ \A m \in inFlight : m.frag.slot = slot /\ m.to # m.frag.pkt.src
                         /\ m.frag \notin heard[m.to]
  /\ \A r \in Nodes : \A f \in heard[r] : f.pkt.src # r
  /\ phase = "solve" => inFlight = {}
  /\ \A r \in Nodes : \A f \in air : f.pkt.src # r =>
       \/ [to |-> r, frag |-> f] \in inFlight
       \/ /\ f.slot < slot \/ phase # "boundary"
          /\ f \in heard[r] <=> ~Sends(r, f.slot) \/ SendsInARow(r, f.slot)

\* b is a state of the packet p.
StateOf(p, b) == b.tid = p.tid /\ b.allSlots = p.allSlots /\ b.s = p.s

States ==
  [tid : Tids, allSlots : Seq(Nat), s : Nat \ {0}, count : Nat, born : Nat]

\* r has dropped slot x with what was in it.
Lost(r, x) ==
  /\ r \in forgotten /\ x + Timeout <= slot
  /\ \A e \in slotBuffer[r] : e.slot # x

\* The strong fragment f is in its slot, or the packet is decoded.
Kept(r, f) ==
  \E k \in DOMAIN states[r] :
    /\ IsOf(k, f.pkt)
    /\ [slot |-> f.slot, key |-> k] \in slotBuffer[r] \/ IsDecoded(r, k)

\* The states are those of the packets heard, the slots hold what was heard in them,
\* and a strong signal is there until its packet is decoded or the slot expires.
\* What is decoded has been passed up, once.
BufferInv(r) ==
  /\ \A k \in DOMAIN states[r] : \E f \in heard[r] :
       /\ IsOf(k, f.pkt) /\ StateOf(f.pkt, states[r][k])
       /\ states[r][k].born = f.slot /\ states[r][k].count <= f.pkt.s
  /\ \A f \in heard[r] : Key(f.pkt) \in DOMAIN states[r]
  /\ \A e \in slotBuffer[r] :
       /\ e.key \in DOMAIN states[r]
       /\ \E f \in heard[r] : e.slot = f.slot /\ IsOf(e.key, f.pkt)
  /\ \A f \in Strong(r) : Lost(r, f.slot) \/ Kept(r, f)
  /\ Distinct(delivered[r])
  /\ \A k : k \in ToSet(delivered[r]) <=> k \in DOMAIN states[r] /\ IsDecoded(r, k)

\* A state that is not in the buffer has expired, so a packet whose copies lie within
\* the timeout has only one.
TimerInv(r) ==
  /\ packetBuffer[r] \subseteq DOMAIN states[r]
  /\ \A k \in DOMAIN states[r] :
       k \notin packetBuffer[r] => states[r][k].born + Timeout <= slot
  /\ \A k \in DOMAIN states[r] : \A f \in heard[r] :
       IsOf(k, f.pkt) /\ WithinTimeout(f.pkt) => k = Key(f.pkt)

\* The solvers run when all fragments of the slot are in, in nodes that heard some.
SolverInv ==
  /\ active \in [Nodes -> Seq(Nat)]
  /\ solvingAsked \subseteq Nodes
  /\ phase = "boundary" => solvingAsked = {}
  /\ \A r \in Nodes : active[r] # <<>> => phase = "solve" /\ r \notin solvingAsked
  /\ phase = "flight" => \A r \in Nodes : \A f \in heard[r] : f.slot = slot => r \in solvingAsked

-----------------------------------------------------------------------------
(* Sequences of events *)

LEMMA AppendAll ==
  ASSUME NEW S, NEW s \in Seq(S), NEW t \in Seq(S)
  PROVE  /\ s \o t \in Seq(S) /\ Len(s \o t) = Len(s) + Len(t)
         /\ \A i \in 1..Len(s) : i \in 1..Len(s \o t) /\ (s \o t)[i] = s[i]
         /\ \A i \in 1..Len(t) :
              Len(s) + i \in 1..Len(s \o t) /\ (s \o t)[Len(s) + i] = t[i]
         /\ \A i \in 1..Len(s \o t) : i \in 1..Len(s) \/ i - Len(s) \in 1..Len(t)
OBVIOUS

LEMMA RemoveFacts ==
  ASSUME NEW S, NEW s \in Seq(S), NEW k \in 1..Len(s)
  PROVE  /\ RemoveAt(s, k) \in Seq(S) /\ Len(RemoveAt(s, k)) = Len(s) - 1
         /\ \A i \in 1..(Len(s) - 1) :
              RemoveAt(s, k)[i] = IF i < k THEN s[i] ELSE s[i + 1]
<1> DEFINE a == SubSeq(s, 1, k - 1)  b == SubSeq(s, k + 1, Len(s))  u == a \o b
<1>1. /\ a \in Seq(S) /\ Len(a) = k - 1 /\ \A i \in 1..(k - 1) : a[i] = s[i]
  OBVIOUS
<1>2. /\ b \in Seq(S) /\ Len(b) = Len(s) - k
      /\ \A i \in 1..(Len(s) - k) : b[i] = s[k + i]
  OBVIOUS
<1>3. RemoveAt(s, k) = u
  BY DEF RemoveAt
<1> HIDE DEF a, b
<1>4. /\ u \in Seq(S) /\ Len(u) = Len(a) + Len(b)
      /\ \A i \in 1..Len(a) : u[i] = a[i]
      /\ \A i \in 1..Len(b) : u[Len(a) + i] = b[i]
  <2>1. a \in Seq(S) /\ b \in Seq(S)
    BY <1>1, <1>2
  <2>2. \A x, y \in Seq(S) :
          /\ x \o y \in Seq(S) /\ Len(x \o y) = Len(x) + Len(y)
          /\ \A i \in 1..Len(x) : (x \o y)[i] = x[i]
          /\ \A i \in 1..Len(y) : (x \o y)[Len(x) + i] = y[i]
    BY AppendAll
  <2> QED
    BY <2>1, <2>2, Zenon
<1> HIDE DEF u
<1>5. Len(s) \in Nat /\ k \in Nat /\ Len(u) = Len(s) - 1
  BY <1>1, <1>2, <1>4
<1>6. ASSUME NEW i \in 1..(Len(s) - 1)
      PROVE  u[i] = IF i < k THEN s[i] ELSE s[i + 1]
  <2>1. CASE i < k
    <3>1. i \in 1..Len(a) /\ i \in 1..(k - 1)
      BY <1>1, <1>5, <2>1
    <3> QED
      BY <1>1, <1>4, <2>1, <3>1
  <2>2. CASE ~(i < k)
    <3>1. PICK j \in 1..(Len(s) - k) : i = (k - 1) + j /\ i + 1 = k + j
      <4>1. i - (k - 1) \in 1..(Len(s) - k)
        BY <1>5, <2>2
      <4> QED
        BY <1>5, <4>1
    <3>2. u[i] = b[j]
      BY <1>1, <1>2, <1>4, <3>1
    <3> QED
      BY <1>2, <2>2, <3>1, <3>2
  <2> QED
    BY <2>1, <2>2
<1> QED
  BY <1>3, <1>4, <1>5, <1>6

LEMMA ToSetFacts ==
  ASSUME NEW S, NEW s \in Seq(S)
  PROVE  /\ ToSet(s) \subseteq S
         /\ \A x : x \in ToSet(s) <=> \E i \in 1..Len(s) : s[i] = x
BY DEF ToSet

\* What is left when the k-th of distinct events is removed, and in which order.
LEMMA RemoveKeeps ==
  ASSUME NEW S, NEW s \in Seq(S), Distinct(s), NEW k \in 1..Len(s)
  PROVE  /\ Distinct(RemoveAt(s, k))
         /\ ToSet(RemoveAt(s, k)) = ToSet(s) \ {s[k]}
         /\ \A e, f : Before(RemoveAt(s, k), e, f)
                        <=> e # s[k] /\ f # s[k] /\ Before(s, e, f)
<1> DEFINE r == RemoveAt(s, k)  n == Len(s)
           old(i) == IF i < k THEN i ELSE i + 1
           new(i) == IF i < k THEN i ELSE i - 1
<1>1. /\ r \in Seq(S) /\ Len(r) = n - 1 /\ n \in Nat
      /\ \A i \in 1..(n - 1) : r[i] = s[old(i)]
  BY RemoveFacts
<1>2. /\ \A i \in 1..(n - 1) : old(i) \in 1..n /\ old(i) # k
      /\ \A i, j \in 1..(n - 1) : i < j => old(i) < old(j)
      /\ \A i, j \in 1..(n - 1) : old(i) = old(j) => i = j
  BY <1>1
<1>3. /\ \A i \in 1..n : i # k => new(i) \in 1..(n - 1) /\ old(new(i)) = i
      /\ \A i, j \in 1..n : i # k /\ j # k /\ i < j => new(i) < new(j)
  BY <1>1
<1> HIDE DEF r, old, new
<1>4. Distinct(r)
  BY <1>1, <1>2 DEF Distinct
<1>5. ToSet(r) = ToSet(s) \ {s[k]}
  <2>1. ASSUME NEW x \in ToSet(r)
        PROVE  x \in ToSet(s) \ {s[k]}
    <3>1. PICK i \in 1..(n - 1) : r[i] = x
      BY <1>1 DEF ToSet
    <3>2. x = s[old(i)] /\ old(i) \in 1..n /\ old(i) # k
      BY <1>1, <1>2, <3>1
    <3> QED
      BY <3>2 DEF ToSet, Distinct
  <2>2. ASSUME NEW x \in ToSet(s), x # s[k]
        PROVE  x \in ToSet(r)
    <3>1. PICK i \in 1..n : s[i] = x
      BY DEF ToSet
    <3>2. new(i) \in 1..(n - 1) /\ r[new(i)] = x
      BY <1>1, <1>3, <2>2, <3>1
    <3> QED
      BY <1>1, <3>2 DEF ToSet
  <2> QED
    BY <2>1, <2>2
<1>6. ASSUME NEW e, NEW f
      PROVE  Before(r, e, f) <=> e # s[k] /\ f # s[k] /\ Before(s, e, f)
  <2>1. ASSUME Before(r, e, f)
        PROVE  e # s[k] /\ f # s[k] /\ Before(s, e, f)
    <3>1. PICK i, j \in 1..(n - 1) : i < j /\ r[i] = e /\ r[j] = f
      BY <1>1, <2>1 DEF Before
    <3>2. /\ old(i) \in 1..n /\ old(j) \in 1..n /\ old(i) < old(j)
          /\ s[old(i)] = e /\ s[old(j)] = f /\ old(i) # k /\ old(j) # k
      BY <1>1, <1>2, <3>1
    <3> QED
      BY <3>2 DEF Before, Distinct
  <2>2. ASSUME e # s[k], f # s[k], Before(s, e, f)
        PROVE  Before(r, e, f)
    <3>1. PICK i, j \in 1..n : i < j /\ s[i] = e /\ s[j] = f
      BY <2>2 DEF Before
    <3>2. /\ new(i) \in 1..(n - 1) /\ new(j) \in 1..(n - 1) /\ new(i) < new(j)
          /\ r[new(i)] = e /\ r[new(j)] = f
      BY <1>1, <1>3, <2>2, <3>1
    <3> QED
      BY <1>1, <3>2 DEF Before
  <2> QED
    BY <2>1, <2>2
<1> QED
  BY <1>4, <1>5, <1>6 DEF r

\* New events come behind all others.
LEMMA AppendKeeps ==
  ASSUME NEW S, NEW s \in Seq(S), NEW t \in Seq(S), Distinct(s), Distinct(t),
         ToSet(s) \cap ToSet(t) = {}
  PROVE  /\ Distinct(s \o t) /\ ToSet(s \o t) = ToSet(s) \cup ToSet(t)
         /\ \A e \in ToSet(s) : \A f \in ToSet(s) :
              Before(s \o t, e, f) <=> Before(s, e, f)
         /\ \A e \in ToSet(s) : \A f \in ToSet(t) :
              Before(s \o t, e, f) /\ ~Before(s \o t, f, e)
<1> DEFINE u == s \o t  m == Len(s)  n == Len(t)
<1>1. /\ u \in Seq(S) /\ Len(u) = m + n /\ m \in Nat /\ n \in Nat
      /\ \A i \in 1..m : i \in 1..Len(u) /\ u[i] = s[i]
      /\ \A i \in 1..n : m + i \in 1..Len(u) /\ u[m + i] = t[i]
      /\ \A i \in 1..Len(u) : i \in 1..m \/ i - m \in 1..n
  BY AppendAll
<1> HIDE DEF u
<1>2. \A i \in 1..Len(u) :
        \/ i \in 1..m /\ u[i] = s[i] /\ u[i] \in ToSet(s)
        \/ /\ i - m \in 1..n /\ i > m /\ u[i] = t[i - m] /\ u[i] \in ToSet(t)
           /\ i = m + (i - m)
  <2> SUFFICES ASSUME NEW i \in 1..Len(u)
               PROVE  \/ i \in 1..m /\ u[i] = s[i] /\ u[i] \in ToSet(s)
                      \/ /\ i - m \in 1..n /\ i > m /\ u[i] = t[i - m]
                         /\ u[i] \in ToSet(t) /\ i = m + (i - m)
    OBVIOUS
  <2>1. CASE i \in 1..m
    BY <1>1, <2>1 DEF ToSet
  <2>2. CASE i - m \in 1..n
    <3>1. i = m + (i - m) /\ i > m
      BY <1>1, <2>2
    <3>2. u[m + (i - m)] = t[i - m]
      BY <1>1, <2>2
    <3>3. t[i - m] \in ToSet(t)
      BY <2>2 DEF ToSet
    <3> QED
      BY <2>2, <3>1, <3>2, <3>3
  <2> QED
    BY <1>1, <2>1, <2>2
<1>3. Distinct(u)
  <2> SUFFICES ASSUME NEW i \in 1..Len(u), NEW j \in 1..Len(u), u[i] = u[j]
               PROVE  i = j
    BY DEF Distinct
  <2>1. CASE i \in 1..m /\ j \in 1..m
    BY <1>1, <2>1 DEF Distinct
  <2>2. CASE i - m \in 1..n /\ j - m \in 1..n
    <3>0. u[m + (i - m)] = t[i - m] /\ u[m + (j - m)] = t[j - m]
      BY <1>1, <2>2
    <3>1. t[i - m] = t[j - m] /\ i = m + (i - m) /\ j = m + (j - m)
      BY <1>1, <3>0
    <3>2. i - m = j - m
      BY <2>2, <3>1 DEF Distinct
    <3> QED
      BY <3>1, <3>2
  <2> QED
    BY <1>2, <2>1, <2>2
<1>4. ToSet(u) = ToSet(s) \cup ToSet(t)
  <2>1. ToSet(u) \subseteq ToSet(s) \cup ToSet(t)
    BY <1>1, <1>2, ToSetFacts
  <2>2. ToSet(s) \subseteq ToSet(u)
    BY <1>1, ToSetFacts
  <2>3. ToSet(t) \subseteq ToSet(u)
    <3> SUFFICES ASSUME NEW x \in ToSet(t) PROVE x \in ToSet(u)
      OBVIOUS
    <3>1. PICK i \in 1..n : t[i] = x
      BY ToSetFacts
    <3> QED
      BY <1>1, <3>1, ToSetFacts
  <2> QED
    BY <2>1, <2>2, <2>3
<1>5. ASSUME NEW e \in ToSet(s), NEW f \in ToSet(s)
      PROVE  Before(u, e, f) <=> Before(s, e, f)
  <2>1. e \notin ToSet(t) /\ f \notin ToSet(t)
    OBVIOUS
  <2>2. ASSUME Before(u, e, f) PROVE Before(s, e, f)
    <3>1. PICK i, j \in 1..Len(u) : i < j /\ u[i] = e /\ u[j] = f
      BY <2>2 DEF Before
    <3> QED
      BY <1>2, <2>1, <3>1 DEF Before
  <2>3. ASSUME Before(s, e, f) PROVE Before(u, e, f)
    BY <1>1, <2>3 DEF Before
  <2> QED
    BY <2>2, <2>3
<1>6. ASSUME NEW e \in ToSet(s), NEW f \in ToSet(t)
      PROVE  Before(u, e, f) /\ ~Before(u, f, e)
  <2>1. e \notin ToSet(t) /\ f \notin ToSet(s)
    OBVIOUS
  <2>2. Before(u, e, f)
    <3>1. PICK i \in 1..m : s[i] = e
      BY DEF ToSet
    <3>2. PICK j \in 1..n : t[j] = f
      BY DEF ToSet
    <3>3. i < m + j /\ u[i] = e /\ u[m + j] = f /\ i \in 1..Len(u) /\ m + j \in 1..Len(u)
      BY <1>1, <3>1, <3>2
    <3> QED
      BY <3>3 DEF Before
  <2>3. ASSUME Before(u, f, e) PROVE FALSE
    <3>1. PICK i, j \in 1..Len(u) : i < j /\ u[i] = f /\ u[j] = e
      BY <2>3 DEF Before
    <3>2. i - m \in 1..n /\ i > m /\ j \in 1..m
      BY <1>2, <2>1, <3>1
    <3> QED
      BY <1>1, <3>1, <3>2
  <2> QED
    BY <2>2, <2>3
<1> QED
  BY <1>3, <1>4, <1>5, <1>6 DEF u

\* Of two distinct events one comes first.
LEMMA BeforeIsOrder ==
  ASSUME NEW S, NEW s \in Seq(S), Distinct(s)
  PROVE  \A e, f : Before(s, e, f) => ~Before(s, f, e) /\ e # f
<1> SUFFICES ASSUME NEW e, NEW f, Before(s, e, f)
             PROVE  ~Before(s, f, e) /\ e # f
  OBVIOUS
<1>1. PICK i, j \in 1..Len(s) : i < j /\ s[i] = e /\ s[j] = f
  BY DEF Before
<1>2. e # f
  BY <1>1 DEF Distinct
<1>3. ~Before(s, f, e)
  BY <1>1 DEF Before, Distinct
<1> QED
  BY <1>2, <1>3

-----------------------------------------------------------------------------
(* What the actions do to the events *)

\* events' is events without e and with the events of N behind the others.
Replaced(e, N) ==
  /\ events' \in Seq(Events) /\ Distinct(events')
  /\ ToSet(events') = (ToSet(events) \ {e}) \cup N
  /\ \A f, g \in ToSet(events) \ {e} :
       Before(events', f, g) <=> Before(events, f, g)
  /\ \A f \in ToSet(events) \ {e}, g \in N :
       Before(events', f, g) /\ ~Before(events', g, f)

LEMMA EventTypes ==
  ASSUME MacTypes
  PROVE  /\ ToSet(events) \subseteq Events
         /\ \A e \in ToSet(events) :
              /\ e.node \in Nodes /\ e.at \in Nat
              /\ e = [op |-> e.op, node |-> e.node, at |-> e.at, pkt |-> e.pkt]
         /\ \A e, f : Before(events, e, f) => ~Before(events, f, e) /\ e # f
<1>1. ToSet(events) \subseteq Events
  BY ToSetFacts DEF MacTypes
<1>2. \A e \in Events :
        /\ e.node \in Nodes /\ e.at \in Nat
        /\ e = [op |-> e.op, node |-> e.node, at |-> e.at, pkt |-> e.pkt]
  BY DEF Events
<1>3. \A e, f : Before(events, e, f) => ~Before(events, f, e) /\ e # f
  BY BeforeIsOrder DEF MacTypes
<1> QED
  BY <1>1, <1>2, <1>3

LEMMA NextEventFacts ==
  ASSUME MacTypes, NextEvent # 0
  PROVE  /\ NextEvent \in 1..Len(events) /\ events[NextEvent].at = slot
         /\ \A i \in 1..Len(events) : events[i].at = slot => NextEvent <= i
<1> DEFINE I == {i \in 1..Len(events) : events[i].at = slot}
<1>1. I # {} /\ NextEvent = Min(I)
  BY DEF NextEvent, SelectInSeq
<1>2. I \in SUBSET Nat
  OBVIOUS
<1>3. Min(I) \in I /\ \A i \in I : Min(I) <= i
  <2> HIDE DEF I
  <2> QED
    BY <1>1, <1>2, MinIsLeast
<1> QED
  BY <1>1, <1>3

\* The event that runs is the first of those due.
LEMMA RunFacts ==
  ASSUME MacTypes, NEW op, NEW v, NEW evs \in Seq(Events), Distinct(evs),
         Runs(op, v, evs), NEW e, e = events[NextEvent],
         ToSet(evs) \cap (ToSet(events) \ {e}) = {}
  PROVE  Replaced(e, ToSet(evs))
<1> DEFINE k == NextEvent  r == RemoveAt(events, k)
<1>1. events \in Seq(Events) /\ Distinct(events)
  BY DEF MacTypes
<1>2. k \in 1..Len(events) /\ events' = r \o evs
  BY NextEventFacts DEF Runs
<1> HIDE DEF k, r
<1>3. r \in Seq(Events)
  BY <1>1, <1>2, RemoveFacts DEF r
<1>4. e = events[k]
  BY DEF k
<1>5. /\ Distinct(r) /\ ToSet(r) = ToSet(events) \ {e}
      /\ \A f, g : Before(r, f, g) <=> f # e /\ g # e /\ Before(events, f, g)
  BY <1>1, <1>2, <1>4, RemoveKeeps DEF r
<1>6. ToSet(r) \cap ToSet(evs) = {}
  BY <1>5
<1>7. /\ Distinct(r \o evs) /\ ToSet(r \o evs) = ToSet(r) \cup ToSet(evs)
      /\ \A f \in ToSet(r) : \A g \in ToSet(r) :
           Before(r \o evs, f, g) <=> Before(r, f, g)
      /\ \A f \in ToSet(r) : \A g \in ToSet(evs) :
           Before(r \o evs, f, g) /\ ~Before(r \o evs, g, f)
  BY <1>3, <1>5, <1>6, AppendKeeps
<1>8. r \o evs \in Seq(Events)
  BY <1>3
<1> QED
  BY <1>2, <1>5, <1>7, <1>8, Zenon DEF Replaced

LEMMA RunIsFirst ==
  ASSUME MacTypes, NEW op, NEW v, NEW evs, Runs(op, v, evs),
         NEW e, e = events[NextEvent]
  PROVE  /\ e \in Pending(op, v) /\ e.at = slot /\ phase = "boundary"
         /\ \A f \in ToSet(events) : f.at = slot => f = e \/ Before(events, e, f)
<1>1. /\ NextEvent \in 1..Len(events) /\ e.at = slot
      /\ \A i \in 1..Len(events) : events[i].at = slot => NextEvent <= i
  BY NextEventFacts DEF Runs
<1>2. e \in ToSet(events) /\ e.op = op /\ e.node = v /\ phase = "boundary"
  BY <1>1, ToSetFacts DEF Runs, MacTypes
<1>3. ASSUME NEW f \in ToSet(events), f.at = slot
      PROVE  f = e \/ Before(events, e, f)
  <2>1. PICK i \in 1..Len(events) : events[i] = f
    BY ToSetFacts DEF MacTypes
  <2>2. NextEvent <= i
    BY <1>1, <1>3, <2>1
  <2>3. CASE NextEvent = i
    BY <2>1, <2>3
  <2>4. CASE NextEvent # i
    <3>1. NextEvent < i
      BY <1>1, <2>2, <2>4
    <3> QED
      BY <1>1, <2>1, <3>1 DEF Before
  <2> QED
    BY <2>3, <2>4
<1> QED
  BY <1>1, <1>2, <1>3 DEF Pending

\* The part of the state the invariants of node u speak of does not change.
NodeKept(u) ==
  /\ UNCHANGED <<slot, strategy>>
  /\ Wakes(u)' = Wakes(u) /\ Starts(u)' = Starts(u) /\ Ends(u)' = Ends(u)
  /\ OnAir(u)' = OnAir(u)
  /\ queue'[u] = queue[u] /\ isSleeping'[u] = isSleeping[u]
  /\ isTx'[u] = isTx[u] /\ seqNo'[u] = seqNo[u]
  /\ \A e \in Ends(u), f \in Starts(u) :
       Before(events', f, e) <=> Before(events, f, e)

LEMMA SendsFacts ==
  ASSUME NEW v, NEW x
  PROVE  /\ Sends(v, x) <=> \E f \in OnAir(v) : f.slot = x
         /\ SendsInARow(v, x) <=> \E f, g \in OnAir(v) :
              f.pkt = g.pkt /\ f.slot = x /\ g.slot = x - 1
         /\ Sends(v, x)' <=> \E f \in OnAir(v)' : f.slot = x
         /\ SendsInARow(v, x)' <=> \E f, g \in OnAir(v)' :
              f.pkt = g.pkt /\ f.slot = x /\ g.slot = x - 1
BY DEF Sends, SendsInARow, OnAir

LEMMA NodeKeptKeeps ==
  ASSUME NEW u, SendInv(u), FlagInv(u), NodeKept(u)
  PROVE  SendInv(u)' /\ FlagInv(u)'
<1>1. Taken(u)' = Taken(u)
  BY DEF NodeKept, Taken
<1>2. WakeInv(u)' /\ StartInv(u)'
  BY DEF SendInv, WakeInv, StartInv, NodeKept
<1>3. AirInv(u)' /\ TakenInv(u)'
  BY <1>1 DEF SendInv, AirInv, TakenInv, NodeKept
<1>4. \A x : (Sends(u, x)' <=> Sends(u, x)) /\ (SendsInARow(u, x)' <=> SendsInARow(u, x))
  BY SendsFacts DEF NodeKept
<1>5. /\ Sends(u, slot)' <=> Sends(u, slot)
      /\ SendsInARow(u, slot)' <=> SendsInARow(u, slot)
  <2>1. slot' = slot
    BY DEF NodeKept
  <2> QED
    BY <1>4, <2>1 DEF Sends, SendsInARow
<1>6. FlagInv(u)'
  BY <1>5 DEF FlagInv, NodeKept
<1> QED
  BY <1>2, <1>3, <1>6 DEF SendInv

\* The events of another node do not matter to u.
LEMMA OthersEvents ==
  ASSUME MacTypes, NEW u, NEW v, u # v, NEW e, NEW N, Replaced(e, N),
         e \in ToSet(events) => e.node = v, \A f \in N : f.node = v
  PROVE  /\ Wakes(u)' = Wakes(u) /\ Starts(u)' = Starts(u) /\ Ends(u)' = Ends(u)
         /\ \A f \in Ends(u), g \in Starts(u) :
              Before(events', g, f) <=> Before(events, g, f)
<1>1. ToSet(events') = (ToSet(events) \ {e}) \cup N
  BY DEF Replaced
<1>2. \A op : Pending(op, u)' = Pending(op, u)
  BY <1>1 DEF Pending
<1>3. \A f \in Ends(u) \cup Starts(u) : f \in ToSet(events) \ {e}
  BY DEF Ends, Starts, Pending
<1> QED
  BY <1>2, <1>3 DEF Replaced, Wakes, Starts, Ends

\* The packet that Dequeue builds, and its events.
SendEvents(v, n, s, p) ==
  [i \in 1..n |-> Event("StartSend", v, s[i], p)]
    \o <<Event("Dequeue", v, s[n] + 1, NoPacket)>>

LEMMA SendEventsFacts ==
  ASSUME NEW v \in Nodes, NEW n \in Nat \ {0}, NEW s \in Seq(Nat), Len(s) = n,
         \A i, j \in 1..n : i < j => s[i] < s[j], NEW p \in Packets
  PROVE  /\ SendEvents(v, n, s, p) \in Seq(Events)
         /\ Distinct(SendEvents(v, n, s, p))
         /\ ToSet(SendEvents(v, n, s, p)) =
              {Event("StartSend", v, x, p) : x \in ToSet(s)}
                \cup {Event("Dequeue", v, s[n] + 1, NoPacket)}
         /\ \A x \in ToSet(s) : x < s[n] + 1
         /\ s[n] + 1 \in Nat
<1> DEFINE a == [i \in 1..n |-> Event("StartSend", v, s[i], p)]
           d == Event("Dequeue", v, s[n] + 1, NoPacket)
<1>1. \A i \in 1..n : s[i] \in Nat
  OBVIOUS
<1>2. n \in 1..n /\ \A i \in 1..n : s[i] < s[n] + 1
  BY <1>1
<1>3. /\ \A i \in 1..n : Event("StartSend", v, s[i], p) \in Events
      /\ d \in Events
  BY <1>1, <1>2 DEF Event, Events, NoPacket
<1>4. /\ a \in Seq(Events) /\ Len(a) = n /\ <<d>> \in Seq(Events)
      /\ \A i \in 1..n : a[i] = Event("StartSend", v, s[i], p)
  BY <1>3
<1>5. Distinct(a)
  <2> SUFFICES ASSUME NEW i \in 1..n, NEW j \in 1..n, a[i] = a[j]
               PROVE  i = j
    BY <1>4 DEF Distinct
  <2>1. s[i] = s[j]
    BY <1>4 DEF Event
  <2> QED
    BY <1>1, <2>1
<1>6. Distinct(<<d>>) /\ ToSet(<<d>>) = {d}
  BY DEF Distinct, ToSet
<1>7. ToSet(a) = {Event("StartSend", v, x, p) : x \in ToSet(s)}
  <2> HIDE DEF a
  <2>1. \A e : e \in ToSet(a) <=> \E i \in 1..n : a[i] = e
    BY <1>4, ToSetFacts
  <2>2. \A x : x \in ToSet(s) <=> \E i \in 1..n : s[i] = x
    BY ToSetFacts
  <2> QED
    BY <1>4, <2>1, <2>2
<1>8. ToSet(a) \cap ToSet(<<d>>) = {}
  BY <1>6, <1>7 DEF Event
<1>9. /\ Distinct(a \o <<d>>) /\ ToSet(a \o <<d>>) = ToSet(a) \cup ToSet(<<d>>)
      /\ a \o <<d>> \in Seq(Events)
  <2> HIDE DEF a, d
  <2>1. <<d>> \in Seq(Events) /\ a \in Seq(Events)
    BY <1>4
  <2> QED
    BY <1>5, <1>6, <1>8, <2>1, AppendKeeps, AppendAll
<1>10. \A x \in ToSet(s) : x < s[n] + 1
  BY <1>2, ToSetFacts
<1>11. s[n] + 1 \in Nat
  BY <1>1, <1>2
<1>12. SendEvents(v, n, s, p) = a \o <<d>>
  BY DEF SendEvents
<1> HIDE DEF a
<1> QED
  BY <1>6, <1>7, <1>9, <1>10, <1>11, <1>12

-----------------------------------------------------------------------------
(* What each action does *)

\* The events of the packet p.
Copies(v, p) == {Event("StartSend", v, x, p) : x \in ToSet(p.allSlots)}

\* v draws the slots of p, the next packet, and wakes again at y.
Draws(v, p, y) ==
  /\ p \in Packets /\ p.src = v /\ p.seq = seqNo[v] /\ p.tid = Head(queue[v])
  /\ p.s = strategy[v].s /\ y \in Nat
  /\ p.allSlots \in Seq(Nat) /\ Len(p.allSlots) = strategy[v].n
  /\ \A i, j \in 1..Len(p.allSlots) : i < j => p.allSlots[i] < p.allSlots[j]
  /\ \A x \in ToSet(p.allSlots) : slot <= x /\ x < y

\* When a Dequeue is due no copy is to come, and those sent are in past slots.
LEMMA WakeFacts ==
  ASSUME MacInv, NEW v \in Nodes, NEW d \in Wakes(v), d.at = slot
  PROVE  /\ Wakes(v) = {d} /\ Starts(v) = {} /\ ~isSleeping[v]
         /\ \A f \in OnAir(v) : f.slot < slot
<1>1. SendInv(v) /\ InTime /\ MacTypes
  BY DEF MacInv
<1>2. Wakes(v) = {d} /\ ~isSleeping[v]
  BY <1>1 DEF SendInv, WakeInv, MacTypes
<1>3. \A e \in Starts(v) : e.at < slot /\ slot <= e.at /\ e.at \in Nat /\ slot \in Nat
  <2> SUFFICES ASSUME NEW e \in Starts(v)
               PROVE  e.at < slot /\ slot <= e.at /\ e.at \in Nat /\ slot \in Nat
    OBVIOUS
  <2>1. e \in ToSet(events)
    BY DEF Starts, Pending
  <2>2. e.at < slot
    BY <1>1 DEF SendInv, WakeInv
  <2> QED
    BY <1>1, <2>1, <2>2, EventTypes DEF InTime, MacTypes
<1>4. Starts(v) = {}
  BY <1>3
<1>5. \A f \in OnAir(v) : f.slot < slot
  BY <1>1 DEF SendInv, AirInv
<1> QED
  BY <1>2, <1>4, <1>5

LEMMA DequeueFacts ==
  ASSUME MacInv, NEW v \in Nodes, Dequeue(v)
  PROVE  \E d \in Wakes(v) :
           /\ d.at = slot /\ phase = "boundary"
           /\ \A f \in ToSet(events) : f.at = slot => f = d \/ Before(events, d, f)
           /\ \/ /\ queue[v] = <<>> /\ Replaced(d, {})
                 /\ isSleeping' = [isSleeping EXCEPT ![v] = TRUE]
                 /\ UNCHANGED <<queue, seqNo>>
              \/ /\ queue[v] # <<>> /\ UNCHANGED isSleeping
                 /\ queue' = [queue EXCEPT ![v] = Tail(@)]
                 /\ seqNo' = [seqNo EXCEPT ![v] = @ + 1]
                 /\ \E p, y : /\ Draws(v, p, y)
                              /\ Replaced(d, Copies(v, p) \cup
                                               {Event("Dequeue", v, y, NoPacket)})
<1> DEFINE d == events[NextEvent]
<1>1. MacTypes
  BY DEF MacInv
<1>2. PICK evs : Runs("Dequeue", v, evs)
  BY DEF Dequeue
<1>3. /\ d \in Wakes(v) /\ d.at = slot /\ phase = "boundary"
      /\ \A f \in ToSet(events) : f.at = slot => f = d \/ Before(events, d, f)
  BY <1>1, <1>2, RunIsFirst DEF Wakes
<1>4. CASE queue[v] = <<>>
  <2>1. Runs("Dequeue", v, <<>>)
    BY <1>4 DEF Dequeue
  <2>2. <<>> \in Seq(Events) /\ Distinct(<<>>) /\ ToSet(<<>>) = {}
    BY DEF Distinct, ToSet
  <2>3. Replaced(d, {})
    BY <1>1, <2>1, <2>2, RunFacts
  <2> QED
    BY <1>3, <1>4, <2>3 DEF Dequeue
<1>5. CASE queue[v] # <<>>
  <2> DEFINE n == strategy[v].n
  <2>1. PICK s \in GetNSlots(n) :
          Runs("Dequeue", v,
               SendEvents(v, n, s,
                 Packet(v, seqNo[v], Head(queue[v]), s, strategy[v].s)))
    BY <1>5 DEF Dequeue, SendEvents
  <2> DEFINE p == Packet(v, seqNo[v], Head(queue[v]), s, strategy[v].s)
             y == s[n] + 1
             N == Copies(v, p) \cup {Event("Dequeue", v, y, NoPacket)}
  <2>2. n \in Nat \ {0} /\ strategy[v].s \in Nat \ {0} /\ slot \in Nat
    <3>1. strategy[v] \in Strategies
      BY <1>1 DEF MacTypes
    <3> QED
      BY <1>1, <3>1, NetAssumption DEF MacTypes
  <2>3. s \in Seq(Nat) /\ Len(s) = n /\ \A i \in 1..n : slot <= s[i]
    <3>1. MaxGap \in Nat
      BY NetAssumption
    <3>2. s \in [1..n -> slot..(slot + n * (MaxGap + 1))]
      BY DEF GetNSlots
    <3>3. n * (MaxGap + 1) \in Nat
      <4>1. \A x, z \in Nat : x * z \in Nat
        OBVIOUS
      <4> QED
        BY <2>2, <3>1, <4>1
    <3> HIDE DEF n
    <3>4. \A k \in slot..(slot + n * (MaxGap + 1)) : k \in Nat /\ slot <= k
      BY <2>2, <3>3
    <3>5. \A i \in 1..n : s[i] \in Nat /\ slot <= s[i]
      BY <3>2, <3>4
    <3>6. s = [i \in 1..n |-> s[i]]
      BY <3>2
    <3>7. s \in [1..n -> Nat]
      BY <3>5, <3>6
    <3>8. s \in Seq(Nat) /\ Len(s) = n
      BY <2>2, <3>7
    <3> QED
      BY <3>5, <3>8
  <2>4. \A i, j \in 1..n : i < j => s[i] < s[j]
    BY DEF GetNSlots
  <2>5. p \in Packets
    <3>1. Head(queue[v]) \in Tids
      BY <1>1, <1>5 DEF MacTypes
    <3> QED
      BY <1>1, <2>2, <2>3, <3>1 DEF Packet, Packets, MacTypes
  <2>6. /\ p.src = v /\ p.seq = seqNo[v] /\ p.tid = Head(queue[v])
        /\ p.s = strategy[v].s /\ p.allSlots = s
    BY DEF Packet
  <2> HIDE DEF p
  <2>7. /\ SendEvents(v, n, s, p) \in Seq(Events) /\ Distinct(SendEvents(v, n, s, p))
        /\ ToSet(SendEvents(v, n, s, p)) = N
        /\ \A x \in ToSet(s) : x < y
        /\ y \in Nat
    <3> HIDE DEF n
    <3>1. /\ SendEvents(v, n, s, p) \in Seq(Events) /\ Distinct(SendEvents(v, n, s, p))
          /\ ToSet(SendEvents(v, n, s, p)) =
               {Event("StartSend", v, x, p) : x \in ToSet(s)}
                 \cup {Event("Dequeue", v, y, NoPacket)}
          /\ \A x \in ToSet(s) : x < y
          /\ y \in Nat
      BY <2>2, <2>3, <2>4, <2>5, SendEventsFacts, Zenon
    <3>2. Copies(v, p) = {Event("StartSend", v, x, p) : x \in ToSet(s)}
      BY <2>6 DEF Copies
    <3> QED
      BY <3>1, <3>2, Zenon
  <2>8. Runs("Dequeue", v, SendEvents(v, n, s, p))
    BY <2>1 DEF p
  <2>9. N \cap (ToSet(events) \ {d}) = {}
    <3>1. Wakes(v) = {d} /\ Starts(v) = {}
      BY <1>3, WakeFacts
    <3> QED
      BY <3>1 DEF Wakes, Starts, Pending, Copies, Event
  <2>10. Replaced(d, N)
    <3> HIDE DEF d, n
    <3> SUFFICES Replaced(d, ToSet(SendEvents(v, n, s, p)))
      BY <2>7, Zenon
    <3> HIDE DEF N
    <3>1. d = events[NextEvent]
      BY DEF d
    <3>2. ToSet(SendEvents(v, n, s, p)) \cap (ToSet(events) \ {d}) = {}
      BY <2>7, <2>9
    <3> QED
      BY <1>1, <2>7, <2>8, <3>1, <3>2, RunFacts
  <2>11. Draws(v, p, y)
    <3>1. \A x \in ToSet(s) : slot <= x
      BY <2>3, ToSetFacts
    <3> QED
      BY <2>3, <2>4, <2>5, <2>6, <2>7, <3>1 DEF Draws
  <2> QED
    BY <1>3, <1>5, <2>10, <2>11 DEF Dequeue
<1> QED
  BY <1>4, <1>5

EndEvent(v) == Event("EndSend", v, slot + 1, NoPacket)

LEMMA OneEvent ==
  ASSUME NEW d \in Events
  PROVE  <<d>> \in Seq(Events) /\ Distinct(<<d>>) /\ ToSet(<<d>>) = {d}
BY DEF Distinct, ToSet

LEMMA StartSendFacts ==
  ASSUME MacInv, NEW v \in Nodes, StartSend(v)
  PROVE  \E e \in Starts(v) :
           /\ e.at = slot /\ phase = "boundary"
           /\ \A f \in ToSet(events) : f.at = slot => f = e \/ Before(events, e, f)
           /\ Replaced(e, {EndEvent(v)})
           /\ isTx' = [isTx EXCEPT ![v] = TRUE]
           /\ air' = air \cup {[pkt |-> e.pkt, slot |-> slot]}
           /\ inFlight' = inFlight \cup Send(v, [pkt |-> e.pkt, slot |-> slot])
           /\ \A f \in Starts(v) : f # e => slot < f.at
           /\ \A f \in OnAir(v) : f.slot < slot
           /\ \A f \in Ends(v) : f.at <= slot
<1> DEFINE e == events[NextEvent]
<1>1. MacTypes /\ InTime /\ SendInv(v)
  BY DEF MacInv
<1>2. Runs("StartSend", v, <<EndEvent(v)>>)
  BY DEF StartSend, EndSendSlot, EndEvent
<1>3. /\ e \in Starts(v) /\ e.at = slot /\ phase = "boundary"
      /\ \A f \in ToSet(events) : f.at = slot => f = e \/ Before(events, e, f)
  BY <1>1, <1>2, RunIsFirst DEF Starts
<1>4. /\ isTx' = [isTx EXCEPT ![v] = TRUE]
      /\ air' = air \cup {[pkt |-> e.pkt, slot |-> slot]}
      /\ inFlight' = inFlight \cup Send(v, [pkt |-> e.pkt, slot |-> slot])
  BY DEF StartSend
<1> HIDE DEF e
<1>5. \A f \in Starts(v) : f # e => slot < f.at
  <2> SUFFICES ASSUME NEW f \in Starts(v), f # e PROVE slot < f.at
    OBVIOUS
  <2>1. f.at # slot
    BY <1>1, <1>3 DEF SendInv, StartInv
  <2>2. f \in ToSet(events)
    BY DEF Starts, Pending
  <2>3. slot <= f.at /\ f.at \in Nat /\ slot \in Nat
    BY <1>1, <2>2, EventTypes DEF InTime, MacTypes
  <2> QED
    BY <2>1, <2>3
<1>6. \A f \in OnAir(v) : f.slot < slot
  BY <1>1, <1>3 DEF SendInv, AirInv
<1>7. \A f \in Ends(v) : f.at <= slot
  <2> SUFFICES ASSUME NEW f \in Ends(v) PROVE f.at <= slot
    OBVIOUS
  <2>1. PICK g \in OnAir(v) : f.at = g.slot + 1
    BY <1>1 DEF SendInv, AirInv
  <2>2. g.slot \in Nat /\ slot \in Nat
    BY <1>1 DEF MacTypes, OnAir, Fragments
  <2> QED
    BY <1>6, <2>1, <2>2
<1>8. EndEvent(v) \notin ToSet(events)
  <2>1. slot \in Nat
    BY <1>1 DEF MacTypes
  <2>2. EndEvent(v).at = slot + 1 /\ EndEvent(v).op = "EndSend" /\ EndEvent(v).node = v
    BY DEF EndEvent, Event
  <2> QED
    BY <1>7, <2>1, <2>2 DEF Ends, Pending
<1>9. EndEvent(v) \in Events
  BY <1>1 DEF EndEvent, Event, Events, MacTypes
<1>10. Replaced(e, {EndEvent(v)})
  <2> DEFINE evs == <<EndEvent(v)>>
  <2>1. /\ evs \in Seq(Events) /\ Distinct(evs) /\ ToSet(evs) = {EndEvent(v)}
        /\ Runs("StartSend", v, evs)
    BY <1>2, <1>9, OneEvent
  <2> HIDE DEF evs
  <2>2. ToSet(evs) \cap (ToSet(events) \ {e}) = {}
    BY <1>8, <2>1
  <2>3. e = events[NextEvent]
    BY DEF e
  <2>4. Replaced(e, ToSet(evs))
    BY <1>1, <2>1, <2>2, <2>3, RunFacts
  <2> QED
    BY <2>1, <2>4
<1> QED
  BY <1>3, <1>4, <1>5, <1>6, <1>7, <1>10

LEMMA EndSendFacts ==
  ASSUME MacInv, NEW v \in Nodes, EndSend(v)
  PROVE  \E e \in Ends(v) :
           /\ e.at = slot /\ phase = "boundary"
           /\ \A f \in ToSet(events) : f.at = slot => f = e \/ Before(events, e, f)
           /\ Replaced(e, {})
           /\ isTx' = [isTx EXCEPT ![v] = FALSE]
<1>1. MacTypes
  BY DEF MacInv
<1>2. Runs("EndSend", v, <<>>)
  BY DEF EndSend
<1>3. <<>> \in Seq(Events) /\ Distinct(<<>>) /\ ToSet(<<>>) = {}
  BY DEF Distinct, ToSet
<1>4. Replaced(events[NextEvent], {})
  BY <1>1, <1>2, <1>3, RunFacts
<1> QED
  BY <1>1, <1>2, <1>4, RunIsFirst DEF EndSend, Ends

LEMMA TrafficFacts ==
  ASSUME MacInv, NEW v \in Nodes, Traffic(v)
  PROVE  \E t \in Tids :
           /\ txCount' = [txCount EXCEPT ![v][t] = @ + 1]
           /\ SumFunction(txCount[v]) < MaxPackets
           /\ \/ UNCHANGED <<queue, isSleeping, events>>
              \/ /\ Len(queue[v]) < QueueSize
                 /\ queue' = [queue EXCEPT ![v] = Append(@, t)]
                 /\ isSleeping' = [isSleeping EXCEPT ![v] = FALSE]
                 /\ \/ ~isSleeping[v] /\ UNCHANGED events
                    \/ /\ isSleeping[v]
                       /\ \E x \in Nat :
                            /\ slot <= x /\ (phase # "boundary" => slot < x)
                            /\ Event("Dequeue", v, x, NoPacket) \notin ToSet(events)
                            /\ Replaced(Event("Dequeue", v, x, NoPacket),
                                        {Event("Dequeue", v, x, NoPacket)})
<1>1. MacTypes /\ SendInv(v)
  BY DEF MacInv
<1>2. PICK t \in Tids : Enqueue(v, t)
  BY DEF Traffic
<1>3. /\ txCount' = [txCount EXCEPT ![v][t] = @ + 1]
      /\ SumFunction(txCount[v]) < MaxPackets
  BY <1>2 DEF Traffic, Enqueue, EnqueueCallback
<1>4. CASE ~HasRoom(v)
  BY <1>2, <1>3, <1>4 DEF Enqueue
<1>5. CASE HasRoom(v)
  <2>1. /\ Len(queue[v]) < QueueSize
        /\ queue' = [queue EXCEPT ![v] = Append(@, t)]
        /\ isSleeping' = [isSleeping EXCEPT ![v] = FALSE]
        /\ events' = events \o WakeUp(v)
    BY <1>2, <1>5 DEF Enqueue, HasRoom
  <2>2. CASE ~isSleeping[v]
    <3>1. events' = events
      BY <1>1, <2>1, <2>2 DEF WakeUp, MacTypes
    <3> QED
      BY <1>3, <2>1, <2>2, <3>1
  <2>3. CASE isSleeping[v]
    <3> DEFINE d == Event("Dequeue", v, NextSlot, NoPacket)
    <3>1. /\ NextSlot \in Nat /\ slot <= NextSlot
          /\ phase # "boundary" => slot < NextSlot
      BY <1>1 DEF NextSlot, MacTypes
    <3>2. d \in Events
      BY <3>1 DEF Event, Events
    <3>3. d \notin ToSet(events)
      BY <1>1, <2>3 DEF SendInv, WakeInv, Wakes, Pending, Event
    <3>4. events' = events \o <<d>>
      BY <2>1, <2>3 DEF WakeUp
    <3> HIDE DEF d
    <3>5. /\ <<d>> \in Seq(Events) /\ Distinct(<<d>>) /\ ToSet(<<d>>) = {d}
          /\ events \in Seq(Events) /\ Distinct(events)
      BY <1>1, <3>2, OneEvent DEF MacTypes
    <3>6. ToSet(events) \cap ToSet(<<d>>) = {}
      BY <3>3, <3>5
    <3>7. /\ Distinct(events') /\ ToSet(events') = ToSet(events) \cup {d}
          /\ \A e \in ToSet(events) : \A f \in ToSet(events) :
               Before(events', e, f) <=> Before(events, e, f)
          /\ \A e \in ToSet(events) : \A f \in {d} :
               Before(events', e, f) /\ ~Before(events', f, e)
      <4> DEFINE t1 == <<d>>
      <4>1. events' = events \o t1 /\ ToSet(t1) = {d} /\ t1 \in Seq(Events)
            /\ Distinct(t1)
        BY <3>4, <3>5
      <4>2. ToSet(events) \cap ToSet(t1) = {}
        BY <3>6
      <4> HIDE DEF t1
      <4>3. /\ Distinct(events \o t1) /\ ToSet(events \o t1) = ToSet(events) \cup ToSet(t1)
            /\ \A e \in ToSet(events) : \A f \in ToSet(events) :
                 Before(events \o t1, e, f) <=> Before(events, e, f)
            /\ \A e \in ToSet(events) : \A f \in ToSet(t1) :
                 Before(events \o t1, e, f) /\ ~Before(events \o t1, f, e)
        BY <3>5, <4>1, <4>2, AppendKeeps
      <4> QED
        BY <4>1, <4>3
    <3>8. events' \in Seq(Events)
      BY <3>4, <3>5
    <3>9. ToSet(events) \ {d} = ToSet(events)
      BY <3>3
    <3>10. Replaced(d, {d})
      BY <3>7, <3>8, <3>9 DEF Replaced
    <3> QED
      BY <1>3, <2>1, <2>3, <3>1, <3>3, <3>10 DEF d
  <2> QED
    BY <2>2, <2>3
<1> QED
  BY <1>4, <1>5

-----------------------------------------------------------------------------
(* The sending sides keep their invariant *)

NodesInv == MacInv /\ \A v \in Nodes : FlagInv(v)

LEMMA EventFields ==
  ASSUME NEW op, NEW v, NEW x, NEW p
  PROVE  /\ Event(op, v, x, p).op = op /\ Event(op, v, x, p).node = v
         /\ Event(op, v, x, p).at = x /\ Event(op, v, x, p).pkt = p
BY DEF Event

\* Three kinds of events.
LEMMA Kinds ==
  /\ \A v : \A e \in Wakes(v) : e \in ToSet(events) /\ e.op = "Dequeue" /\ e.node = v
  /\ \A v : \A e \in Starts(v) : e \in ToSet(events) /\ e.op = "StartSend" /\ e.node = v
  /\ \A v : \A e \in Ends(v) : e \in ToSet(events) /\ e.op = "EndSend" /\ e.node = v
BY DEF Wakes, Starts, Ends, Pending

LEMMA AirTypes ==
  ASSUME MacTypes
  PROVE  \A f \in air : /\ f.slot \in Nat /\ f.pkt \in Packets /\ f.pkt.src \in Nodes
                        /\ f.pkt.seq \in Nat /\ f.pkt.tid \in Tids
                        /\ f.pkt.allSlots \in Seq(Nat) /\ f.pkt.s \in Nat \ {0}
                        /\ f = [pkt |-> f.pkt, slot |-> f.slot]
<1>1. air \subseteq Fragments
  BY DEF MacTypes
<1>2. \A f \in Fragments : /\ f.slot \in Nat /\ f.pkt \in Packets
                           /\ f = [pkt |-> f.pkt, slot |-> f.slot]
  BY DEF Fragments
<1>3. \A p \in Packets : /\ p.src \in Nodes /\ p.seq \in Nat /\ p.tid \in Tids
                         /\ p.allSlots \in Seq(Nat) /\ p.s \in Nat \ {0}
  BY DEF Packets
<1> QED
  BY <1>1, <1>2, <1>3

\* A Dequeue that finds nothing puts the node to sleep.
LEMMA DequeueSleepsKeeps ==
  ASSUME NodesInv, NEW v \in Nodes, NEW d \in Wakes(v), d.at = slot,
         queue[v] = <<>>, Replaced(d, {}),
         isSleeping' = [isSleeping EXCEPT ![v] = TRUE],
         UNCHANGED <<slot, phase, strategy, queue, seqNo, isTx, air>>
  PROVE  SendInv(v)' /\ FlagInv(v)'
<1>1. MacTypes /\ SendInv(v) /\ FlagInv(v)
  BY DEF NodesInv, MacInv
<1>2. Wakes(v) = {d} /\ Starts(v) = {} /\ \A f \in OnAir(v) : f.slot < slot
  BY WakeFacts DEF NodesInv
<1>3. Wakes(v)' = {} /\ Starts(v)' = {} /\ Ends(v)' = Ends(v) /\ OnAir(v)' = OnAir(v)
  <2>1. ToSet(events') = ToSet(events) \ {d}
    BY DEF Replaced
  <2> QED
    BY <1>2, <2>1 DEF Wakes, Starts, Ends, Pending, OnAir
<1>4. isSleeping'[v] = TRUE /\ queue'[v] = <<>>
  BY <1>1 DEF MacTypes
<1>5. WakeInv(v)' /\ StartInv(v)'
  BY <1>3, <1>4 DEF WakeInv, StartInv
<1>6. AirInv(v)'
  BY <1>1, <1>2, <1>3 DEF SendInv, AirInv
<1>7. Taken(v)' = Taken(v)
  BY <1>2, <1>3 DEF Taken
<1>8. TakenInv(v)'
  BY <1>1, <1>2, <1>3, <1>7 DEF SendInv, TakenInv
<1>9. FlagInv(v)'
  <2>1. (Sends(v, slot)' <=> Sends(v, slot)) /\ (SendsInARow(v, slot)' <=> SendsInARow(v, slot))
    BY DEF Sends, SendsInARow
  <2> QED
    BY <1>1, <1>3, <2>1 DEF FlagInv
<1> QED
  BY <1>5, <1>6, <1>8, <1>9 DEF SendInv

\* A Dequeue that finds a packet books its copies, behind an EndSend of this slot.
LEMMA DequeueBooksKeeps ==
  ASSUME NodesInv, NEW v \in Nodes, NEW d \in Wakes(v), d.at = slot,
         queue[v] # <<>>,
         queue' = [queue EXCEPT ![v] = Tail(@)],
         seqNo' = [seqNo EXCEPT ![v] = @ + 1],
         NEW p, NEW y, Draws(v, p, y),
         Replaced(d, Copies(v, p) \cup {Event("Dequeue", v, y, NoPacket)}),
         UNCHANGED <<slot, phase, strategy, isSleeping, isTx, air>>
  PROVE  SendInv(v)' /\ FlagInv(v)'
<1> DEFINE w == Event("Dequeue", v, y, NoPacket)
<1>1. MacTypes /\ SendInv(v) /\ FlagInv(v)
  BY DEF NodesInv, MacInv
<1>2. Wakes(v) = {d} /\ Starts(v) = {} /\ ~isSleeping[v] /\ \A f \in OnAir(v) : f.slot < slot
  BY WakeFacts DEF NodesInv
<1>3. /\ Wakes(v)' = {w} /\ Starts(v)' = Copies(v, p) /\ Ends(v)' = Ends(v)
      /\ OnAir(v)' = OnAir(v)
  <2>1. ToSet(events') = (ToSet(events) \ {d}) \cup (Copies(v, p) \cup {w})
    BY DEF Replaced
  <2>2. \A e \in Copies(v, p) : e.op = "StartSend" /\ e.node = v
    BY EventFields DEF Copies
  <2>3. w.op = "Dequeue" /\ w.node = v
    BY EventFields
  <2> HIDE DEF w
  <2> QED
    BY <1>2, <2>1, <2>2, <2>3 DEF Wakes, Starts, Ends, Pending, OnAir
<1>4. /\ w.at = y /\ y \in Nat
      /\ \A e \in Copies(v, p) : /\ e.at \in ToSet(p.allSlots) /\ e.pkt = p
                                 /\ e = Event("StartSend", v, e.at, p)
      /\ \A x \in ToSet(p.allSlots) : slot <= x /\ x < y /\ x \in Nat
      /\ \A x \in ToSet(p.allSlots) : \E e \in Copies(v, p) : e.at = x /\ e.pkt = p
  <2>1. ToSet(p.allSlots) \subseteq Nat
    BY ToSetFacts DEF Draws
  <2>2. w.at = y
    BY EventFields
  <2>3. y \in Nat /\ \A x \in ToSet(p.allSlots) : slot <= x /\ x < y
    BY DEF Draws
  <2>4. \A e \in Copies(v, p) : /\ e.at \in ToSet(p.allSlots) /\ e.pkt = p
                                /\ e = Event("StartSend", v, e.at, p)
    BY EventFields DEF Copies
  <2>5. \A x \in ToSet(p.allSlots) : \E e \in Copies(v, p) : e.at = x /\ e.pkt = p
    <3> SUFFICES ASSUME NEW x \in ToSet(p.allSlots)
                 PROVE  \E e \in Copies(v, p) : e.at = x /\ e.pkt = p
      OBVIOUS
    <3>1. Event("StartSend", v, x, p) \in Copies(v, p)
      BY DEF Copies
    <3> QED
      BY <3>1, EventFields
  <2> HIDE DEF w
  <2> QED
    BY <2>1, <2>2, <2>3, <2>4, <2>5
<1>5. /\ p \in Packets /\ p.src = v /\ p.seq = seqNo[v] /\ p.s = strategy[v].s
      /\ seqNo[v] \in Nat /\ seqNo'[v] = seqNo[v] + 1
  BY <1>1 DEF Draws, MacTypes
<1>6. \E e \in Copies(v, p) : e.pkt = p
  <2>1. strategy[v].n \in Nat \ {0}
    BY <1>1, NetAssumption DEF MacTypes
  <2>2. p.allSlots[1] \in ToSet(p.allSlots)
    BY <2>1, ToSetFacts DEF Draws
  <2> QED
    BY <1>4, <2>2
<1> HIDE DEF w
<1>7. WakeInv(v)'
  BY <1>2, <1>3, <1>4 DEF WakeInv
<1>8. StartInv(v)'
  BY <1>3, <1>4, <1>5 DEF StartInv
<1>9. AirInv(v)'
  <2>1. ASSUME NEW f \in OnAir(v), NEW e \in Copies(v, p) \cup {w}
        PROVE  f.slot < e.at
    <3>1. f.slot \in Nat /\ slot \in Nat /\ f.slot < slot
      BY <1>1, <1>2, AirTypes DEF OnAir, MacTypes
    <3>2. slot <= e.at /\ e.at \in Nat
      <4>1. CASE e \in Copies(v, p)
        BY <1>4, <4>1
      <4>2. CASE e = w
        BY <1>4, <1>6, <3>1, <4>2
      <4> QED
        BY <4>1, <4>2
    <3> QED
      BY <3>1, <3>2
  <2> QED
    BY <1>1, <1>2, <1>3, <2>1 DEF SendInv, AirInv
<1>10. Taken(v)' = Taken(v) \cup {p}
  BY <1>2, <1>3, <1>4, <1>6 DEF Taken
<1>11. \A q \in Taken(v) : q.seq < seqNo[v] /\ q.seq \in Nat
  <2>1. \A q \in Taken(v) : q.seq < seqNo[v]
    BY <1>1 DEF SendInv, TakenInv
  <2> QED
    BY <1>1, <1>2, <2>1, AirTypes DEF Taken, OnAir
<1>12. TakenInv(v)'
  <2>1. \A q \in Taken(v)' : q.seq < seqNo'[v] /\ q.s = strategy[v].s
    BY <1>1, <1>5, <1>10, <1>11 DEF SendInv, TakenInv
  <2>2. \A q, r \in Taken(v)' : q.seq = r.seq => q = r
    BY <1>1, <1>5, <1>10, <1>11 DEF SendInv, TakenInv
  <2>3. \A q \in Taken(v)' : \A x \in ToSet(q.allSlots) :
          \/ \E e \in Starts(v)' : e.at = x /\ e.pkt = q
          \/ [pkt |-> q, slot |-> x] \in OnAir(v)'
    <3> SUFFICES ASSUME NEW q \in Taken(v)', NEW x \in ToSet(q.allSlots)
                 PROVE  \/ \E e \in Starts(v)' : e.at = x /\ e.pkt = q
                        \/ [pkt |-> q, slot |-> x] \in OnAir(v)'
      OBVIOUS
    <3>1. CASE q = p
      BY <1>3, <1>4, <3>1
    <3>2. CASE q \in Taken(v)
      <4>1. \/ \E e \in Starts(v) : e.at = x /\ e.pkt = q
            \/ [pkt |-> q, slot |-> x] \in OnAir(v)
        BY <1>1, <3>2 DEF SendInv, TakenInv
      <4> QED
        BY <1>2, <1>3, <4>1
    <3> QED
      BY <1>10, <3>1, <3>2
  <2> QED
    BY <2>1, <2>2, <2>3 DEF TakenInv
<1>13. FlagInv(v)'
  <2>1. (Sends(v, slot)' <=> Sends(v, slot)) /\ (SendsInARow(v, slot)' <=> SendsInARow(v, slot))
    BY DEF Sends, SendsInARow
  <2>2. \A f \in OnAir(v) : f.pkt # p
    BY <1>5, <1>11 DEF Taken
  <2>3. ASSUME NEW e \in Ends(v), NEW f \in Copies(v, p)
        PROVE  ~Before(events', f, e)
    <3>1. e \in ToSet(events) \ {d}
      BY Kinds
    <3> QED
      BY <3>1 DEF Replaced
  <2>4. \A e \in Ends(v), f \in Copies(v, p), g \in OnAir(v) :
          Before(events', f, e) <=> f.pkt = g.pkt
    BY <1>4, <2>2, <2>3
  <2> QED
    BY <1>1, <1>3, <1>4, <2>1, <2>2, <2>4 DEF FlagInv
<1> QED
  BY <1>7, <1>8, <1>9, <1>12, <1>13 DEF SendInv

\* StartSend puts a copy on air, and its EndSend behind a copy in the next slot.
LEMMA StartSendKeeps ==
  ASSUME NodesInv, NEW v \in Nodes, NEW e \in Starts(v), e.at = slot,
         \A f \in ToSet(events) : f.at = slot => f = e \/ Before(events, e, f),
         Replaced(e, {EndEvent(v)}),
         isTx' = [isTx EXCEPT ![v] = TRUE],
         air' = air \cup {[pkt |-> e.pkt, slot |-> slot]},
         \A f \in Starts(v) : f # e => slot < f.at,
         \A f \in OnAir(v) : f.slot < slot,
         \A f \in Ends(v) : f.at <= slot,
         UNCHANGED <<slot, phase, strategy, queue, isSleeping, seqNo>>
  PROVE  SendInv(v)' /\ FlagInv(v)'
<1> DEFINE h == [pkt |-> e.pkt, slot |-> slot]  n == EndEvent(v)
<1>1. MacTypes /\ SendInv(v) /\ FlagInv(v) /\ slot \in Nat
  BY DEF NodesInv, MacInv, MacTypes
<1>2. h.pkt = e.pkt /\ h.slot = slot /\ n.at = slot + 1 /\ n.op = "EndSend" /\ n.node = v
  BY EventFields DEF EndEvent
<1>3. h.pkt.src = v /\ ~isSleeping[v] /\ isSleeping'[v] = isSleeping[v] /\ isTx'[v] = TRUE
  BY <1>1, <1>2 DEF SendInv, StartInv, WakeInv, MacTypes
<1>4. air' = air \cup {h}
  OBVIOUS
<1> HIDE DEF h, n
<1>5. /\ Wakes(v)' = Wakes(v) /\ Starts(v)' = Starts(v) \ {e}
      /\ Ends(v)' = Ends(v) \cup {n} /\ OnAir(v)' = OnAir(v) \cup {h}
  <2>1. ToSet(events') = (ToSet(events) \ {e}) \cup {n}
    BY DEF Replaced, n
  <2>2. e.op = "StartSend" /\ e.node = v
    BY Kinds
  <2> QED
    BY <1>2, <1>3, <1>4, <2>1, <2>2 DEF Wakes, Starts, Ends, Pending, OnAir
<1>6. /\ \A f \in OnAir(v) : f.slot \in Nat /\ f.slot < slot
      /\ \A f \in Starts(v) : f # e => slot < f.at
      /\ \A f \in Starts(v) : f.pkt = e.pkt
  BY <1>1, AirTypes DEF OnAir, SendInv, StartInv
<1>7. WakeInv(v)'
  BY <1>1, <1>3, <1>5 DEF SendInv, WakeInv
<1>8. StartInv(v)'
  BY <1>1, <1>5 DEF SendInv, StartInv
<1>9. AirInv(v)'
  <2>1. \A d \in Wakes(v) : slot < d.at
    BY <1>1 DEF SendInv, WakeInv
  <2>2. \A f \in OnAir(v)' :
          /\ f.slot <= slot' /\ (isSleeping'[v] => f.slot < slot')
          /\ \A x \in Starts(v)' \cup Wakes(v)' : f.slot < x.at
    BY <1>1, <1>2, <1>3, <1>5, <1>6, <2>1 DEF SendInv, AirInv
  <2>3. \A f, g \in OnAir(v)' : f.slot = g.slot => f = g
    BY <1>1, <1>2, <1>5, <1>6 DEF SendInv, AirInv
  <2>4. \A x \in Ends(v)' : \E g \in OnAir(v)' : x.at = g.slot + 1
    BY <1>1, <1>2, <1>5 DEF SendInv, AirInv
  <2> QED
    BY <2>2, <2>3, <2>4 DEF AirInv
<1>10. Taken(v)' = Taken(v)
  <2>1. Taken(v)' = {f.pkt : f \in OnAir(v) \cup {h}} \cup {f.pkt : f \in Starts(v) \ {e}}
    BY <1>5 DEF Taken
  <2>2. Taken(v) = {f.pkt : f \in OnAir(v)} \cup {f.pkt : f \in Starts(v)}
    BY DEF Taken
  <2> QED
    BY <1>2, <2>1, <2>2
<1>11. TakenInv(v)'
  <2>1. \A p \in Taken(v)' : \A x \in ToSet(p.allSlots) :
          \/ \E f \in Starts(v)' : f.at = x /\ f.pkt = p
          \/ [pkt |-> p, slot |-> x] \in OnAir(v)'
    BY <1>1, <1>5, <1>10 DEF SendInv, TakenInv, h
  <2> QED
    BY <1>1, <1>10, <2>1 DEF SendInv, TakenInv
<1>12. Sends(v, slot)' /\ slot' = slot
  BY <1>2, <1>5, SendsFacts
<1>13. ASSUME NEW x \in Ends(v), x.at = slot
       PROVE  SendsInARow(v, slot)'
  <2>1. PICK g \in OnAir(v) : x.at = g.slot + 1
    BY <1>1 DEF SendInv, AirInv
  <2>2. Before(events, e, x)
    BY <1>13, Kinds
  <2>3. e.pkt = g.pkt /\ g.slot = slot - 1
    BY <1>1, <1>6, <1>13, <2>1, <2>2 DEF FlagInv
  <2> QED
    BY <1>2, <1>5, <2>3, SendsFacts
<1>14. ASSUME \A x \in Ends(v) : x.at # slot
       PROVE  ~SendsInARow(v, slot)'
  <2> SUFFICES ASSUME NEW f \in OnAir(v)', NEW g \in OnAir(v)',
                      f.pkt = g.pkt, f.slot = slot, g.slot = slot - 1
               PROVE  FALSE
    BY SendsFacts
  <2>1. f = h /\ g \in OnAir(v) /\ g.slot + 1 = slot
    BY <1>1, <1>2, <1>5, <1>6
  <2> QED
    BY <1>1, <1>2, <1>14, <2>1 DEF FlagInv
<1>15. ASSUME NEW x \in Ends(v)', NEW f \in Starts(v)', NEW g \in OnAir(v)',
              g.slot + 1 = x.at, f.at = x.at
       PROVE  Before(events', f, x) <=> f.pkt = g.pkt
  <2>1. slot < f.at /\ f \in ToSet(events) \ {e}
    BY <1>5, <1>6, Kinds
  <2>2. x = n
    <3>1. f.at \in Nat
      BY <1>1, <2>1, EventTypes
    <3> QED
      BY <1>1, <1>5, <1>15, <2>1, <3>1
  <2>3. g = h
    BY <1>1, <1>2, <1>5, <1>6, <1>15, <2>2
  <2>4. Before(events', f, x)
    BY <2>1, <2>2 DEF Replaced, n
  <2> QED
    BY <1>2, <1>5, <1>6, <2>3, <2>4
<1>16. FlagInv(v)'
  <2>1. \A g \in OnAir(v)' : g.slot = slot => \E x \in Ends(v)' : x.at = slot + 1
    BY <1>2, <1>5
  <2>2. \A f \in Starts(v)' : f.at # slot
    BY <1>1, <1>5, <1>6
  <2>3. (\E x \in Ends(v)' : x.at = slot) => (Sends(v, slot)' => SendsInARow(v, slot)')
    BY <1>1, <1>2, <1>5, <1>13
  <2>4. (\A x \in Ends(v)' : x.at # slot) => ~SendsInARow(v, slot)'
    BY <1>5, <1>14
  <2> QED
    BY <1>3, <1>12, <1>15, <2>1, <2>2, <2>3, <2>4 DEF FlagInv
<1> QED
  BY <1>7, <1>8, <1>9, <1>11, <1>16 DEF SendInv

\* EndSend clears the flag.
LEMMA EndSendKeeps ==
  ASSUME NodesInv, NEW v \in Nodes, NEW e \in Ends(v), e.at = slot,
         \A f \in ToSet(events) : f.at = slot => f = e \/ Before(events, e, f),
         Replaced(e, {}),
         isTx' = [isTx EXCEPT ![v] = FALSE],
         UNCHANGED <<slot, phase, strategy, queue, isSleeping, seqNo, air>>
  PROVE  SendInv(v)' /\ FlagInv(v)'
<1>1. MacTypes /\ SendInv(v) /\ FlagInv(v) /\ slot \in Nat
  BY DEF NodesInv, MacInv, MacTypes
<1>2. isTx'[v] = FALSE
  BY <1>1 DEF MacTypes
<1>3. /\ Wakes(v)' = Wakes(v) /\ Starts(v)' = Starts(v)
      /\ Ends(v)' = Ends(v) \ {e} /\ OnAir(v)' = OnAir(v)
  <2>1. ToSet(events') = ToSet(events) \ {e}
    BY DEF Replaced
  <2>2. e.op = "EndSend"
    BY Kinds
  <2> QED
    BY <2>1, <2>2 DEF Wakes, Starts, Ends, Pending, OnAir
<1>4. Taken(v)' = Taken(v)
  BY <1>3 DEF Taken
<1>5. SendInv(v)'
  BY <1>1, <1>3, <1>4 DEF SendInv, WakeInv, StartInv, AirInv, TakenInv
<1>6. (Sends(v, slot)' <=> Sends(v, slot)) /\ (SendsInARow(v, slot)' <=> SendsInARow(v, slot))
  BY DEF Sends, SendsInARow
<1>7. ASSUME NEW f \in Starts(v), NEW g \in OnAir(v), f.at = slot, g.slot + 1 = slot
      PROVE  f.pkt # g.pkt
  <2>1. f # e /\ Before(events, e, f)
    BY <1>7, Kinds
  <2>2. ~Before(events, f, e)
    BY <1>1, <2>1, EventTypes
  <2> QED
    BY <1>1, <1>7, <2>2 DEF FlagInv
<1>8. \A x \in Ends(v) \ {e}, f \in Starts(v) :
        Before(events', f, x) <=> Before(events, f, x)
  <2>1. \A x \in Ends(v) \ {e} : x \in ToSet(events) \ {e}
    BY Kinds
  <2>2. \A f \in Starts(v) : f \in ToSet(events) \ {e}
    BY Kinds
  <2> QED
    BY <2>1, <2>2 DEF Replaced
<1>9. FlagInv(v)'
  <2>1. \A g \in OnAir(v)' : g.slot = slot => \E x \in Ends(v)' : x.at = slot + 1
    BY <1>1, <1>3 DEF FlagInv
  <2>2. \A x \in Ends(v)', f \in Starts(v)', g \in OnAir(v)' :
          g.slot + 1 = x.at /\ f.at = x.at =>
            (Before(events', f, x) <=> f.pkt = g.pkt)
    BY <1>1, <1>3, <1>8 DEF FlagInv
  <2>3. Sends(v, slot) => SendsInARow(v, slot)
    BY <1>1 DEF FlagInv
  <2> QED
    BY <1>2, <1>3, <1>6, <1>7, <2>1, <2>2, <2>3 DEF FlagInv
<1> QED
  BY <1>5, <1>9

\* A packet handed down at most wakes the node.
LEMMA TrafficKeeps ==
  ASSUME NodesInv, NEW v \in Nodes, Traffic(v)
  PROVE  SendInv(v)' /\ FlagInv(v)'
<1>1. MacTypes /\ SendInv(v) /\ FlagInv(v) /\ MacInv
  BY DEF NodesInv, MacInv
<1>2. UNCHANGED <<slot, phase, strategy, isTx, seqNo, air>>
  BY DEF Traffic, Enqueue, clockVars
<1>3. PICK t \in Tids :
        \/ UNCHANGED <<queue, isSleeping, events>>
        \/ /\ queue' = [queue EXCEPT ![v] = Append(@, t)]
           /\ isSleeping' = [isSleeping EXCEPT ![v] = FALSE]
           /\ \/ ~isSleeping[v] /\ UNCHANGED events
              \/ /\ isSleeping[v]
                 /\ \E x \in Nat :
                      /\ slot <= x
                      /\ Event("Dequeue", v, x, NoPacket) \notin ToSet(events)
                      /\ Replaced(Event("Dequeue", v, x, NoPacket),
                                  {Event("Dequeue", v, x, NoPacket)})
  BY <1>1, TrafficFacts
<1>4. (Sends(v, slot)' <=> Sends(v, slot)) /\ (SendsInARow(v, slot)' <=> SendsInARow(v, slot))
  BY <1>2 DEF Sends, SendsInARow
<1>5. OnAir(v)' = OnAir(v)
  BY <1>2 DEF OnAir
<1>6. CASE /\ UNCHANGED events
           /\ \/ UNCHANGED <<queue, isSleeping>>
              \/ ~isSleeping[v] /\ isSleeping' = [isSleeping EXCEPT ![v] = FALSE]
  <2>1. /\ Wakes(v)' = Wakes(v) /\ Starts(v)' = Starts(v) /\ Ends(v)' = Ends(v)
        /\ Taken(v)' = Taken(v)
    BY <1>5, <1>6 DEF Wakes, Starts, Ends, Pending, Taken
  <2>2. isSleeping'[v] = isSleeping[v]
    BY <1>1, <1>6 DEF MacTypes
  <2>3. WakeInv(v)'
    BY <1>1, <1>6, <2>1, <2>2 DEF SendInv, WakeInv
  <2>4. StartInv(v)' /\ AirInv(v)' /\ TakenInv(v)'
    BY <1>1, <1>2, <1>5, <2>1, <2>2 DEF SendInv, StartInv, AirInv, TakenInv
  <2>5. FlagInv(v)'
    BY <1>1, <1>2, <1>4, <1>5, <1>6, <2>1 DEF FlagInv
  <2> QED
    BY <2>3, <2>4, <2>5 DEF SendInv
<1>7. ASSUME isSleeping[v], isSleeping' = [isSleeping EXCEPT ![v] = FALSE],
             NEW x \in Nat, slot <= x,
             Event("Dequeue", v, x, NoPacket) \notin ToSet(events),
             Replaced(Event("Dequeue", v, x, NoPacket), {Event("Dequeue", v, x, NoPacket)})
      PROVE  SendInv(v)' /\ FlagInv(v)'
  <2> DEFINE d == Event("Dequeue", v, x, NoPacket)
  <2>1. d.at = x /\ d.op = "Dequeue" /\ d.node = v
    BY EventFields
  <2>2. ToSet(events') = ToSet(events) \cup {d} /\ d \notin ToSet(events)
    BY <1>7 DEF Replaced
  <2> HIDE DEF d
  <2>3. /\ Wakes(v)' = Wakes(v) \cup {d} /\ Starts(v)' = Starts(v) /\ Ends(v)' = Ends(v)
        /\ Taken(v)' = Taken(v)
    BY <1>5, <2>1, <2>2 DEF Wakes, Starts, Ends, Pending, Taken
  <2>4. ~isSleeping'[v] /\ Wakes(v) = {} /\ Starts(v) = {}
    BY <1>1, <1>7 DEF MacTypes, SendInv, WakeInv
  <2>5. WakeInv(v)' /\ StartInv(v)' /\ TakenInv(v)'
    BY <1>1, <1>2, <1>5, <2>3, <2>4 DEF SendInv, WakeInv, StartInv, TakenInv
  <2>6. \A f \in OnAir(v) : f.slot < slot /\ f.slot < x
    <3>1. \A f \in OnAir(v) : f.slot < slot /\ f.slot \in Nat /\ slot \in Nat
      BY <1>1, <1>7, AirTypes DEF SendInv, AirInv, OnAir, MacTypes
    <3> QED
      BY <1>7, <3>1
  <2>7. AirInv(v)'
    BY <1>1, <1>2, <1>5, <2>1, <2>3, <2>4, <2>6 DEF SendInv, AirInv
  <2>8. \A e \in Ends(v), f \in Starts(v) :
          Before(events', f, e) <=> Before(events, f, e)
    BY <2>4
  <2>9. FlagInv(v)'
    BY <1>1, <1>2, <1>4, <1>5, <2>3, <2>8 DEF FlagInv
  <2> QED
    BY <2>5, <2>7, <2>9 DEF SendInv
<1> QED
  BY <1>3, <1>6, <1>7

\* Nothing is due any more when the events of a boundary are done.
LEMMA NoneDue ==
  ASSUME MacTypes, NextEvent = 0
  PROVE  \A e \in ToSet(events) : e.at # slot
<1> DEFINE I == {i \in 1..Len(events) : events[i].at = slot}
<1>1. I = {}
  <2> SUFFICES ASSUME I # {} PROVE FALSE
    OBVIOUS
  <2>1. NextEvent = Min(I)
    BY DEF NextEvent, SelectInSeq
  <2>2. I \in SUBSET Nat /\ I \in SUBSET (1..Len(events))
    OBVIOUS
  <2> HIDE DEF I
  <2>3. Min(I) \in I
    BY <2>2, MinIsLeast
  <2> QED
    BY <2>1, <2>2, <2>3
<1>2. \A e \in ToSet(events) : \E i \in 1..Len(events) : events[i] = e
  BY ToSetFacts DEF MacTypes
<1> QED
  BY <1>1, <1>2

\* The clock.
LEMMA TickKeeps ==
  ASSUME NodesInv, Tick, NEW v \in Nodes
  PROVE  SendInv(v)' /\ FlagInv(v)' /\ InTime'
<1>1. MacTypes /\ SendInv(v) /\ FlagInv(v) /\ InTime /\ slot \in Nat
  BY DEF NodesInv, MacInv, MacTypes
<1>2. UNCHANGED <<strategy, events, queue, isSleeping, isTx, seqNo, air>>
  BY DEF Tick, macVars
<1>3. /\ Wakes(v)' = Wakes(v) /\ Starts(v)' = Starts(v) /\ Ends(v)' = Ends(v)
      /\ Taken(v)' = Taken(v) /\ OnAir(v)' = OnAir(v)
  BY <1>2 DEF Wakes, Starts, Ends, Pending, Taken, OnAir
<1>4. CASE UNCHANGED slot
  <2>1. SendInv(v)'
    BY <1>1, <1>2, <1>3, <1>4 DEF SendInv, WakeInv, StartInv, AirInv, TakenInv
  <2>2. (Sends(v, slot)' <=> Sends(v, slot)) /\ (SendsInARow(v, slot)' <=> SendsInARow(v, slot))
    BY <1>2, <1>4 DEF Sends, SendsInARow
  <2>3. FlagInv(v)'
    BY <1>1, <1>2, <1>3, <1>4, <2>2 DEF FlagInv
  <2>4. \A e \in ToSet(events) : slot <= e.at /\ (phase' # "boundary" => slot < e.at)
    <3> SUFFICES ASSUME NEW e \in ToSet(events)
                 PROVE  slot <= e.at /\ (phase' # "boundary" => slot < e.at)
      OBVIOUS
    <3>1. slot <= e.at /\ e.at \in Nat
      BY <1>1, EventTypes DEF InTime
    <3>2. CASE phase = "boundary"
      <4>1. NextEvent = 0
        BY <1>4, <3>2 DEF Tick
      <4>2. e.at # slot
        BY <1>1, <4>1, NoneDue
      <4> QED
        BY <1>1, <3>1, <4>2
    <3>3. CASE phase # "boundary"
      BY <1>1, <3>3 DEF InTime
    <3> QED
      BY <3>2, <3>3
  <2>5. InTime'
    BY <1>2, <1>4, <2>4 DEF InTime
  <2> QED
    BY <2>1, <2>3, <2>5
<1>5. CASE phase = "solve" /\ phase' = "boundary" /\ slot' = slot + 1
  <2>1. \A e \in ToSet(events) : slot < e.at /\ e.at \in Nat
    BY <1>1, <1>5, EventTypes DEF InTime
  <2>2. InTime'
    BY <1>1, <1>2, <1>5, <2>1 DEF InTime
  <2>3. \A f \in OnAir(v) : f.slot \in Nat /\ f.slot <= slot
    BY <1>1, AirTypes DEF OnAir, SendInv, AirInv
  <2>4. AirInv(v)'
    <3>1. \A f \in OnAir(v) : f.slot <= slot' /\ f.slot < slot'
      BY <1>1, <1>5, <2>3
    <3> QED
      BY <1>1, <1>2, <1>3, <3>1 DEF SendInv, AirInv
  <2>5. SendInv(v)'
    BY <1>1, <1>2, <1>3, <2>4 DEF SendInv, WakeInv, StartInv, TakenInv
  <2>6. ~Sends(v, slot)'
    <3>1. ~(\E f \in OnAir(v) : f.slot = slot + 1)
      BY <1>1, <2>3
    <3> QED
      BY <1>3, <1>5, <3>1, SendsFacts DEF Sends, OnAir
  <2>7. \A e \in Ends(v) : e.at # slot
    BY <1>1, <2>1, Kinds
  <2>8. ASSUME \A e \in Ends(v) : e.at # slot + 1
        PROVE  /\ isTx[v] = FALSE
               /\ \A g \in OnAir(v) : g.slot # slot
    <3>1. \A g \in OnAir(v) : g.slot # slot
      BY <1>1, <2>8 DEF FlagInv
    <3>2. ~Sends(v, slot)
      BY <3>1, SendsFacts
    <3>3. isTx[v] \in BOOLEAN
      BY <1>1 DEF MacTypes
    <3> QED
      BY <1>1, <2>7, <3>1, <3>2, <3>3 DEF FlagInv
  <2>9. FlagInv(v)'
    <3>1. \A g \in OnAir(v)' : g.slot # slot'
      BY <1>1, <1>3, <1>5, <2>3
    <3>2. \A e \in Ends(v)', f \in Starts(v)', g \in OnAir(v)' :
            g.slot + 1 = e.at /\ f.at = e.at =>
              (Before(events', f, e) <=> f.pkt = g.pkt)
      BY <1>1, <1>2, <1>3 DEF FlagInv
    <3>3. ASSUME \A e \in Ends(v)' : e.at # slot'
          PROVE  /\ ~isTx'[v]
                 /\ \A g \in OnAir(v)' : g.slot + 1 # slot'
      <4>1. isTx[v] = FALSE /\ \A g \in OnAir(v) : g.slot # slot
        BY <1>3, <1>5, <2>8, <3>3
      <4> QED
        BY <1>1, <1>2, <1>3, <1>5, <2>3, <4>1
    <3> QED
      BY <2>6, <3>1, <3>2, <3>3 DEF FlagInv
  <2> QED
    BY <2>2, <2>5, <2>9
<1> QED
  BY <1>4, <1>5 DEF Tick

NodeTypes ==
  /\ queue \in [Nodes -> Seq(Tids)] /\ seqNo \in [Nodes -> Nat]
  /\ isSleeping \in [Nodes -> BOOLEAN] /\ isTx \in [Nodes -> BOOLEAN]
  /\ air \subseteq Fragments

OthersKept(v) ==
  \A u \in Nodes \ {v} :
    /\ OnAir(u)' = OnAir(u) /\ queue'[u] = queue[u] /\ seqNo'[u] = seqNo[u]
    /\ isSleeping'[u] = isSleeping[u] /\ isTx'[u] = isTx[u]

\* An event of v keeps the invariant if it does for v itself.
LEMMA EventStep ==
  ASSUME NodesInv, NEW v \in Nodes, NEW e, NEW N, Replaced(e, N),
         e \in ToSet(events) => e.node = v,
         \A f \in N : /\ f.node = v /\ slot <= f.at
                      /\ phase # "boundary" => slot < f.at,
         UNCHANGED <<slot, phase, strategy, inRange>>,
         SendInv(v)', FlagInv(v)', OthersKept(v), NodeTypes'
  PROVE  NodesInv'
<1>1. MacTypes /\ InTime
  BY DEF NodesInv, MacInv
<1>2. MacTypes'
  BY <1>1 DEF MacTypes, NodeTypes, Replaced
<1>3. InTime'
  BY <1>1 DEF InTime, Replaced
<1>4. ASSUME NEW u \in Nodes, u # v
      PROVE  SendInv(u)' /\ FlagInv(u)'
  <2>1. /\ Wakes(u)' = Wakes(u) /\ Starts(u)' = Starts(u) /\ Ends(u)' = Ends(u)
        /\ \A f \in Ends(u), g \in Starts(u) :
             Before(events', g, f) <=> Before(events, g, f)
    <3>1. \A f \in N : f.node = v
      OBVIOUS
    <3> QED
      BY <1>1, <1>4, <3>1, OthersEvents
  <2>2. NodeKept(u)
    BY <1>4, <2>1 DEF NodeKept, OthersKept
  <2> QED
    BY <2>2, NodeKeptKeeps DEF NodesInv, MacInv
<1> QED
  BY <1>2, <1>3, <1>4 DEF NodesInv, MacInv

LEMMA DequeueStep ==
  ASSUME NodesInv, NEW v \in Nodes, Dequeue(v)
  PROVE  NodesInv'
<1>1. MacInv /\ MacTypes /\ slot \in Nat
  BY DEF NodesInv, MacInv, MacTypes
<1>2. UNCHANGED <<slot, phase, strategy, inRange, isTx, air>>
  BY DEF Dequeue, clockVars
<1>3. \A u : OnAir(u)' = OnAir(u)
  BY <1>2 DEF OnAir
<1>4. PICK d \in Wakes(v) :
        /\ d.at = slot /\ phase = "boundary"
        /\ \/ /\ queue[v] = <<>> /\ Replaced(d, {})
              /\ isSleeping' = [isSleeping EXCEPT ![v] = TRUE]
              /\ UNCHANGED <<queue, seqNo>>
           \/ /\ queue[v] # <<>> /\ UNCHANGED isSleeping
              /\ queue' = [queue EXCEPT ![v] = Tail(@)]
              /\ seqNo' = [seqNo EXCEPT ![v] = @ + 1]
              /\ \E p, y : /\ Draws(v, p, y)
                           /\ Replaced(d, Copies(v, p) \cup
                                            {Event("Dequeue", v, y, NoPacket)})
  BY <1>1, DequeueFacts
<1>5. d \in ToSet(events) /\ d.node = v
  BY Kinds
<1>6. CASE /\ queue[v] = <<>> /\ Replaced(d, {})
           /\ isSleeping' = [isSleeping EXCEPT ![v] = TRUE]
           /\ UNCHANGED <<queue, seqNo>>
  <2>1. SendInv(v)' /\ FlagInv(v)'
    BY <1>2, <1>4, <1>6, DequeueSleepsKeeps
  <2>2. NodeTypes' /\ OthersKept(v)
    BY <1>1, <1>2, <1>3, <1>6 DEF MacTypes, NodeTypes, OthersKept
  <2> QED
    BY <1>2, <1>5, <1>6, <2>1, <2>2, EventStep
<1>7. CASE /\ queue[v] # <<>> /\ UNCHANGED isSleeping
           /\ queue' = [queue EXCEPT ![v] = Tail(@)]
           /\ seqNo' = [seqNo EXCEPT ![v] = @ + 1]
           /\ \E p, y : /\ Draws(v, p, y)
                        /\ Replaced(d, Copies(v, p) \cup
                                         {Event("Dequeue", v, y, NoPacket)})
  <2>1. PICK p, y : /\ Draws(v, p, y)
                    /\ Replaced(d, Copies(v, p) \cup {Event("Dequeue", v, y, NoPacket)})
    BY <1>7
  <2>2. SendInv(v)' /\ FlagInv(v)'
    BY <1>2, <1>4, <1>7, <2>1, DequeueBooksKeeps
  <2>3. NodeTypes' /\ OthersKept(v)
    <3>1. Tail(queue[v]) \in Seq(Tids) /\ seqNo[v] + 1 \in Nat
      BY <1>1, <1>7 DEF MacTypes
    <3> QED
      BY <1>1, <1>2, <1>3, <1>7, <3>1 DEF MacTypes, NodeTypes, OthersKept
  <2> DEFINE N == Copies(v, p) \cup {Event("Dequeue", v, y, NoPacket)}
  <2>4. \A f \in N : f.node = v /\ slot <= f.at
    <3>1. \A f \in Copies(v, p) : f.node = v /\ f.at \in ToSet(p.allSlots)
      BY EventFields DEF Copies
    <3>2. slot <= y
      <4>1. strategy[v].n \in Nat \ {0}
        BY <1>1, NetAssumption DEF MacTypes
      <4>2. p.allSlots[1] \in ToSet(p.allSlots) /\ p.allSlots[1] \in Nat
        BY <2>1, <4>1, ToSetFacts DEF Draws
      <4>3. slot <= p.allSlots[1] /\ p.allSlots[1] < y /\ y \in Nat
        BY <2>1, <4>2 DEF Draws
      <4> QED
        BY <1>1, <4>2, <4>3
    <3>3. \A x \in ToSet(p.allSlots) : slot <= x
      BY <2>1 DEF Draws
    <3> QED
      BY <3>1, <3>2, <3>3, EventFields
  <2>5. Replaced(d, N)
    BY <2>1
  <2> HIDE DEF N
  <2> QED
    BY <1>2, <1>4, <1>5, <2>2, <2>3, <2>4, <2>5, EventStep
<1> QED
  BY <1>4, <1>6, <1>7

LEMMA StartSendStep ==
  ASSUME NodesInv, NEW v \in Nodes, StartSend(v)
  PROVE  NodesInv'
<1>1. MacInv /\ MacTypes /\ SendInv(v) /\ slot \in Nat
  BY DEF NodesInv, MacInv, MacTypes
<1>2. UNCHANGED <<slot, phase, strategy, inRange, queue, isSleeping, seqNo>>
  BY DEF StartSend, clockVars
<1>3. PICK e \in Starts(v) :
        /\ e.at = slot /\ phase = "boundary"
        /\ \A f \in ToSet(events) : f.at = slot => f = e \/ Before(events, e, f)
        /\ Replaced(e, {EndEvent(v)})
        /\ isTx' = [isTx EXCEPT ![v] = TRUE]
        /\ air' = air \cup {[pkt |-> e.pkt, slot |-> slot]}
        /\ \A f \in Starts(v) : f # e => slot < f.at
        /\ \A f \in OnAir(v) : f.slot < slot
        /\ \A f \in Ends(v) : f.at <= slot
  BY <1>1, StartSendFacts
<1>4. SendInv(v)' /\ FlagInv(v)'
  BY <1>2, <1>3, StartSendKeeps
<1>5. e.pkt \in Packets /\ e.pkt.src = v /\ e.node = v
  BY <1>1, Kinds DEF SendInv, StartInv
<1>6. /\ air' \subseteq Fragments
      /\ \A u \in Nodes \ {v} : OnAir(u)' = OnAir(u)
  BY <1>1, <1>3, <1>5 DEF MacTypes, Fragments, OnAir
<1>7. NodeTypes' /\ OthersKept(v)
  BY <1>1, <1>2, <1>3, <1>6 DEF MacTypes, NodeTypes, OthersKept
<1>8. \A f \in {EndEvent(v)} : f.node = v /\ slot <= f.at
  BY <1>1, EventFields DEF EndEvent
<1> QED
  BY <1>2, <1>3, <1>4, <1>5, <1>7, <1>8, EventStep

LEMMA EndSendStep ==
  ASSUME NodesInv, NEW v \in Nodes, EndSend(v)
  PROVE  NodesInv'
<1>1. MacInv /\ MacTypes
  BY DEF NodesInv, MacInv
<1>2. UNCHANGED <<slot, phase, strategy, inRange, queue, isSleeping, seqNo, air>>
  BY DEF EndSend, clockVars
<1>3. PICK e \in Ends(v) :
        /\ e.at = slot /\ phase = "boundary"
        /\ \A f \in ToSet(events) : f.at = slot => f = e \/ Before(events, e, f)
        /\ Replaced(e, {})
        /\ isTx' = [isTx EXCEPT ![v] = FALSE]
  BY <1>1, EndSendFacts
<1>4. SendInv(v)' /\ FlagInv(v)'
  BY <1>2, <1>3, EndSendKeeps
<1>5. \A u : OnAir(u)' = OnAir(u)
  BY <1>2 DEF OnAir
<1>6. NodeTypes' /\ OthersKept(v)
  BY <1>1, <1>2, <1>3, <1>5 DEF MacTypes, NodeTypes, OthersKept
<1>7. e.node = v
  BY Kinds
<1> QED
  BY <1>2, <1>3, <1>4, <1>6, <1>7, EventStep

LEMMA TrafficStep ==
  ASSUME NodesInv, NEW v \in Nodes, Traffic(v)
  PROVE  NodesInv'
<1>1. MacInv /\ MacTypes /\ InTime
  BY DEF NodesInv, MacInv
<1>2. UNCHANGED <<slot, phase, strategy, inRange, isTx, seqNo, air>>
  BY DEF Traffic, Enqueue, clockVars
<1>3. SendInv(v)' /\ FlagInv(v)'
  BY TrafficKeeps
<1>4. \A u : OnAir(u)' = OnAir(u)
  BY <1>2 DEF OnAir
<1>5. PICK t \in Tids :
        \/ UNCHANGED <<queue, isSleeping, events>>
        \/ /\ queue' = [queue EXCEPT ![v] = Append(@, t)]
           /\ isSleeping' = [isSleeping EXCEPT ![v] = FALSE]
           /\ \/ UNCHANGED events
              \/ \E x \in Nat :
                   /\ slot <= x /\ (phase # "boundary" => slot < x)
                   /\ Event("Dequeue", v, x, NoPacket) \notin ToSet(events)
                   /\ Replaced(Event("Dequeue", v, x, NoPacket),
                               {Event("Dequeue", v, x, NoPacket)})
  BY <1>1, TrafficFacts
<1>6. /\ queue' \in [Nodes -> Seq(Tids)] /\ isSleeping' \in [Nodes -> BOOLEAN]
      /\ \A u \in Nodes \ {v} : queue'[u] = queue[u] /\ isSleeping'[u] = isSleeping[u]
  <2>1. Append(queue[v], t) \in Seq(Tids)
    BY <1>1 DEF MacTypes
  <2> QED
    BY <1>1, <1>5, <2>1 DEF MacTypes
<1>7. CASE UNCHANGED events
  <2>1. MacTypes' /\ InTime'
    BY <1>1, <1>2, <1>6, <1>7 DEF MacTypes, InTime
  <2>2. ASSUME NEW u \in Nodes, u # v
        PROVE  SendInv(u)' /\ FlagInv(u)'
    <3>1. NodeKept(u)
      BY <1>2, <1>4, <1>6, <1>7, <2>2 DEF NodeKept, Wakes, Starts, Ends, Pending
    <3> QED
      BY <3>1, NodeKeptKeeps DEF NodesInv, MacInv
  <2> QED
    BY <1>3, <2>1, <2>2 DEF NodesInv, MacInv
<1>8. ASSUME NEW x \in Nat, slot <= x, phase # "boundary" => slot < x,
             Event("Dequeue", v, x, NoPacket) \notin ToSet(events),
             Replaced(Event("Dequeue", v, x, NoPacket), {Event("Dequeue", v, x, NoPacket)})
      PROVE  NodesInv'
  <2> DEFINE d == Event("Dequeue", v, x, NoPacket)
  <2>1. d \notin ToSet(events) /\ Replaced(d, {d})
    BY <1>8
  <2>2. \A f \in {d} : f.node = v /\ slot <= f.at /\ (phase # "boundary" => slot < f.at)
    BY <1>8, EventFields
  <2> HIDE DEF d
  <2>3. NodeTypes' /\ OthersKept(v)
    BY <1>1, <1>2, <1>4, <1>6 DEF MacTypes, NodeTypes, OthersKept
  <2> QED
    BY <1>2, <1>3, <2>1, <2>2, <2>3, EventStep
<1> QED
  BY <1>5, <1>7, <1>8

LEMMA TickStep ==
  ASSUME NodesInv, Tick
  PROVE  NodesInv'
<1>1. MacTypes
  BY DEF NodesInv, MacInv
<1>2. UNCHANGED <<strategy, inRange, events, queue, isSleeping, isTx, seqNo, air>>
  BY DEF Tick, macVars
<1>3. slot' \in Nat /\ phase' \in {"boundary", "flight", "solve"}
  BY <1>1 DEF Tick, MacTypes
<1>4. MacTypes'
  BY <1>1, <1>2, <1>3 DEF MacTypes
<1>5. InTime'
  <2>1. CASE Nodes = {}
    <3>1. ToSet(events) = {}
      BY <1>1, <2>1, EventTypes
    <3> QED
      BY <1>2, <3>1 DEF InTime
  <2>2. CASE Nodes # {}
    BY <2>2, TickKeeps
  <2> QED
    BY <2>1, <2>2
<1> QED
  BY <1>4, <1>5, TickKeeps DEF NodesInv, MacInv

\* What the receiving sides do, and stuttering, leaves the senders alone.
LEMMA OtherStep ==
  ASSUME NodesInv, UNCHANGED <<slot, phase, strategy, inRange, macVars, air>>
  PROVE  NodesInv'
<1>1. MacTypes' /\ InTime'
  BY DEF NodesInv, MacInv, MacTypes, InTime, macVars
<1>2. ASSUME NEW u \in Nodes
      PROVE  SendInv(u)' /\ FlagInv(u)'
  <2>1. NodeKept(u)
    BY DEF NodeKept, Wakes, Starts, Ends, Pending, OnAir, macVars
  <2> QED
    BY <2>1, NodeKeptKeeps DEF NodesInv, MacInv
<1> QED
  BY <1>1, <1>2 DEF NodesInv, MacInv

LEMMA NodesInvStep ==
  ASSUME NodesInv, [Next]_vars
  PROVE  NodesInv'
<1>1. CASE UNCHANGED vars
  BY <1>1, OtherStep DEF vars, clockVars
<1>2. ASSUME NEW v \in Talkers, Traffic(v) PROVE NodesInv'
  BY <1>2, TrafficStep, NetAssumption
<1>3. ASSUME NEW v \in Nodes, Dequeue(v) PROVE NodesInv'
  BY <1>3, DequeueStep
<1>4. ASSUME NEW v \in Nodes, StartSend(v) PROVE NodesInv'
  BY <1>4, StartSendStep
<1>5. ASSUME NEW v \in Nodes, EndSend(v) PROVE NodesInv'
  BY <1>5, EndSendStep
<1>6. ASSUME NEW r \in Nodes, StartSolve(r) PROVE NodesInv'
  BY <1>6, OtherStep DEF StartSolve, clockVars
<1>7. ASSUME NEW r \in Nodes, SolveSlot(r) PROVE NodesInv'
  BY <1>7, OtherStep DEF SolveSlot, clockVars
<1>8. ASSUME NEW m \in inFlight, Receive(m) PROVE NodesInv'
  BY <1>8, OtherStep DEF Receive, clockVars
<1>9. CASE Tick
  BY <1>9, TickStep
<1>10. ASSUME NEW r \in Nodes, NEW k \in packetBuffer[r], DeletePacketState(r, k)
       PROVE  NodesInv'
  BY <1>10, OtherStep DEF DeletePacketState, clockVars
<1>11. ASSUME NEW r \in Nodes, DeleteSlotState(r) PROVE NodesInv'
  BY <1>11, OtherStep DEF DeleteSlotState, clockVars
<1> QED
  BY <1>1, <1>2, <1>3, <1>4, <1>5, <1>6, <1>7, <1>8, <1>9, <1>10, <1>11 DEF Next

LEMMA NodesInvInit == Init => NodesInv
<1> SUFFICES ASSUME Init PROVE NodesInv
  OBVIOUS
<1>1. events = <<>> /\ ToSet(events) = {} /\ air = {}
  BY DEF Init, ToSet
<1>2. MacTypes
  BY <1>1 DEF Init, SetStrategy, MacTypes, Distinct
<1>3. InTime
  BY <1>1 DEF InTime
<1>4. ASSUME NEW v \in Nodes
      PROVE  SendInv(v) /\ FlagInv(v)
  <2>1. Wakes(v) = {} /\ Starts(v) = {} /\ Ends(v) = {} /\ OnAir(v) = {} /\ Taken(v) = {}
    BY <1>1 DEF Wakes, Starts, Ends, Pending, OnAir, Taken
  <2>2. isSleeping[v] = TRUE /\ queue[v] = <<>> /\ isTx[v] = FALSE
    BY DEF Init
  <2>3. ~Sends(v, slot)
    BY <2>1, SendsFacts
  <2>4. SendInv(v)
    BY <2>1, <2>2 DEF SendInv, WakeInv, StartInv, AirInv, TakenInv
  <2> QED
    BY <2>1, <2>2, <2>3, <2>4 DEF FlagInv
<1> QED
  BY <1>2, <1>3, <1>4 DEF NodesInv, MacInv

-----------------------------------------------------------------------------
(* Who hears what *)

LEMMA HearKept ==
  ASSUME HearInv, UNCHANGED <<slot, phase, inFlight, heard, air>>
  PROVE  HearInv'
<1>1. \A r, x : (Sends(r, x)' <=> Sends(r, x)) /\ (SendsInARow(r, x)' <=> SendsInARow(r, x))
  BY DEF Sends, SendsInARow
<1> QED
  BY <1>1 DEF HearInv

LEMMA HearStartSend ==
  ASSUME NodesInv, HearInv, NEW v \in Nodes, StartSend(v)
  PROVE  HearInv'
<1>1. MacInv /\ MacTypes /\ SendInv(v) /\ slot \in Nat
  BY DEF NodesInv, MacInv, MacTypes
<1>2. PICK e \in Starts(v) :
        /\ phase = "boundary"
        /\ air' = air \cup {[pkt |-> e.pkt, slot |-> slot]}
        /\ inFlight' = inFlight \cup Send(v, [pkt |-> e.pkt, slot |-> slot])
        /\ \A f \in OnAir(v) : f.slot < slot
  BY <1>1, StartSendFacts
<1> DEFINE h == [pkt |-> e.pkt, slot |-> slot]
<1>3. h.pkt.src = v /\ h.slot = slot
  BY <1>1 DEF SendInv, StartInv
<1>4. air' = air \cup {h} /\ inFlight' = inFlight \cup Send(v, h)
  BY <1>2
<1> HIDE DEF h
<1>5. UNCHANGED <<slot, phase, heard>>
  BY DEF StartSend, clockVars, rxVars
<1>6. h \notin air
  BY <1>1, <1>2, <1>3 DEF OnAir
<1>7. \A r, x : x < slot => (Sends(r, x)' <=> Sends(r, x))
  BY <1>1, <1>3, <1>4 DEF Sends
<1>8. ASSUME NEW r, NEW x \in Nat, x < slot
      PROVE  SendsInARow(r, x)' <=> SendsInARow(r, x)
  <2>1. \A g \in air' : g.slot = x \/ g.slot = x - 1 => g \in air
    BY <1>1, <1>3, <1>4, <1>8
  <2> QED
    BY <1>4, <2>1 DEF SendsInARow
<1>9. ASSUME NEW m \in Send(v, h)
      PROVE  /\ m.to \in Nodes /\ m.to # v /\ m.frag = h
             /\ m \in [to : Nodes, frag : air']
  BY <1>4 DEF Send
<1>10. \A f \in air : f.slot \in Nat
  BY <1>1, AirTypes
<1>11. inFlight' \subseteq [to : Nodes, frag : air'] /\ heard' \in [Nodes -> SUBSET air']
  BY <1>4, <1>5, <1>9 DEF HearInv
<1>12. ASSUME NEW m \in inFlight'
       PROVE  /\ m.frag.slot = slot /\ m.to # m.frag.pkt.src
              /\ m.frag \notin heard[m.to]
  <2>1. CASE m \in inFlight
    BY <2>1 DEF HearInv
  <2>2. CASE m \in Send(v, h)
    BY <1>3, <1>6, <1>9, <2>2 DEF HearInv
  <2> QED
    BY <1>4, <2>1, <2>2
<1>13. ASSUME NEW r \in Nodes, NEW f \in air', f.pkt.src # r
       PROVE  \/ [to |-> r, frag |-> f] \in inFlight'
              \/ /\ f.slot < slot
                 /\ f \in heard[r] <=> ~Sends(r, f.slot)' \/ SendsInARow(r, f.slot)'
  <2>1. CASE f = h
    BY <1>3, <1>4, <1>13, <2>1 DEF Send
  <2>2. CASE f \in air
    <3>1. \/ [to |-> r, frag |-> f] \in inFlight
          \/ /\ f.slot < slot
             /\ f \in heard[r] <=> ~Sends(r, f.slot) \/ SendsInARow(r, f.slot)
      BY <1>2, <1>13, <2>2 DEF HearInv
    <3> QED
      BY <1>4, <1>7, <1>8, <1>10, <2>2, <3>1
  <2> QED
    BY <1>4, <2>1, <2>2
<1> QED
  BY <1>2, <1>5, <1>11, <1>12, <1>13 DEF HearInv

LEMMA HearReceive ==
  ASSUME NodesInv, HearInv, NEW m \in inFlight, Receive(m)
  PROVE  HearInv'
<1> DEFINE r == m.to  f == m.frag
<1>1. MacTypes /\ InTime /\ slot \in Nat
  BY DEF NodesInv, MacInv, MacTypes
<1>2. /\ r \in Nodes /\ f \in air /\ m = [to |-> r, frag |-> f] /\ f.slot = slot
      /\ r # f.pkt.src /\ f \notin heard[r]
  BY DEF HearInv
<1>3. FlagInv(r)
  BY <1>2 DEF NodesInv
<1>4. /\ phase = "flight" /\ inFlight' = inFlight \ {m}
      /\ UNCHANGED <<slot, phase, air>>
      /\ \/ ~isTx[r] /\ heard' = [heard EXCEPT ![r] = @ \cup {f}]
         \/ isTx[r] /\ heard' = heard
  BY DEF Receive, clockVars, macVars, rxVars
<1> HIDE DEF r, f
<1>5. isTx[r] <=> Sends(r, slot) /\ ~SendsInARow(r, slot)
  <2>1. \A e \in Ends(r) : slot < e.at /\ e.at \in Nat
    BY <1>1, <1>4, Kinds, EventTypes DEF InTime
  <2>2. \A e \in Ends(r) : e.at # slot
    BY <1>1, <2>1
  <2> QED
    BY <1>3, <2>2 DEF FlagInv
<1>6. \A u, x : (Sends(u, x)' <=> Sends(u, x)) /\ (SendsInARow(u, x)' <=> SendsInARow(u, x))
  BY <1>4 DEF Sends, SendsInARow
<1>7. /\ heard' \in [Nodes -> SUBSET air]
      /\ heard'[r] = IF isTx[r] THEN heard[r] ELSE heard[r] \cup {f}
      /\ \A u \in Nodes : u # r => heard'[u] = heard[u]
  <2>1. CASE isTx[r]
    BY <1>4, <2>1 DEF HearInv
  <2>2. CASE ~isTx[r]
    BY <1>2, <1>4, <2>2 DEF HearInv
  <2> QED
    BY <2>1, <2>2
<1>8. f \in heard'[r] <=> ~Sends(r, f.slot) \/ SendsInARow(r, f.slot)
  BY <1>2, <1>5, <1>7
<1>9. inFlight' \subseteq [to : Nodes, frag : air']
  BY <1>4 DEF HearInv
<1>10. ASSUME NEW n \in inFlight'
       PROVE  n.frag.slot = slot /\ n.to # n.frag.pkt.src /\ n.frag \notin heard'[n.to]
  <2>1. n \in inFlight /\ n # m /\ n = [to |-> n.to, frag |-> n.frag] /\ n.to \in Nodes
    BY <1>4 DEF HearInv
  <2>2. n.to # r \/ n.frag # f
    BY <1>2, <2>1
  <2> QED
    BY <1>7, <2>1, <2>2 DEF HearInv
<1>11. \A u \in Nodes : \A g \in heard'[u] : g.pkt.src # u
  BY <1>2, <1>7 DEF HearInv
<1>12. ASSUME NEW u \in Nodes, NEW g \in air, g.pkt.src # u
       PROVE  \/ [to |-> u, frag |-> g] \in inFlight'
              \/ g \in heard'[u] <=> ~Sends(u, g.slot) \/ SendsInARow(u, g.slot)
  <2>1. CASE u = r /\ g = f
    BY <1>8, <2>1
  <2>2. CASE ~(u = r /\ g = f)
    <3>1. [to |-> u, frag |-> g] # m
      BY <1>2, <2>2
    <3>2. g \in heard'[u] <=> g \in heard[u]
      BY <1>7, <2>2
    <3> QED
      BY <1>4, <1>12, <3>1, <3>2 DEF HearInv
  <2> QED
    BY <2>1, <2>2
<1> QED
  BY <1>4, <1>6, <1>7, <1>9, <1>10, <1>11, <1>12 DEF HearInv

LEMMA HearTick ==
  ASSUME NodesInv, HearInv, Tick
  PROVE  HearInv'
<1>1. UNCHANGED <<inFlight, heard, air>>
  BY DEF Tick, rxVars
<1>2. \A r, x : (Sends(r, x)' <=> Sends(r, x)) /\ (SendsInARow(r, x)' <=> SendsInARow(r, x))
  BY <1>1 DEF Sends, SendsInARow
<1>3. CASE UNCHANGED slot /\ phase' # "boundary"
  BY <1>1, <1>2, <1>3 DEF HearInv, Tick
<1>4. CASE phase = "solve" /\ phase' = "boundary" /\ slot' = slot + 1
  <2>1. inFlight = {}
    BY <1>4 DEF HearInv
  <2>2. \A f \in air : f.slot < slot'
    <3> SUFFICES ASSUME NEW f \in air PROVE f.slot < slot'
      OBVIOUS
    <3>1. f.slot \in Nat /\ slot \in Nat /\ f.pkt.src \in Nodes
      BY AirTypes DEF NodesInv, MacInv, MacTypes
    <3>2. f.slot <= slot
      BY <3>1 DEF NodesInv, MacInv, SendInv, AirInv, OnAir
    <3> QED
      BY <1>4, <3>1, <3>2
  <2> QED
    BY <1>1, <1>2, <1>4, <2>1, <2>2 DEF HearInv
<1> QED
  BY <1>3, <1>4 DEF Tick

LEMMA HearInvStep ==
  ASSUME NodesInv, HearInv, [Next]_vars
  PROVE  HearInv'
<1>1. CASE UNCHANGED vars
  BY <1>1, HearKept DEF vars, clockVars, rxVars
<1>2. ASSUME NEW v \in Talkers, Traffic(v) PROVE HearInv'
  BY <1>2, HearKept DEF Traffic, Enqueue, clockVars, rxVars
<1>3. ASSUME NEW v \in Nodes, Dequeue(v) PROVE HearInv'
  BY <1>3, HearKept DEF Dequeue, clockVars, rxVars
<1>4. ASSUME NEW v \in Nodes, StartSend(v) PROVE HearInv'
  BY <1>4, HearStartSend
<1>5. ASSUME NEW v \in Nodes, EndSend(v) PROVE HearInv'
  BY <1>5, HearKept DEF EndSend, clockVars, rxVars
<1>6. ASSUME NEW r \in Nodes, StartSolve(r) PROVE HearInv'
  BY <1>6, HearKept DEF StartSolve, clockVars
<1>7. ASSUME NEW r \in Nodes, SolveSlot(r) PROVE HearInv'
  BY <1>7, HearKept DEF SolveSlot, clockVars
<1>8. ASSUME NEW m \in inFlight, Receive(m) PROVE HearInv'
  BY <1>8, HearReceive
<1>9. CASE Tick
  BY <1>9, HearTick
<1>10. ASSUME NEW r \in Nodes, NEW k \in packetBuffer[r], DeletePacketState(r, k)
       PROVE  HearInv'
  BY <1>10, HearKept DEF DeletePacketState, clockVars
<1>11. ASSUME NEW r \in Nodes, DeleteSlotState(r) PROVE HearInv'
  BY <1>11, HearKept DEF DeleteSlotState, clockVars
<1> QED
  BY <1>1, <1>2, <1>3, <1>4, <1>5, <1>6, <1>7, <1>8, <1>9, <1>10, <1>11 DEF Next

LEMMA HearInvInit == Init => HearInv
BY DEF Init, HearInv

\* Half duplex end to end, for every number of nodes, strategy and traffic: a
\* fragment of another node is received if and only if the receiver does not
\* send in its slot, or only sends the later of two adjacent copies, of which
\* EndSend of the first has cleared m_isTx.
THEOREM HearsInTheEnd == Spec => []HearsAllButOwnSlots
<1>1. Init => NodesInv /\ HearInv
  BY NodesInvInit, HearInvInit
<1>2. NodesInv /\ HearInv /\ [Next]_vars => NodesInv' /\ HearInv'
  BY NodesInvStep, HearInvStep
<1>3. NodesInv /\ HearInv => HearsAllButOwnSlots
  <2> SUFFICES ASSUME NodesInv, HearInv, NEW r \in Nodes, NEW f \in air,
                      SlotDone(f.slot), f.pkt.src # r
               PROVE  f \in heard[r] <=> ~Sends(r, f.slot) \/ SendsInARow(r, f.slot)
    BY DEF HearsAllButOwnSlots
  <2>1. f.slot < slot /\ slot \in Nat
    BY DEF SlotDone, NodesInv, MacInv, MacTypes
  <2>2. [to |-> r, frag |-> f] \notin inFlight
    BY <2>1 DEF HearInv
  <2> QED
    BY <2>2 DEF HearInv
<1> QED
  BY <1>1, <1>2, <1>3, PTL DEF Spec

-----------------------------------------------------------------------------
(* The buffers of a receiver *)

Keys == Nodes \X Nat \X Nat

Buffers == UNION {[K -> States] : K \in SUBSET Keys}

RxTypes ==
  /\ states \in [Nodes -> Buffers]
  /\ packetBuffer \in [Nodes -> SUBSET Keys]
  /\ slotBuffer \in [Nodes -> SUBSET [slot : Nat, key : Keys]]
  /\ delivered \in [Nodes -> Seq(Keys)]
  /\ SolverInv

LEMMA BufferTypes ==
  /\ \A b \in Buffers : /\ b \in [DOMAIN b -> States] /\ DOMAIN b \subseteq Keys
                        /\ \A k \in DOMAIN b : b[k] \in States
  /\ \A K \in SUBSET Keys : \A b \in [K -> States] : b \in Buffers
BY DEF Buffers

\* A state with one more fragment counted is a state, otherwise the same.
LEMMA CountUp ==
  ASSUME NEW b \in States
  PROVE  LET c == [b EXCEPT !.count = @ + 1] IN
           /\ c \in States /\ c.tid = b.tid /\ c.allSlots = b.allSlots
           /\ c.s = b.s /\ c.born = b.born /\ c.count = b.count + 1
BY DEF States

LEMMA StateFields ==
  /\ \A b \in States : /\ b.tid \in Tids /\ b.allSlots \in Seq(Nat)
                       /\ b.s \in Nat \ {0} /\ b.count \in Nat /\ b.born \in Nat
  /\ \A p \in Packets :
       /\ slot \in Nat => NewState(p) \in States
       /\ StateOf(p, NewState(p)) /\ NewState(p).count = 0 /\ NewState(p).born = slot
       /\ Key(p) \in Keys /\ Key(p)[1] = p.src /\ Key(p)[2] = p.seq
       /\ IsOf(Key(p), p)
BY DEF States, Packets, NewState, StateOf, Key, Keys, IsOf

\* What a node hears was sent by another, and its key names the packet.
LEMMA HeardFacts ==
  ASSUME NodesInv, HearInv, NEW r \in Nodes
  PROVE  \A f \in heard[r] :
           /\ f \in air /\ f.pkt \in Packets /\ f.slot \in Nat
           /\ f.pkt.src \in Nodes \ {r} /\ f.pkt.seq < seqNo[f.pkt.src]
           /\ f.pkt.s \in Nat \ {0}
<1>1. \A f \in heard[r] : f \in air /\ f.pkt.src # r
  BY DEF HearInv
<1>2. \A f \in air : /\ f.pkt \in Packets /\ f.slot \in Nat /\ f.pkt.src \in Nodes
                     /\ f.pkt.s \in Nat \ {0}
  BY AirTypes DEF NodesInv, MacInv
<1>3. \A f \in air : f.pkt.seq < seqNo[f.pkt.src]
  BY <1>2 DEF NodesInv, MacInv, SendInv, TakenInv, Taken, OnAir
<1> QED
  BY <1>1, <1>2, <1>3

LEMMA KeyNamesPacket ==
  ASSUME NodesInv
  PROVE  \A f, g \in air : \A k : IsOf(k, f.pkt) /\ IsOf(k, g.pkt) => f.pkt = g.pkt
<1> SUFFICES ASSUME NEW f \in air, NEW g \in air,
                    f.pkt.src = g.pkt.src, f.pkt.seq = g.pkt.seq
             PROVE  f.pkt = g.pkt
  BY DEF IsOf
<1>1. f.pkt.src \in Nodes
  BY AirTypes DEF NodesInv, MacInv
<1>2. f.pkt \in Taken(f.pkt.src) /\ g.pkt \in Taken(f.pkt.src)
  BY DEF Taken, OnAir
<1> QED
  BY <1>1, <1>2 DEF NodesInv, MacInv, SendInv, TakenInv

\* A state is one of a packet that was heard, and of no other.
LEMMA StateHeard ==
  ASSUME NodesInv, HearInv, NEW r \in Nodes, BufferInv(r), NEW k \in DOMAIN states[r]
  PROVE  \E f \in heard[r] :
           /\ IsOf(k, f.pkt) /\ StateOf(f.pkt, states[r][k])
           /\ states[r][k].born = f.slot /\ states[r][k].count <= f.pkt.s
           /\ \A g \in air : IsOf(k, g.pkt) => g.pkt = f.pkt
<1>1. PICK f \in heard[r] :
        /\ IsOf(k, f.pkt) /\ StateOf(f.pkt, states[r][k])
        /\ states[r][k].born = f.slot /\ states[r][k].count <= f.pkt.s
  BY DEF BufferInv
<1>2. f \in air
  BY HeardFacts
<1>3. \A g \in air : IsOf(k, g.pkt) => g.pkt = f.pkt
  BY <1>1, <1>2, KeyNamesPacket
<1> QED
  BY <1>1, <1>3

\* The receiving side of u does not change.
ReceiverKept(u) ==
  /\ states'[u] = states[u] /\ slotBuffer'[u] = slotBuffer[u]
  /\ heard'[u] = heard[u] /\ delivered'[u] = delivered[u]

LEMMA BufferKept ==
  ASSUME NodesInv, HearInv, NEW u \in Nodes, BufferInv(u), ReceiverKept(u),
         UNCHANGED inRange, slot' \in Nat, slot <= slot', forgotten \subseteq forgotten'
  PROVE  BufferInv(u)'
<1>1. \A k : IsDecoded(u, k)' <=> IsDecoded(u, k)
  BY DEF IsDecoded, ReceiverKept
<1>2. Strong(u)' = Strong(u)
  BY DEF Strong, ReceiverKept
<1>3. ASSUME NEW f \in Strong(u), Lost(u, f.slot)
      PROVE  Lost(u, f.slot)'
  <2>1. f.slot \in Nat /\ slot \in Nat /\ Timeout \in Nat
    BY HeardFacts, NetAssumption DEF Strong, NodesInv, MacInv, MacTypes
  <2>2. f.slot + Timeout <= slot'
    BY <1>3, <2>1 DEF Lost
  <2> QED
    BY <1>3, <2>2 DEF Lost, ReceiverKept
<1>4. ASSUME NEW f, Kept(u, f)
      PROVE  Kept(u, f)'
  BY <1>1, <1>4 DEF Kept, ReceiverKept
<1>5. \A f \in Strong(u)' : Lost(u, f.slot)' \/ Kept(u, f)'
  BY <1>2, <1>3, <1>4 DEF BufferInv
<1> QED
  BY <1>1, <1>5 DEF BufferInv, ReceiverKept

LEMMA TimerKept ==
  ASSUME NodesInv, RxTypes, NEW u \in Nodes, TimerInv(u),
         slot' \in Nat, slot <= slot', air \subseteq air',
         DOMAIN states'[u] = DOMAIN states[u], heard'[u] = heard[u],
         \A k \in DOMAIN states[u] : states'[u][k].born = states[u][k].born,
         packetBuffer'[u] = packetBuffer[u]
  PROVE  TimerInv(u)'
<1>1. \A p : WithinTimeout(p)' => WithinTimeout(p)
  BY DEF WithinTimeout
<1>2. \A k \in DOMAIN states[u] :
        states[u][k].born + Timeout <= slot => states[u][k].born + Timeout <= slot'
  <2>1. states[u] \in Buffers /\ slot \in Nat /\ Timeout \in Nat
    BY NetAssumption DEF RxTypes, NodesInv, MacInv, MacTypes
  <2>2. \A k \in DOMAIN states[u] : states[u][k].born \in Nat
    BY <2>1, BufferTypes, StateFields
  <2> QED
    BY <2>1, <2>2
<1> QED
  BY <1>1, <1>2 DEF TimerInv

\* One more fragment of the packet with key k is counted.
Counts(r, k) ==
  LET b == states[r][k] c == states'[r][k] IN
  /\ k \in DOMAIN states[r] /\ ~IsDecoded(r, k)
  /\ DOMAIN states'[r] = DOMAIN states[r]
  /\ \A j \in DOMAIN states[r] :
       j # k => states'[r][j] = states[r][j]
  /\ c \in States /\ c.tid = b.tid /\ c.allSlots = b.allSlots /\ c.s = b.s
  /\ c.born = b.born /\ c.count = b.count + 1
  /\ \/ /\ b.count + 1 >= b.s
        /\ delivered'[r] = Append(delivered[r], k)
        /\ rxCount' = [rxCount EXCEPT ![<<k[1], r, b.tid>>] = @ + 1]
        /\ active'[r] = Tail(active[r]) \o b.allSlots
     \/ /\ b.count + 1 < b.s
        /\ delivered'[r] = delivered[r] /\ rxCount' = rxCount
        /\ active'[r] = Tail(active[r])

\* The keys left in slot x when it is cleaned.
Left(r, x) == {e.key : e \in {f \in CleanSlot(r, x) : f.slot = x}}

LEMMA SolveFacts ==
  ASSUME NodesInv, HearInv, RxTypes, NEW r \in Nodes, BufferInv(r), SolveSlot(r)
  PROVE  LET x == Head(active[r]) IN
         /\ active[r] # <<>> /\ x \in Nat
         /\ RxTypes' /\ UNCHANGED packetBuffer
         /\ \A u \in Nodes \ {r} : ReceiverKept(u) /\ active'[u] = active[u]
         /\ \/ /\ x > slot /\ slotBuffer'[r] = slotBuffer[r]
               /\ states'[r] = states[r]
               /\ delivered'[r] = delivered[r] /\ rxCount' = rxCount
               /\ active'[r] = Tail(active[r])
            \/ /\ x <= slot /\ slotBuffer'[r] = CleanSlot(r, x)
               /\ \A k : Left(r, x) # {k}
               /\ states'[r] = states[r]
               /\ delivered'[r] = delivered[r] /\ rxCount' = rxCount
               /\ active'[r] = Tail(active[r])
            \/ /\ x <= slot /\ slotBuffer'[r] = CleanSlot(r, x)
               /\ \E k : Left(r, x) = {k} /\ Counts(r, k)
<1> DEFINE x == Head(active[r])
<1>1. /\ active[r] # <<>> /\ active[r] \in Seq(Nat) /\ x \in Nat /\ slot \in Nat
      /\ Tail(active[r]) \in Seq(Nat)
  BY DEF SolveSlot, RxTypes, SolverInv, NodesInv, MacInv, MacTypes
<1>2. UNCHANGED <<slot, phase, solvingAsked, heard, packetBuffer>>
  BY DEF SolveSlot, clockVars
<1>3. phase = "solve" /\ r \notin solvingAsked
  BY <1>1 DEF RxTypes, SolverInv
<1>4. CleanSlot(r, x) \subseteq slotBuffer[r] /\ slotBuffer[r] \subseteq [slot : Nat, key : Keys]
  BY DEF CleanSlot, RxTypes
<1>5. /\ states[r] \in Buffers /\ delivered[r] \in Seq(Keys)
      /\ states[r] \in [DOMAIN states[r] -> States]
      /\ DOMAIN states[r] \subseteq Keys
  BY BufferTypes DEF RxTypes
<1>6. Left(r, x) = {e.key : e \in {f \in CleanSlot(r, x) : f.slot = x}}
  BY DEF Left
<1>7. \/ /\ x > slot /\ Pop(r, <<>>) /\ UNCHANGED slotBuffer
         /\ UNCHANGED <<states, delivered, rxCount>>
      \/ /\ x <= slot /\ slotBuffer' = [slotBuffer EXCEPT ![r] = CleanSlot(r, x)]
         /\ Pop(r, <<>>) /\ UNCHANGED <<states, delivered, rxCount>>
         /\ \A k \in Left(r, x) : Left(r, x) # {k}
      \/ /\ x <= slot /\ slotBuffer' = [slotBuffer EXCEPT ![r] = CleanSlot(r, x)]
         /\ \E k \in Left(r, x) : Left(r, x) = {k} /\ Credit(r, k)
  <2>1. Left(r, x) = {e.key : e \in {f \in CleanSlot(r, x) : f.slot = x}}
    BY DEF Left
  <2> QED
    BY <2>1 DEF SolveSlot
<1> HIDE DEF x
<1>8. /\ slotBuffer' \in [Nodes -> SUBSET [slot : Nat, key : Keys]]
      /\ \A u \in Nodes \ {r} : slotBuffer'[u] = slotBuffer[u]
      /\ IF x > slot THEN slotBuffer'[r] = slotBuffer[r]
                     ELSE slotBuffer'[r] = CleanSlot(r, x)
  <2>1. x <= slot <=> ~(x > slot)
    BY <1>1
  <2> QED
    BY <1>4, <1>7, <2>1 DEF RxTypes
<1>9. ASSUME NEW xs \in Seq(Nat), Pop(r, xs)
      PROVE  /\ active'[r] = Tail(active[r]) \o xs
             /\ \A u \in Nodes \ {r} : active'[u] = active[u]
             /\ SolverInv'
  <2>1. Tail(active[r]) \o xs \in Seq(Nat)
    BY <1>1, AppendAll
  <2>2. /\ active' \in [Nodes -> Seq(Nat)] /\ active'[r] = Tail(active[r]) \o xs
        /\ \A u \in Nodes \ {r} : active'[u] = active[u]
    BY <1>9, <2>1 DEF Pop, RxTypes, SolverInv
  <2> QED
    BY <1>2, <1>3, <2>2 DEF RxTypes, SolverInv
<1>10. <<>> \in Seq(Nat) /\ Tail(active[r]) \o <<>> = Tail(active[r])
  BY <1>1
<1>11. ASSUME UNCHANGED <<states, delivered, rxCount>>, Pop(r, <<>>)
       PROVE  /\ RxTypes' /\ active'[r] = Tail(active[r])
              /\ \A u \in Nodes \ {r} : ReceiverKept(u) /\ active'[u] = active[u]
  <2>1. /\ RxTypes' /\ active'[r] = Tail(active[r])
        /\ \A u \in Nodes \ {r} : active'[u] = active[u]
    BY <1>2, <1>8, <1>9, <1>10, <1>11 DEF RxTypes
  <2>2. \A u \in Nodes \ {r} : ReceiverKept(u)
    BY <1>2, <1>8, <1>11 DEF ReceiverKept
  <2> QED
    BY <2>1, <2>2
<1>12. ASSUME NEW k \in Left(r, x), Credit(r, k)
       PROVE  /\ Counts(r, k) /\ RxTypes'
              /\ \A u \in Nodes \ {r} : ReceiverKept(u) /\ active'[u] = active[u]
  <2> DEFINE b == states[r][k]  c == [b EXCEPT !.count = @ + 1]
             bs == [states[r] EXCEPT ![k] = c]
  <2>1. k \in DOMAIN states[r] /\ ~IsDecoded(r, k) /\ k \in Keys
    <3>1. PICK e \in CleanSlot(r, x) : e.slot = x /\ e.key = k
      BY DEF Left
    <3>2. e \in slotBuffer[r] /\ ~IsDecoded(r, k)
      BY <3>1 DEF CleanSlot
    <3> QED
      BY <1>5, <3>1, <3>2 DEF BufferInv
  <2>2. b \in States /\ b.allSlots \in Seq(Nat) /\ b.count \in Nat /\ b.s \in Nat
    BY <1>5, <2>1, StateFields
  <2>3. /\ c \in States /\ c.tid = b.tid /\ c.allSlots = b.allSlots /\ c.s = b.s
        /\ c.born = b.born /\ c.count = b.count + 1
    BY <2>2, CountUp
  <2>4. states' = [states EXCEPT ![r] = bs]
    BY <1>12 DEF Credit
  <2> HIDE DEF c
  <2>5. /\ bs \in [DOMAIN states[r] -> States] /\ bs[k] = c
        /\ \A j \in DOMAIN states[r] : j # k => bs[j] = states[r][j]
    BY <1>5, <2>1, <2>3
  <2> HIDE DEF bs
  <2>6. bs \in Buffers /\ DOMAIN bs = DOMAIN states[r]
    BY <1>5, <2>5, BufferTypes
  <2>7. /\ states' \in [Nodes -> Buffers] /\ states'[r] = bs
        /\ \A u \in Nodes \ {r} : states'[u] = states[u]
    BY <2>4, <2>6 DEF RxTypes
  <2>8. CASE b.count + 1 >= b.s /\ ForwardUp(r, k) /\ Pop(r, b.allSlots)
    <3>1. /\ delivered' \in [Nodes -> Seq(Keys)]
          /\ delivered'[r] = Append(delivered[r], k)
          /\ \A u \in Nodes \ {r} : delivered'[u] = delivered[u]
          /\ rxCount' = [rxCount EXCEPT ![<<k[1], r, b.tid>>] = @ + 1]
      <4>1. Append(delivered[r], k) \in Seq(Keys)
        BY <1>5, <2>1
      <4> QED
        BY <2>8, <4>1 DEF ForwardUp, RxTypes
    <3>2. /\ active'[r] = Tail(active[r]) \o b.allSlots /\ SolverInv'
          /\ \A u \in Nodes \ {r} : active'[u] = active[u]
      BY <1>9, <2>2, <2>8
    <3>3. RxTypes'
      BY <1>2, <1>8, <2>7, <3>1, <3>2 DEF RxTypes
    <3>4. \A u \in Nodes \ {r} : ReceiverKept(u)
      BY <1>2, <1>8, <2>7, <3>1 DEF ReceiverKept
    <3> QED
      BY <2>1, <2>3, <2>5, <2>6, <2>7, <2>8, <3>1, <3>2, <3>3, <3>4 DEF Counts
  <2>9. CASE /\ ~(b.count + 1 >= b.s) /\ Pop(r, <<>>)
             /\ UNCHANGED <<delivered, rxCount>>
    <3>1. /\ active'[r] = Tail(active[r]) /\ SolverInv'
          /\ \A u \in Nodes \ {r} : active'[u] = active[u]
      BY <1>9, <1>10, <2>9
    <3>2. RxTypes'
      BY <1>2, <1>8, <2>7, <2>9, <3>1 DEF RxTypes
    <3>3. \A u \in Nodes \ {r} : ReceiverKept(u)
      BY <1>2, <1>8, <2>7, <2>9 DEF ReceiverKept
    <3>4. b.count + 1 < b.s
      BY <2>2, <2>9
    <3> QED
      BY <2>1, <2>3, <2>5, <2>6, <2>7, <2>9, <3>1, <3>2, <3>3, <3>4 DEF Counts
  <2> QED
    BY <1>12, <2>8, <2>9 DEF Credit
<1>13. CASE x > slot
  <2>1. /\ Pop(r, <<>>) /\ slotBuffer'[r] = slotBuffer[r]
        /\ UNCHANGED <<states, delivered, rxCount>>
    BY <1>1, <1>7, <1>8, <1>13
  <2> QED
    BY <1>1, <1>2, <1>11, <1>13, <2>1 DEF x
<1>14. CASE /\ x <= slot /\ Pop(r, <<>>)
            /\ UNCHANGED <<states, delivered, rxCount>>
            /\ \A k \in Left(r, x) : Left(r, x) # {k}
  <2>1. slotBuffer'[r] = CleanSlot(r, x) /\ \A k : Left(r, x) # {k}
    <3>1. ~(x > slot)
      BY <1>1, <1>14
    <3>2. \A k : k \in {k}
      OBVIOUS
    <3>3. \A k : Left(r, x) # {k}
      BY <1>14, <3>2
    <3> QED
      BY <1>8, <3>1, <3>3
  <2>2. /\ RxTypes' /\ active'[r] = Tail(active[r])
        /\ \A u \in Nodes \ {r} : ReceiverKept(u) /\ active'[u] = active[u]
    BY <1>11, <1>14
  <2>3. states'[r] = states[r] /\ delivered'[r] = delivered[r] /\ rxCount' = rxCount
    BY <1>14
  <2> QED
    BY <1>1, <1>2, <1>14, <2>1, <2>2, <2>3 DEF x
<1>15. CASE x <= slot /\ \E k \in Left(r, x) : Left(r, x) = {k} /\ Credit(r, k)
  <2>1. slotBuffer'[r] = CleanSlot(r, x)
    BY <1>1, <1>8, <1>15
  <2>2. PICK k \in Left(r, x) : Left(r, x) = {k} /\ Credit(r, k)
    BY <1>15
  <2> QED
    BY <1>1, <1>2, <1>12, <1>15, <2>1, <2>2 DEF x
<1> QED
  BY <1>7, <1>13, <1>14, <1>15

\* The fragment f comes into the state k, which is made if it is not there.
Adds(r, k, f) ==
  /\ k \in GetPacketState(r, f.pkt)
  /\ DOMAIN states'[r] = DOMAIN states[r] \cup {k}
  /\ \A j \in DOMAIN states[r] : states'[r][j] = states[r][j]
  /\ k \notin DOMAIN states[r] => states'[r][k] = NewState(f.pkt)
  /\ packetBuffer'[r] = packetBuffer[r] \cup {k}
  /\ slotBuffer'[r] = slotBuffer[r] \cup {[slot |-> slot, key |-> k]}
  /\ heard'[r] = heard[r] \cup {f} /\ delivered'[r] = delivered[r]

LEMMA ReceiveFacts ==
  ASSUME NodesInv, HearInv, RxTypes, NEW m \in inFlight, Receive(m)
  PROVE  LET r == m.to  f == m.frag IN
         /\ r \in Nodes /\ f \in air /\ f.slot = slot /\ f.pkt.src # r
         /\ f.pkt \in Packets /\ phase = "flight"
         /\ RxTypes' /\ UNCHANGED active
         /\ \A u \in Nodes \ {r} :
              ReceiverKept(u) /\ packetBuffer'[u] = packetBuffer[u]
         /\ \/ ReceiverKept(r) /\ packetBuffer'[r] = packetBuffer[r]
            \/ \E k : Adds(r, k, f)
<1> DEFINE r == m.to  f == m.frag  p == f.pkt
<1>1. r \in Nodes /\ f \in air /\ f.slot = slot /\ p.src # r
  BY DEF HearInv
<1>2. p \in Packets /\ slot \in Nat
  BY <1>1, AirTypes DEF NodesInv, MacInv, MacTypes
<1>3. phase = "flight" /\ UNCHANGED <<slot, phase, active, delivered>>
  BY DEF Receive, rxVars, clockVars
<1>4. \/ /\ \E k \in GetPacketState(r, p) :
              /\ AddPacketState(r, k, p)
              /\ slotBuffer' = [slotBuffer EXCEPT ![r] = AddToSlot(@, k)]
         /\ solvingAsked' = solvingAsked \cup {r}
         /\ heard' = [heard EXCEPT ![r] = @ \cup {f}]
      \/ UNCHANGED <<states, packetBuffer, slotBuffer, solvingAsked, heard>>
  BY DEF Receive, rxVars
<1> HIDE DEF r, f
<1>5. CASE UNCHANGED <<states, packetBuffer, slotBuffer, solvingAsked, heard>>
  <2>1. RxTypes' /\ \A u \in Nodes : ReceiverKept(u)
    BY <1>3, <1>5 DEF RxTypes, SolverInv, ReceiverKept
  <2> QED
    BY <1>1, <1>2, <1>3, <1>5, <2>1 DEF r, f
<1>6. ASSUME NEW k \in GetPacketState(r, p), AddPacketState(r, k, p),
             slotBuffer' = [slotBuffer EXCEPT ![r] = AddToSlot(@, k)],
             solvingAsked' = solvingAsked \cup {r},
             heard' = [heard EXCEPT ![r] = @ \cup {f}]
      PROVE  /\ RxTypes' /\ Adds(r, k, f)
             /\ \A u \in Nodes \ {r} :
                  ReceiverKept(u) /\ packetBuffer'[u] = packetBuffer[u]
  <2> DEFINE S == states[r]  K == DOMAIN S \cup {k}
             b == [j \in K |-> IF j \in DOMAIN S THEN S[j] ELSE NewState(p)]
  <2>1. k \in Keys
    <3>1. NewId(r, p) \in Keys
      BY <1>2 DEF NewId, Key, Keys, Packets
    <3> QED
      BY <1>1, <3>1 DEF GetPacketState, RxTypes
  <2>2. S \in Buffers
    BY <1>1 DEF RxTypes
  <2>3. b \in [K -> States] /\ K \in SUBSET Keys
    <3>1. NewState(p) \in States /\ DOMAIN S \subseteq Keys /\ \A j \in DOMAIN S : S[j] \in States
      BY <1>2, <2>2, BufferTypes, StateFields
    <3> QED
      BY <2>1, <3>1
  <2>4. /\ states' = [states EXCEPT ![r] = b]
        /\ packetBuffer' = [packetBuffer EXCEPT ![r] = @ \cup {k}]
    BY <1>6 DEF AddPacketState
  <2>5. /\ DOMAIN b = DOMAIN S \cup {k} /\ \A j \in DOMAIN S : b[j] = S[j]
        /\ k \notin DOMAIN S => b[k] = NewState(p)
    OBVIOUS
  <2> HIDE DEF b, K
  <2>6. b \in Buffers
    BY <2>3, BufferTypes
  <2>7. /\ states' \in [Nodes -> Buffers] /\ states'[r] = b
        /\ packetBuffer' \in [Nodes -> SUBSET Keys]
        /\ packetBuffer'[r] = packetBuffer[r] \cup {k}
        /\ \A u \in Nodes \ {r} : states'[u] = states[u]
                                  /\ packetBuffer'[u] = packetBuffer[u]
    BY <1>1, <2>1, <2>4, <2>6 DEF RxTypes
  <2>8. /\ slotBuffer' \in [Nodes -> SUBSET [slot : Nat, key : Keys]]
        /\ slotBuffer'[r] = slotBuffer[r] \cup {[slot |-> slot, key |-> k]}
        /\ \A u \in Nodes \ {r} : slotBuffer'[u] = slotBuffer[u]
    BY <1>1, <1>2, <1>6, <2>1 DEF RxTypes, AddToSlot
  <2>9. heard'[r] = heard[r] \cup {f} /\ \A u \in Nodes \ {r} : heard'[u] = heard[u]
    BY <1>1, <1>6 DEF HearInv
  <2>10. SolverInv'
    <3>1. \A u \in Nodes : \A g \in heard'[u] : g \in heard[u] \/ u = r
      BY <2>9
    <3> QED
      BY <1>1, <1>3, <1>6, <3>1 DEF RxTypes, SolverInv
  <2>11. RxTypes'
    BY <1>3, <2>7, <2>8, <2>10 DEF RxTypes
  <2>12. Adds(r, k, f)
    BY <1>3, <1>6, <2>5, <2>7, <2>8, <2>9 DEF Adds
  <2> QED
    BY <1>3, <2>7, <2>8, <2>9, <2>11, <2>12 DEF ReceiverKept
<1> QED
  BY <1>1, <1>2, <1>3, <1>4, <1>5, <1>6 DEF r, f

\* A fragment that comes in, of a packet heard before or not.
LEMMA AddsFacts ==
  ASSUME NodesInv, HearInv, NEW r \in Nodes, BufferInv(r), TimerInv(r),
         NEW f \in air, f.slot = slot, f.pkt \in Packets, NEW k, Adds(r, k, f)
  PROVE  /\ IsOf(k, f.pkt)
         /\ k \notin DOMAIN states[r] /\ WithinTimeout(f.pkt) =>
              \A j \in DOMAIN states[r] : ~IsOf(j, f.pkt)
         /\ (\A j \in DOMAIN states[r] : ~IsOf(j, f.pkt)) => k = Key(f.pkt)
<1>1. \/ k \in packetBuffer[r] /\ IsOf(k, f.pkt)
      \/ k = NewId(r, f.pkt) /\ \A j \in packetBuffer[r] : ~IsOf(j, f.pkt)
  BY DEF Adds, GetPacketState
<1>2. IsOf(NewId(r, f.pkt), f.pkt)
  BY DEF NewId, IsOf, Key
<1>3. ASSUME k \notin DOMAIN states[r], WithinTimeout(f.pkt),
             NEW j \in DOMAIN states[r], IsOf(j, f.pkt)
      PROVE  FALSE
  <2>1. j \notin packetBuffer[r]
    BY <1>1, <1>3 DEF TimerInv
  <2>2. PICK g \in heard[r] : states[r][j].born = g.slot /\ g.pkt = f.pkt
    BY <1>3, StateHeard
  <2>3. g.slot + Timeout <= slot
    BY <2>1, <2>2 DEF TimerInv
  <2>4. g \in air /\ g.slot \in Nat /\ slot \in Nat /\ Timeout \in Nat
    BY HeardFacts, NetAssumption DEF NodesInv, MacInv, MacTypes
  <2>5. f.slot < g.slot + Timeout
    BY <1>3, <2>2, <2>4 DEF WithinTimeout
  <2> QED
    BY <2>3, <2>4, <2>5
<1>4. (\A j \in DOMAIN states[r] : ~IsOf(j, f.pkt)) => k = Key(f.pkt)
  BY <1>1 DEF NewId, TimerInv
<1> QED
  BY <1>1, <1>2, <1>3, <1>4

LEMMA ReceiveBuffer ==
  ASSUME NodesInv, HearInv, NEW r \in Nodes, BufferInv(r), TimerInv(r), RxTypes,
         NEW f \in air, f.slot = slot, f.pkt \in Packets, NEW k, Adds(r, k, f),
         UNCHANGED <<inRange, slot, air>>, forgotten \subseteq forgotten'
  PROVE  BufferInv(r)' /\ TimerInv(r)'
<1> DEFINE D == DOMAIN states[r]  b == states'[r]  n == NewState(f.pkt)
<1>1. /\ DOMAIN b = D \cup {k} /\ \A j \in D : b[j] = states[r][j]
      /\ k \notin D => b[k] = n
      /\ packetBuffer'[r] = packetBuffer[r] \cup {k}
      /\ slotBuffer'[r] = slotBuffer[r] \cup {[slot |-> f.slot, key |-> k]}
      /\ heard'[r] = heard[r] \cup {f} /\ delivered'[r] = delivered[r]
  BY DEF Adds
<1>2. /\ StateOf(f.pkt, n) /\ n.count = 0 /\ n.s = f.pkt.s /\ n.born = f.slot
      /\ f.pkt.s \in Nat \ {0} /\ slot \in Nat /\ Timeout \in Nat \ {0}
  BY StateFields, AirTypes, NetAssumption DEF StateOf, NodesInv, MacInv, MacTypes
<1>3. IsOf(k, f.pkt)
  BY AddsFacts
<1>4. packetBuffer[r] \subseteq D
  BY DEF TimerInv
<1> HIDE DEF D, b, n
<1>5. ASSUME NEW j \in DOMAIN b
      PROVE  \E g \in heard'[r] :
               /\ IsOf(j, g.pkt) /\ StateOf(g.pkt, b[j])
               /\ b[j].born = g.slot /\ b[j].count <= g.pkt.s
  <2>1. CASE j \in D
    <3>1. PICK g \in heard[r] :
            /\ IsOf(j, g.pkt) /\ StateOf(g.pkt, states[r][j])
            /\ states[r][j].born = g.slot /\ states[r][j].count <= g.pkt.s
      BY <2>1 DEF BufferInv, D
    <3> QED
      BY <1>1, <2>1, <3>1
  <2>2. CASE j \notin D
    <3>1. j = k /\ b[j] = n /\ f \in heard'[r] /\ 0 <= f.pkt.s
      BY <1>1, <1>2, <2>2
    <3> QED
      BY <1>2, <1>3, <3>1
  <2> QED
    BY <2>1, <2>2
<1>6. ASSUME NEW g \in heard'[r]
      PROVE  Key(g.pkt) \in DOMAIN b
  <2>1. CASE g \in heard[r]
    BY <1>1, <2>1 DEF BufferInv, D
  <2>2. CASE g = f
    <3>1. CASE \E j \in D : IsOf(j, f.pkt)
      <4>1. PICK h \in heard[r] : h.pkt = f.pkt
        BY <3>1, StateHeard DEF D
      <4> QED
        BY <1>1, <2>2, <4>1 DEF BufferInv, D
    <3>2. CASE \A j \in D : ~IsOf(j, f.pkt)
      BY <1>1, <2>2, <3>2, AddsFacts DEF D
    <3> QED
      BY <3>1, <3>2
  <2> QED
    BY <1>1, <2>1, <2>2
<1>7. ASSUME NEW e \in slotBuffer'[r]
      PROVE  /\ e.key \in DOMAIN b
             /\ \E g \in heard'[r] : e.slot = g.slot /\ IsOf(e.key, g.pkt)
  <2>1. CASE e \in slotBuffer[r]
    <3>1. /\ e.key \in D
          /\ \E g \in heard[r] : e.slot = g.slot /\ IsOf(e.key, g.pkt)
      BY <2>1 DEF BufferInv, D
    <3> QED
      BY <1>1, <3>1
  <2>2. CASE e = [slot |-> f.slot, key |-> k]
    BY <1>1, <1>3, <2>2
  <2> QED
    BY <1>1, <2>1, <2>2
<1>8. /\ \A j \in D : IsDecoded(r, j)' <=> IsDecoded(r, j)
      /\ k \notin D => ~IsDecoded(r, k)'
  <2>1. k \notin D => ~(n.count >= n.s)
    BY <1>2
  <2> QED
    BY <1>1, <2>1 DEF IsDecoded, b
<1>9. ASSUME NEW g \in Strong(r)'
      PROVE  Lost(r, g.slot)' \/ Kept(r, g)'
  <2>1. CASE g = f
    <3>1. Kept(r, g)'
      BY <1>1, <1>3, <2>1 DEF Kept, b
    <3> QED
      BY <3>1
  <2>2. CASE g \in Strong(r)
    <3>1. Lost(r, g.slot) \/ Kept(r, g)
      BY <2>2 DEF BufferInv
    <3>2. ASSUME Lost(r, g.slot)
          PROVE  Lost(r, g.slot)'
      <4>1. g.slot \in Nat
        BY <2>2, HeardFacts DEF Strong
      <4>2. f.slot # g.slot
        BY <1>2, <3>2, <4>1 DEF Lost
      <4>3. \A e \in slotBuffer'[r] : e.slot # g.slot
        BY <1>1, <3>2, <4>2 DEF Lost
      <4> QED
        BY <3>2, <4>3 DEF Lost
    <3>3. ASSUME Kept(r, g)
          PROVE  Kept(r, g)'
      <4>1. PICK j \in D : /\ IsOf(j, g.pkt)
                           /\ [slot |-> g.slot, key |-> j] \in slotBuffer[r] \/ IsDecoded(r, j)
        BY <3>3 DEF Kept, D
      <4>2. [slot |-> g.slot, key |-> j] \in slotBuffer'[r] \/ IsDecoded(r, j)'
        BY <1>1, <1>8, <4>1
      <4>3. j \in DOMAIN states'[r]
        BY <1>1 DEF b
      <4> QED
        BY <4>1, <4>2, <4>3 DEF Kept
    <3> QED
      BY <3>1, <3>2, <3>3
  <2>3. g = f \/ g \in Strong(r)
    BY <1>1 DEF Strong
  <2> QED
    BY <2>1, <2>2, <2>3
<1>10. \A j : j \in ToSet(delivered'[r]) <=> j \in DOMAIN b /\ IsDecoded(r, j)'
  <2>1. \A j : j \in ToSet(delivered[r]) <=> j \in D /\ IsDecoded(r, j)
    BY DEF BufferInv, D
  <2> QED
    BY <1>1, <1>8, <2>1
<1>11. Distinct(delivered'[r])
  BY <1>1 DEF BufferInv
<1>12. BufferInv(r)'
  BY <1>5, <1>6, <1>7, <1>9, <1>10, <1>11 DEF BufferInv, b
<1>13. ASSUME NEW j \in DOMAIN b, j \notin packetBuffer'[r]
       PROVE  b[j].born + Timeout <= slot
  <2>1. j \in D /\ j \notin packetBuffer[r] /\ b[j] = states[r][j]
    BY <1>1, <1>13
  <2> QED
    BY <2>1 DEF TimerInv, D
<1>14. ASSUME NEW j \in DOMAIN b, NEW g \in heard'[r], IsOf(j, g.pkt), WithinTimeout(g.pkt)
       PROVE  j = Key(g.pkt)
  <2>1. g \in air
    BY <1>1, HeardFacts
  <2>2. CASE j \in D
    <3>1. PICK h \in heard[r] : IsOf(j, h.pkt) /\ h.pkt = g.pkt
      BY <1>14, <2>1, <2>2, StateHeard DEF D
    <3> QED
      BY <1>14, <2>2, <3>1 DEF TimerInv, D
  <2>3. CASE j \notin D
    <3>1. j = k /\ g.pkt = f.pkt
      BY <1>1, <1>3, <1>14, <2>1, <2>3, KeyNamesPacket
    <3> QED
      BY <1>14, <2>3, <3>1, AddsFacts DEF D
  <2> QED
    BY <2>2, <2>3
<1>15. \A p : WithinTimeout(p)' <=> WithinTimeout(p)
  BY DEF WithinTimeout
<1>16. packetBuffer'[r] \subseteq DOMAIN b
  BY <1>1, <1>4
<1>17. TimerInv(r)'
  BY <1>13, <1>14, <1>15, <1>16 DEF TimerInv, b
<1> QED
  BY <1>12, <1>17

\* Cleaning slot x keeps the strong signals of packets that are not decoded.
LEMMA CleanKeeps ==
  ASSUME NEW r, NEW x
  PROVE  /\ CleanSlot(r, x) \subseteq slotBuffer[r]
         /\ \A e \in slotBuffer[r] :
              \/ e \in CleanSlot(r, x)
              \/ IsDecoded(r, e.key) \/ e.key[1] \notin inRange[r]
BY DEF CleanSlot

LEMMA CleanedKeeps ==
  ASSUME NEW r, NEW x, BufferInv(r), slotBuffer'[r] = CleanSlot(r, x),
         DOMAIN states'[r] = DOMAIN states[r],
         \A j \in DOMAIN states[r] : IsDecoded(r, j) => IsDecoded(r, j)',
         UNCHANGED <<inRange, slot, forgotten>>
  PROVE  \A f \in Strong(r) : Lost(r, f.slot)' \/ Kept(r, f)'
<1> SUFFICES ASSUME NEW f \in Strong(r) PROVE Lost(r, f.slot)' \/ Kept(r, f)'
  OBVIOUS
<1>1. CASE Lost(r, f.slot)
  BY <1>1, CleanKeeps DEF Lost
<1>2. CASE Kept(r, f)
  <2>1. PICK k \in DOMAIN states[r] :
          /\ IsOf(k, f.pkt)
          /\ [slot |-> f.slot, key |-> k] \in slotBuffer[r] \/ IsDecoded(r, k)
    BY <1>2 DEF Kept
  <2> DEFINE e == [slot |-> f.slot, key |-> k]
  <2>2. e.key = k /\ k[1] \in inRange[r]
    BY <2>1 DEF IsOf, Strong
  <2> HIDE DEF e
  <2>3. e \in slotBuffer'[r] \/ IsDecoded(r, k)
    BY <2>1, <2>2, CleanKeeps DEF e
  <2> QED
    BY <2>1, <2>3 DEF Kept, e
<1> QED
  BY <1>1, <1>2 DEF BufferInv

LEMMA AppendOne ==
  ASSUME NEW S, NEW s \in Seq(S), NEW k \in S, Distinct(s), k \notin ToSet(s)
  PROVE  Distinct(Append(s, k)) /\ ToSet(Append(s, k)) = ToSet(s) \cup {k}
<1> DEFINE a == Append(s, k)  n == Len(s)
<1>1. /\ a \in Seq(S) /\ Len(a) = n + 1 /\ n \in Nat /\ a[n + 1] = k
      /\ \A i \in 1..n : a[i] = s[i]
  OBVIOUS
<1> HIDE DEF a, n
<1>2. \A i \in 1..(n + 1) : i \in 1..n \/ i = n + 1
  BY <1>1
<1>3. \A i \in 1..n : s[i] # k /\ s[i] \in ToSet(s)
  BY ToSetFacts DEF n
<1>4. Distinct(a)
  BY <1>1, <1>2, <1>3 DEF Distinct, n
<1>5. ToSet(a) = ToSet(s) \cup {k}
  <2>1. \A x : x \in ToSet(a) <=> \E i \in 1..(n + 1) : a[i] = x
    BY <1>1, ToSetFacts
  <2>2. \A x : x \in ToSet(s) <=> \E i \in 1..n : s[i] = x
    BY ToSetFacts DEF n
  <2>3. \A x : x \in ToSet(a) => x \in ToSet(s) \cup {k}
    BY <1>1, <1>2, <2>1, <2>2
  <2>4. 1..n \subseteq 1..(n + 1) /\ n + 1 \in 1..(n + 1)
    BY <1>1
  <2>5. \A x : x \in ToSet(s) \cup {k} => x \in ToSet(a)
    BY <1>1, <2>1, <2>2, <2>4
  <2> QED
    BY <2>3, <2>5
<1> QED
  BY <1>4, <1>5 DEF a

\* Counting a fragment, and what it delivers.
LEMMA CountBuffer ==
  ASSUME NodesInv, HearInv, RxTypes, NEW r \in Nodes, BufferInv(r), NEW x, NEW k,
         slotBuffer'[r] = CleanSlot(r, x), Counts(r, k),
         heard'[r] = heard[r], UNCHANGED <<inRange, slot, forgotten>>
  PROVE  BufferInv(r)'
<1> DEFINE b == states[r][k]  c == states'[r][k]  D == DOMAIN states[r]
<1>1. /\ k \in D /\ ~IsDecoded(r, k)
      /\ DOMAIN states'[r] = D
      /\ \A j \in D : j # k => states'[r][j] = states[r][j]
      /\ c \in States /\ c.tid = b.tid /\ c.allSlots = b.allSlots /\ c.s = b.s
      /\ c.born = b.born /\ c.count = b.count + 1
      /\ \/ b.count + 1 >= b.s /\ delivered'[r] = Append(delivered[r], k)
         \/ b.count + 1 < b.s /\ delivered'[r] = delivered[r]
  BY DEF Counts
<1>2. b \in States /\ b.count \in Nat /\ b.s \in Nat /\ states[r] \in Buffers /\ k \in Keys
      /\ delivered[r] \in Seq(Keys)
  BY <1>1, BufferTypes, StateFields DEF RxTypes
<1>3. b.count < b.s /\ c.count <= c.s
  BY <1>1, <1>2 DEF IsDecoded
<1>4. /\ \A j \in D : j # k => (IsDecoded(r, j)' <=> IsDecoded(r, j))
      /\ IsDecoded(r, k)' <=> b.count + 1 >= b.s
  BY <1>1 DEF IsDecoded
<1>5. Strong(r)' = Strong(r)
  BY DEF Strong
<1> HIDE DEF b, c, D
<1>6. ASSUME NEW j \in D
      PROVE  \E f \in heard'[r] :
               /\ IsOf(j, f.pkt) /\ StateOf(f.pkt, states'[r][j])
               /\ states'[r][j].born = f.slot /\ states'[r][j].count <= f.pkt.s
  <2>1. PICK f \in heard[r] :
          /\ IsOf(j, f.pkt) /\ StateOf(f.pkt, states[r][j])
          /\ states[r][j].born = f.slot /\ states[r][j].count <= f.pkt.s
    BY DEF BufferInv, D
  <2>2. CASE j = k
    BY <1>1, <1>3, <2>1, <2>2 DEF StateOf, b, c
  <2>3. CASE j # k
    BY <1>1, <2>1, <2>3
  <2> QED
    BY <2>2, <2>3
<1>7. \A e \in slotBuffer'[r] :
        /\ e.key \in D
        /\ \E f \in heard'[r] : e.slot = f.slot /\ IsOf(e.key, f.pkt)
  BY CleanKeeps DEF BufferInv, D
<1>8. \A j \in D : IsDecoded(r, j) => IsDecoded(r, j)'
  BY <1>1, <1>4
<1>9. \A f \in Strong(r)' : Lost(r, f.slot)' \/ Kept(r, f)'
  BY <1>1, <1>5, <1>8, CleanedKeeps DEF D
<1>10. \A j : j \in ToSet(delivered[r]) <=> j \in D /\ IsDecoded(r, j)
  BY DEF BufferInv, D
<1>11. Distinct(delivered[r])
  BY DEF BufferInv
<1>12. \A f \in heard'[r] : Key(f.pkt) \in D
  BY DEF BufferInv, D
<1>13. CASE b.count + 1 >= b.s
  <2> DEFINE d == delivered[r]
  <2>1. delivered'[r] = Append(d, k) /\ d \in Seq(Keys)
    BY <1>1, <1>2, <1>13
  <2>2. k \notin ToSet(d)
    BY <1>1, <1>10
  <2>3. Distinct(Append(d, k)) /\ ToSet(Append(d, k)) = ToSet(d) \cup {k}
    <3>1. Distinct(d) /\ k \in Keys
      BY <1>2, <1>11
    <3> HIDE DEF d
    <3> QED
      BY <2>1, <2>2, <3>1, AppendOne
  <2>4. \A j : j \in ToSet(delivered'[r]) <=> j \in D /\ IsDecoded(r, j)'
    BY <1>1, <1>4, <1>10, <1>13, <2>1, <2>3
  <2>5. Distinct(delivered'[r])
    BY <2>1, <2>3
  <2> QED
    BY <1>1, <1>6, <1>7, <1>9, <1>12, <2>4, <2>5 DEF BufferInv
<1>14. CASE b.count + 1 < b.s
  <2>1. ~IsDecoded(r, k)'
    BY <1>2, <1>4, <1>14
  <2>2. \A j : j \in ToSet(delivered'[r]) <=> j \in D /\ IsDecoded(r, j)'
    BY <1>1, <1>2, <1>4, <1>10, <1>14, <2>1
  <2>3. delivered'[r] = delivered[r]
    BY <1>1, <1>2, <1>14
  <2> QED
    BY <1>1, <1>6, <1>7, <1>9, <1>11, <1>12, <2>2, <2>3 DEF BufferInv
<1> QED
  BY <1>1, <1>13, <1>14

RxInv == RxTypes /\ \A r \in Nodes : BufferInv(r) /\ TimerInv(r)

\* An event of this slot that leaves the states and buffers of u alone.
LEMMA NodeRxKept ==
  ASSUME NodesInv, HearInv, RxInv, NEW u \in Nodes, ReceiverKept(u),
         packetBuffer'[u] = packetBuffer[u], UNCHANGED inRange,
         slot' \in Nat, slot <= slot', air \subseteq air', forgotten \subseteq forgotten'
  PROVE  BufferInv(u)' /\ TimerInv(u)'
<1>1. BufferInv(u) /\ TimerInv(u) /\ RxTypes
  BY DEF RxInv
<1>2. BufferInv(u)'
  BY <1>1, BufferKept
<1>3. TimerInv(u)'
  BY <1>1, TimerKept DEF ReceiverKept
<1> QED
  BY <1>2, <1>3

LEMMA SlotIsNat ==
  ASSUME NodesInv
  PROVE  slot \in Nat /\ slot <= slot
BY DEF NodesInv, MacInv, MacTypes

LEMMA ReceiveStep ==
  ASSUME NodesInv, HearInv, RxInv, NEW m \in inFlight, Receive(m)
  PROVE  RxInv'
<1> DEFINE r == m.to  f == m.frag
<1>1. /\ r \in Nodes /\ f \in air /\ f.slot = slot /\ f.pkt \in Packets /\ RxTypes'
      /\ \A u \in Nodes \ {r} : ReceiverKept(u) /\ packetBuffer'[u] = packetBuffer[u]
      /\ \/ ReceiverKept(r) /\ packetBuffer'[r] = packetBuffer[r]
         \/ \E k : Adds(r, k, f)
  BY ReceiveFacts DEF RxInv
<1>2. UNCHANGED <<inRange, slot, air, forgotten>>
  BY DEF Receive, clockVars, rxVars
<1>3. slot \in Nat /\ slot' \in Nat /\ slot <= slot'
  BY <1>2, SlotIsNat
<1> HIDE DEF r, f
<1>4. \A u \in Nodes \ {r} : BufferInv(u)' /\ TimerInv(u)'
  BY <1>1, <1>2, <1>3, NodeRxKept
<1>5. BufferInv(r)' /\ TimerInv(r)'
  <2>1. CASE ReceiverKept(r) /\ packetBuffer'[r] = packetBuffer[r]
    BY <1>1, <1>2, <1>3, <2>1, NodeRxKept
  <2>2. ASSUME NEW k, Adds(r, k, f)
        PROVE  BufferInv(r)' /\ TimerInv(r)'
    BY <1>1, <1>2, <2>2, ReceiveBuffer DEF RxInv
  <2> QED
    BY <1>1, <2>1, <2>2
<1> QED
  BY <1>1, <1>4, <1>5 DEF RxInv

LEMMA SolveStep ==
  ASSUME NodesInv, HearInv, RxInv, NEW r \in Nodes, SolveSlot(r)
  PROVE  RxInv'
<1> DEFINE x == Head(active[r])
<1>1. UNCHANGED <<inRange, heard, slot, air, forgotten>>
  BY DEF SolveSlot, clockVars
<1>2. /\ RxTypes' /\ UNCHANGED packetBuffer
      /\ \A u \in Nodes \ {r} : ReceiverKept(u)
      /\ \/ /\ slotBuffer'[r] = slotBuffer[r] /\ states'[r] = states[r]
            /\ delivered'[r] = delivered[r]
         \/ /\ slotBuffer'[r] = CleanSlot(r, x) /\ states'[r] = states[r]
            /\ delivered'[r] = delivered[r]
         \/ slotBuffer'[r] = CleanSlot(r, x) /\ \E k : Counts(r, k)
  BY SolveFacts DEF RxInv
<1>3. slot \in Nat /\ slot' \in Nat /\ slot <= slot'
  BY <1>1, SlotIsNat
<1> HIDE DEF x
<1>4. \A u \in Nodes \ {r} : BufferInv(u)' /\ TimerInv(u)'
  BY <1>1, <1>2, <1>3, NodeRxKept
<1>5. BufferInv(r) /\ TimerInv(r) /\ RxTypes /\ heard'[r] = heard[r]
  BY <1>1 DEF RxInv
<1>6. TimerInv(r)'
  <2>1. /\ DOMAIN states'[r] = DOMAIN states[r]
        /\ \A k \in DOMAIN states[r] : states'[r][k].born = states[r][k].born
    BY <1>2 DEF Counts
  <2> QED
    BY <1>1, <1>2, <1>3, <1>5, <2>1, TimerKept
<1>7. CASE /\ slotBuffer'[r] = slotBuffer[r] /\ states'[r] = states[r]
           /\ delivered'[r] = delivered[r]
  <2>1. BufferInv(r)'
    BY <1>1, <1>2, <1>3, <1>5, <1>7, BufferKept DEF ReceiverKept
  <2> QED
    BY <1>2, <1>4, <1>6, <2>1 DEF RxInv
<1>8. CASE /\ slotBuffer'[r] = CleanSlot(r, x) /\ states'[r] = states[r]
           /\ delivered'[r] = delivered[r]
  <2>1. Strong(r)' = Strong(r) /\ \A k : IsDecoded(r, k)' <=> IsDecoded(r, k)
    BY <1>1, <1>5, <1>8 DEF Strong, IsDecoded
  <2>2. \A f \in Strong(r)' : Lost(r, f.slot)' \/ Kept(r, f)'
    BY <1>1, <1>5, <1>8, <2>1, CleanedKeeps
  <2>3. slotBuffer'[r] \subseteq slotBuffer[r]
    BY <1>8, CleanKeeps
  <2>4. BufferInv(r)'
    BY <1>1, <1>5, <1>8, <2>1, <2>2, <2>3 DEF BufferInv
  <2> QED
    BY <1>2, <1>4, <1>6, <2>4 DEF RxInv
<1>9. CASE slotBuffer'[r] = CleanSlot(r, x) /\ \E k : Counts(r, k)
  <2>1. BufferInv(r)'
    BY <1>1, <1>5, <1>9, CountBuffer
  <2> QED
    BY <1>2, <1>4, <1>6, <2>1 DEF RxInv
<1> QED
  BY <1>2, <1>7, <1>8, <1>9

\* What leaves the buffers and the solvers alone.
LEMMA RxKept ==
  ASSUME NodesInv, HearInv, RxInv, UNCHANGED <<phase, slot, inRange, rxVars, delivered>>,
         air \subseteq air'
  PROVE  RxInv'
<1>1. UNCHANGED <<states, packetBuffer, slotBuffer, solvingAsked, active, heard, forgotten>>
  BY DEF rxVars
<1>2. RxTypes'
  BY <1>1 DEF RxInv, RxTypes, SolverInv
<1>3. \A r \in Nodes : BufferInv(r)' /\ TimerInv(r)'
  BY <1>1, SlotIsNat, NodeRxKept DEF ReceiverKept
<1> QED
  BY <1>2, <1>3 DEF RxInv

LEMMA StartSolveStep ==
  ASSUME NodesInv, HearInv, RxInv, NEW r \in Nodes, StartSolve(r)
  PROVE  RxInv'
<1>1. /\ UNCHANGED <<phase, slot, inRange, states, packetBuffer, slotBuffer, heard,
                     delivered, forgotten, air>>
      /\ phase = "solve" /\ solvingAsked' = solvingAsked \ {r}
      /\ active' = [active EXCEPT ![r] = <<slot>>]
  BY DEF StartSolve, clockVars
<1>2. SolverInv'
  <2>1. active' \in [Nodes -> Seq(Nat)]
    BY <1>1 DEF RxInv, RxTypes, SolverInv, NodesInv, MacInv, MacTypes
  <2>2. \A u \in Nodes : active'[u] # <<>> => u \notin solvingAsked'
    BY <1>1 DEF RxInv, RxTypes, SolverInv
  <2> QED
    BY <1>1, <2>1, <2>2 DEF RxInv, RxTypes, SolverInv
<1>3. RxTypes'
  BY <1>1, <1>2 DEF RxInv, RxTypes
<1>4. \A u \in Nodes : BufferInv(u)' /\ TimerInv(u)'
  BY <1>1, SlotIsNat, NodeRxKept DEF ReceiverKept
<1> QED
  BY <1>3, <1>4 DEF RxInv

\* A state leaves the buffer when its time is up.
LEMMA PacketExpiryStep ==
  ASSUME NodesInv, HearInv, RxInv, NEW r \in Nodes, NEW k \in packetBuffer[r],
         DeletePacketState(r, k)
  PROVE  RxInv'
<1>1. /\ UNCHANGED <<phase, slot, inRange, states, slotBuffer, solvingAsked, active, heard,
                     delivered, forgotten, air>>
      /\ packetBuffer' = [packetBuffer EXCEPT ![r] = @ \ {k}]
      /\ slot = states[r][k].born + Timeout
  BY DEF DeletePacketState, PacketStateDue, clockVars
<1>2. packetBuffer \in [Nodes -> SUBSET Keys]
  BY DEF RxInv, RxTypes
<1>3. packetBuffer' \in [Nodes -> SUBSET Keys] /\ packetBuffer'[r] = packetBuffer[r] \ {k}
      /\ \A u \in Nodes \ {r} : packetBuffer'[u] = packetBuffer[u]
  BY <1>1, <1>2
<1>4. RxTypes'
  BY <1>1, <1>3 DEF RxInv, RxTypes, SolverInv
<1>5. \A u \in Nodes : BufferInv(u)'
  BY <1>1, SlotIsNat, BufferKept DEF RxInv, ReceiverKept
<1>6. \A u \in Nodes \ {r} : TimerInv(u)'
  BY <1>1, <1>3, SlotIsNat, NodeRxKept DEF ReceiverKept
<1>7. TimerInv(r)'
  <2>1. \A p : WithinTimeout(p)' <=> WithinTimeout(p)
    BY <1>1 DEF WithinTimeout
  <2>2. TimerInv(r) /\ states[r][k].born + Timeout <= slot
    BY <1>1, SlotIsNat DEF RxInv
  <2> QED
    BY <1>1, <1>3, <2>1, <2>2 DEF TimerInv
<1> QED
  BY <1>4, <1>5, <1>6, <1>7 DEF RxInv

\* A slot state goes with the signals in it.
LEMMA SlotExpiryStep ==
  ASSUME NodesInv, HearInv, RxInv, NEW r \in Nodes, DeleteSlotState(r)
  PROVE  RxInv'
<1>1. /\ UNCHANGED <<phase, slot, inRange, states, packetBuffer, solvingAsked, active, heard,
                     delivered, air>>
      /\ slotBuffer' = [slotBuffer EXCEPT ![r] = {e \in @ : ~SlotStateDue(e)}]
      /\ forgotten' = forgotten \cup {r}
  BY DEF DeleteSlotState, clockVars
<1>2. slotBuffer \in [Nodes -> SUBSET [slot : Nat, key : Keys]] /\ BufferInv(r)
  BY DEF RxInv, RxTypes
<1>3. /\ slotBuffer' \in [Nodes -> SUBSET [slot : Nat, key : Keys]]
      /\ slotBuffer'[r] = {e \in slotBuffer[r] : ~SlotStateDue(e)}
      /\ \A u \in Nodes \ {r} : slotBuffer'[u] = slotBuffer[u]
  BY <1>1, <1>2
<1>4. RxTypes'
  BY <1>1, <1>3 DEF RxInv, RxTypes, SolverInv
<1>5. \A u \in Nodes \ {r} : BufferInv(u)'
  BY <1>1, <1>3, SlotIsNat, BufferKept DEF RxInv, ReceiverKept
<1>6. \A u \in Nodes : TimerInv(u)'
  BY <1>1, SlotIsNat, TimerKept DEF RxInv
<1>7. \A k : IsDecoded(r, k)' <=> IsDecoded(r, k)
  BY <1>1 DEF IsDecoded
<1>8. ASSUME NEW f \in Strong(r)
      PROVE  Lost(r, f.slot)' \/ Kept(r, f)'
  <2>1. CASE Lost(r, f.slot)
    BY <1>1, <1>3, <2>1 DEF Lost
  <2>2. CASE Kept(r, f)
    <3>1. PICK k \in DOMAIN states[r] :
            /\ IsOf(k, f.pkt)
            /\ [slot |-> f.slot, key |-> k] \in slotBuffer[r] \/ IsDecoded(r, k)
      BY <2>2 DEF Kept
    <3> DEFINE e == [slot |-> f.slot, key |-> k]
    <3>2. e.slot = f.slot
      OBVIOUS
    <3>3. CASE e \in slotBuffer'[r] \/ IsDecoded(r, k)
      <4>1. Kept(r, f)'
        BY <1>1, <1>7, <3>1, <3>3 DEF Kept
      <4> QED
        BY <4>1
    <3> HIDE DEF e
    <3>4. CASE e \notin slotBuffer'[r] /\ e \in slotBuffer[r]
      <4>1. slot = f.slot + Timeout
        BY <1>3, <3>2, <3>4 DEF SlotStateDue
      <4>2. \A d \in slotBuffer'[r] : d.slot # f.slot
        BY <1>3, <4>1 DEF SlotStateDue
      <4>3. f.slot + Timeout <= slot' /\ r \in forgotten'
        BY <1>1, <4>1, SlotIsNat
      <4> QED
        BY <4>2, <4>3 DEF Lost
    <3> QED
      BY <3>1, <3>3, <3>4 DEF e
  <2> QED
    BY <1>2, <2>1, <2>2 DEF BufferInv
<1>9. BufferInv(r)'
  <2>1. Strong(r)' = Strong(r) /\ slotBuffer'[r] \subseteq slotBuffer[r]
    BY <1>1, <1>3 DEF Strong
  <2> QED
    BY <1>1, <1>2, <1>7, <1>8, <2>1 DEF BufferInv
<1> QED
  BY <1>4, <1>5, <1>6, <1>9 DEF RxInv

LEMMA TickRx ==
  ASSUME NodesInv, HearInv, RxInv, Tick
  PROVE  RxInv'
<1>1. UNCHANGED <<inRange, states, packetBuffer, slotBuffer, solvingAsked, active, heard,
                  delivered, forgotten, air>>
  BY DEF Tick, rxVars
<1>2. SolverInv'
  <2>1. CASE phase = "boundary" /\ phase' = "flight" /\ UNCHANGED slot
    <3>1. ASSUME NEW r \in Nodes, NEW f \in heard[r]
          PROVE  f.slot # slot
      <4>1. f \in air /\ f.pkt.src # r /\ f.slot \in Nat
        BY HeardFacts
      <4>2. [to |-> r, frag |-> f] \notin inFlight
        BY DEF HearInv
      <4>3. f.slot < slot /\ slot \in Nat
        BY <2>1, <4>1, <4>2 DEF HearInv, NodesInv, MacInv, MacTypes
      <4> QED
        BY <4>1, <4>3
    <3>2. \A r \in Nodes : active[r] = <<>>
      BY <2>1 DEF RxInv, RxTypes, SolverInv
    <3> QED
      BY <1>1, <2>1, <3>1, <3>2 DEF RxInv, RxTypes, SolverInv
  <2>2. CASE phase = "flight" /\ phase' = "solve"
    BY <1>1, <2>2 DEF RxInv, RxTypes, SolverInv
  <2>3. CASE phase = "solve" /\ phase' = "boundary" /\ solvingAsked = {} /\ SolversIdle
    BY <1>1, <2>3 DEF RxInv, RxTypes, SolverInv, SolversIdle
  <2> QED
    BY <2>1, <2>2, <2>3 DEF Tick
<1>3. RxTypes'
  BY <1>1, <1>2 DEF RxInv, RxTypes
<1>4. slot' \in Nat /\ slot <= slot'
  <2>1. slot \in Nat /\ (slot' = slot \/ slot' = slot + 1)
    BY SlotIsNat DEF Tick
  <2> QED
    BY <2>1
<1>5. \A r \in Nodes : BufferInv(r)' /\ TimerInv(r)'
  BY <1>1, <1>4, NodeRxKept DEF ReceiverKept
<1> QED
  BY <1>3, <1>5 DEF RxInv

LEMMA RxInvStep ==
  ASSUME NodesInv, HearInv, RxInv, [Next]_vars
  PROVE  RxInv'
<1>1. CASE UNCHANGED vars
  BY <1>1, RxKept DEF vars, clockVars
<1>2. ASSUME NEW v \in Talkers, Traffic(v) PROVE RxInv'
  BY <1>2, RxKept DEF Traffic, Enqueue, clockVars
<1>3. ASSUME NEW v \in Nodes, Dequeue(v) PROVE RxInv'
  BY <1>3, RxKept DEF Dequeue, clockVars
<1>4. ASSUME NEW v \in Nodes, StartSend(v) PROVE RxInv'
  BY <1>4, RxKept DEF StartSend, clockVars
<1>5. ASSUME NEW v \in Nodes, EndSend(v) PROVE RxInv'
  BY <1>5, RxKept DEF EndSend, clockVars
<1>6. ASSUME NEW r \in Nodes, StartSolve(r) PROVE RxInv'
  BY <1>6, StartSolveStep
<1>7. ASSUME NEW r \in Nodes, SolveSlot(r) PROVE RxInv'
  BY <1>7, SolveStep
<1>8. ASSUME NEW m \in inFlight, Receive(m) PROVE RxInv'
  BY <1>8, ReceiveStep
<1>9. CASE Tick
  BY <1>9, TickRx
<1>10. ASSUME NEW r \in Nodes, NEW k \in packetBuffer[r], DeletePacketState(r, k)
       PROVE  RxInv'
  BY <1>10, PacketExpiryStep
<1>11. ASSUME NEW r \in Nodes, DeleteSlotState(r) PROVE RxInv'
  BY <1>11, SlotExpiryStep
<1> QED
  BY <1>1, <1>2, <1>3, <1>4, <1>5, <1>6, <1>7, <1>8, <1>9, <1>10, <1>11 DEF Next

LEMMA RxInvInit == Init => RxInv
<1> SUFFICES ASSUME Init PROVE RxInv
  OBVIOUS
<1>1. <<>> \in [{} -> States] /\ {} \in SUBSET Keys
  OBVIOUS
<1>2. <<>> \in Buffers
  BY <1>1, BufferTypes
<1>3. SolverInv
  BY DEF Init, SolverInv
<1>4. RxTypes
  BY <1>2, <1>3 DEF Init, RxTypes
<1>5. ASSUME NEW r \in Nodes PROVE BufferInv(r) /\ TimerInv(r)
  <2>1. /\ states[r] = <<>> /\ slotBuffer[r] = {} /\ heard[r] = {}
        /\ delivered[r] = <<>> /\ packetBuffer[r] = {}
    BY DEF Init
  <2>2. DOMAIN states[r] = {} /\ ToSet(delivered[r]) = {} /\ Distinct(delivered[r])
    BY <2>1 DEF ToSet, Distinct
  <2> QED
    BY <2>1, <2>2 DEF BufferInv, TimerInv, Strong
<1> QED
  BY <1>4, <1>5 DEF RxInv

-----------------------------------------------------------------------------
(* Type correctness *)

QueueInv == \A v \in Nodes : Len(queue[v]) <= QueueSize

LEMMA QueueInvStep ==
  ASSUME NodesInv, QueueInv, [Next]_vars
  PROVE  QueueInv'
<1>1. MacInv /\ queue \in [Nodes -> Seq(Tids)] /\ QueueSize \in Nat
  BY NetAssumption DEF NodesInv, MacInv, MacTypes
<1>2. CASE UNCHANGED queue
  BY <1>2 DEF QueueInv
<1>3. ASSUME NEW v \in Talkers, Traffic(v) PROVE QueueInv'
  <2>1. v \in Nodes
    BY NetAssumption
  <2>2. PICK t \in Tids :
          \/ UNCHANGED queue
          \/ Len(queue[v]) < QueueSize /\ queue' = [queue EXCEPT ![v] = Append(@, t)]
    BY <1>1, <1>3, <2>1, TrafficFacts
  <2>3. CASE Len(queue[v]) < QueueSize /\ queue' = [queue EXCEPT ![v] = Append(@, t)]
    <3>1. Len(Append(queue[v], t)) <= QueueSize
      BY <1>1, <2>1, <2>3
    <3> QED
      BY <1>1, <2>1, <2>3, <3>1 DEF QueueInv
  <2> QED
    BY <1>2, <2>2, <2>3
<1>4. ASSUME NEW v \in Nodes, Dequeue(v) PROVE QueueInv'
  <2>1. CASE queue[v] # <<>> /\ queue' = [queue EXCEPT ![v] = Tail(@)]
    <3>1. Len(Tail(queue[v])) <= QueueSize
      <4>1. queue[v] \in Seq(Tids) /\ Len(queue[v]) <= QueueSize
        BY <1>1 DEF QueueInv
      <4> QED
        BY <1>1, <2>1, <4>1
    <3> QED
      BY <1>1, <2>1, <3>1 DEF QueueInv
  <2> QED
    BY <1>2, <1>4, <2>1 DEF Dequeue
<1> QED
  BY <1>2, <1>3, <1>4 DEF Next, vars, macVars, StartSend, EndSend, StartSolve, SolveSlot,
     Receive, DeletePacketState, DeleteSlotState, Tick

Inv == NodesInv /\ HearInv /\ RxInv /\ QueueInv

LEMMA InvInit == Init => Inv
<1>1. Init => QueueInv
  BY NetAssumption DEF Init, QueueInv
<1> QED
  BY <1>1, NodesInvInit, HearInvInit, RxInvInit DEF Inv

LEMMA InvStep == Inv /\ [Next]_vars => Inv'
BY NodesInvStep, HearInvStep, RxInvStep, QueueInvStep DEF Inv

LEMMA InvHolds == Spec => []Inv
BY InvInit, InvStep, PTL DEF Spec

\* A timer fires.
Expiry ==
  \/ \E r \in Nodes : \E k \in packetBuffer[r] : DeletePacketState(r, k)
  \/ \E r \in Nodes : DeleteSlotState(r)

LEMMA ExpiryFacts ==
  ASSUME Expiry
  PROVE  UNCHANGED <<slot, phase, inRange, macVars, inFlight, states, solvingAsked, active,
                     heard, txCount, rxCount, air, delivered>>
BY DEF Expiry, DeletePacketState, DeleteSlotState, clockVars

\* Type correctness of the network: a sleeping node has nothing queued, no state
\* counts more fragments than its packet needs, and what a node has in its buffer
\* was sent by another one.
THEOREM TypeCorrect == Spec => []TypeOK
<1>1. Inv => TypeOK
  <2> SUFFICES ASSUME Inv PROVE TypeOK
    OBVIOUS
  <2>1. NodesInv /\ MacTypes /\ HearInv /\ RxInv
    BY DEF Inv, NodesInv, MacInv
  <2>2. ASSUME NEW v \in Nodes, NEW k \in DOMAIN states[v]
        PROVE  /\ k[1] # v /\ k[2] < seqNo[k[1]]
               /\ states[v][k].count <= states[v][k].s
    <3>1. PICK f \in heard[v] : /\ IsOf(k, f.pkt) /\ StateOf(f.pkt, states[v][k])
                                /\ states[v][k].count <= f.pkt.s
      BY <2>1 DEF RxInv, BufferInv
    <3>2. f.pkt.src \in Nodes \ {v} /\ f.pkt.seq < seqNo[f.pkt.src]
      BY <2>1, HeardFacts
    <3> QED
      BY <3>1, <3>2 DEF IsOf, StateOf
  <2>3. ASSUME NEW v \in Nodes
        PROVE  /\ Len(queue[v]) <= QueueSize /\ ToSet(queue[v]) \subseteq Tids
               /\ isSleeping[v] => queue[v] = <<>>
               /\ isTx[v] \in BOOLEAN /\ packetBuffer[v] \subseteq DOMAIN states[v]
    BY <2>1, ToSetFacts DEF Inv, QueueInv, NodesInv, MacInv, MacTypes, SendInv, WakeInv,
       RxInv, TimerInv
  <2>4. \A m \in inFlight : m.to # m.frag.pkt.src /\ m.frag \in air
    BY <2>1 DEF HearInv
  <2> QED
    BY <2>1, <2>2, <2>3, <2>4 DEF TypeOK, MacTypes
<1> QED
  BY <1>1, InvHolds, PTL

-----------------------------------------------------------------------------
(* Every node implements the abstract sender *)

\* A packet handed down is counted before the queue decides, so the sequence
\* numbers used and those of the queue stay within what was handed down.
TrafficInv ==
  /\ txCount \in [Nodes -> [Tids -> Nat]]
  /\ \A v \in Nodes : seqNo[v] + Len(queue[v]) <= SumFunction(txCount[v])

LEMMA CountedOnce ==
  ASSUME NEW c \in [Tids -> Nat], NEW t \in Tids
  PROVE  /\ SumFunction(c) \in Nat
         /\ SumFunction([c EXCEPT ![t] = @ + 1]) = SumFunction(c) + 1
<1> DEFINE d == [c EXCEPT ![t] = @ + 1]
<1>1. DOMAIN c = Tids /\ DOMAIN d = Tids /\ IsFiniteSet(Tids)
  BY NetAssumption
<1>2. SumFunction(c) = Sum(c, Tids) /\ SumFunction(d) = Sum(d, Tids)
  BY <1>1 DEF SumFunction, Sum
<1>3. Weights(c, Tids)
  BY DEF Weights
<1>4. d[t] = c[t] + 1 /\ \A s \in Tids \ {t} : d[s] = c[s]
  OBVIOUS
<1> HIDE DEF d
<1>5. Sum(d, Tids) = Sum(c, Tids) + 1 /\ Sum(c, Tids) \in Nat
  BY <1>1, <1>3, <1>4, SumIncrement, SumType
<1> QED
  BY <1>2, <1>5 DEF d

LEMMA TrafficInvStep ==
  ASSUME NodesInv, TrafficInv, [Next]_vars
  PROVE  TrafficInv'
<1>1. MacInv /\ MacTypes
  BY DEF NodesInv, MacInv
<1>2. CASE UNCHANGED <<txCount, seqNo, queue>>
  BY <1>2 DEF TrafficInv
<1>3. ASSUME NEW v \in Talkers, Traffic(v) PROVE TrafficInv'
  <2>1. v \in Nodes
    BY NetAssumption
  <2>2. PICK t \in Tids :
          /\ txCount' = [txCount EXCEPT ![v][t] = @ + 1]
          /\ UNCHANGED queue \/ queue' = [queue EXCEPT ![v] = Append(@, t)]
    BY <1>1, <1>3, <2>1, TrafficFacts
  <2> DEFINE c == [txCount[v] EXCEPT ![t] = @ + 1]
  <2>3. txCount[v] \in [Tids -> Nat] /\ txCount' = [txCount EXCEPT ![v] = c]
    BY <2>1, <2>2 DEF TrafficInv
  <2>4. c \in [Tids -> Nat] /\ SumFunction(c) = SumFunction(txCount[v]) + 1
        /\ SumFunction(txCount[v]) \in Nat
    BY <2>3, CountedOnce
  <2> HIDE DEF c
  <2>5. /\ txCount' \in [Nodes -> [Tids -> Nat]] /\ txCount'[v] = c
        /\ \A u \in Nodes \ {v} : txCount'[u] = txCount[u]
    BY <2>1, <2>3, <2>4 DEF TrafficInv
  <2>6. seqNo' = seqNo /\ Len(queue'[v]) <= Len(queue[v]) + 1 /\ Len(queue'[v]) \in Nat
        /\ Len(queue[v]) \in Nat /\ seqNo[v] \in Nat
        /\ \A u \in Nodes \ {v} : queue'[u] = queue[u]
    <3>1. queue[v] \in Seq(Tids) /\ seqNo' = seqNo
      BY <1>1, <1>3, <2>1 DEF MacTypes, Traffic, Enqueue
    <3> QED
      BY <1>1, <2>1, <2>2, <3>1 DEF MacTypes
  <2>7. seqNo[v] + Len(queue[v]) <= SumFunction(txCount[v])
    BY <2>1 DEF TrafficInv
  <2>8. seqNo[v] + Len(queue'[v]) <= SumFunction(c)
    BY <2>4, <2>6, <2>7
  <2> QED
    BY <2>5, <2>6, <2>8 DEF TrafficInv
<1>4. ASSUME NEW v \in Nodes, Dequeue(v) PROVE TrafficInv'
  <2>1. UNCHANGED txCount
    BY <1>4 DEF Dequeue
  <2>2. CASE /\ queue[v] # <<>> /\ queue' = [queue EXCEPT ![v] = Tail(@)]
             /\ seqNo' = [seqNo EXCEPT ![v] = @ + 1]
    <3>1. queue[v] \in Seq(Tids) /\ seqNo[v] \in Nat
      BY <1>1 DEF MacTypes
    <3>2. Len(Tail(queue[v])) = Len(queue[v]) - 1 /\ Len(queue[v]) \in Nat
      BY <2>2, <3>1
    <3>3. /\ seqNo'[v] = seqNo[v] + 1 /\ queue'[v] = Tail(queue[v])
          /\ \A u \in Nodes \ {v} : queue'[u] = queue[u] /\ seqNo'[u] = seqNo[u]
      BY <1>1, <2>2 DEF MacTypes
    <3>4. seqNo'[v] + Len(queue'[v]) = seqNo[v] + Len(queue[v])
      BY <3>1, <3>2, <3>3
    <3> QED
      BY <2>1, <3>3, <3>4 DEF TrafficInv
  <2>3. CASE UNCHANGED <<queue, seqNo>>
    BY <1>2, <2>1, <2>3
  <2> QED
    BY <1>4, <2>2, <2>3 DEF Dequeue
<1> QED
  BY <1>2, <1>3, <1>4 DEF Next, vars, macVars, StartSend, EndSend, StartSolve, SolveSlot,
     Receive, DeletePacketState, DeleteSlotState, Tick

LEMMA TrafficInvInit == Init => TrafficInv
<1> SUFFICES ASSUME Init PROVE TrafficInv
  OBVIOUS
<1>1. txCount \in [Nodes -> [Tids -> Nat]]
  BY DEF Init
<1>2. ASSUME NEW v \in Nodes
      PROVE  seqNo[v] + Len(queue[v]) <= SumFunction(txCount[v])
  <2>1. seqNo[v] + Len(queue[v]) = 0
    BY DEF Init
  <2>2. SumFunction(txCount[v]) \in Nat
    <3> DEFINE c == txCount[v]
    <3>1. c \in [Tids -> Nat] /\ DOMAIN c = Tids /\ IsFiniteSet(Tids)
      BY <1>1, NetAssumption
    <3> HIDE DEF c
    <3>2. Weights(c, Tids)
      BY <3>1 DEF Weights
    <3>3. Sum(c, Tids) \in Nat
      BY <3>1, <3>2, SumType
    <3>4. SumFunction(c) = Sum(c, Tids)
      BY <3>1 DEF SumFunction, Sum
    <3> QED
      BY <3>3, <3>4 DEF c
  <2> QED
    BY <2>1, <2>2
<1> QED
  BY <1>1, <1>2 DEF TrafficInv

\* The abstract sender of u in terms of the invariants.
LEMMA SenderFacts ==
  ASSUME NEW u
  PROVE  /\ Booked(u) = {[pkt |-> Named(e.pkt), slot |-> e.at] : e \in Starts(u)}
         /\ Sent(u) = {[pkt |-> Named(f.pkt), slot |-> f.slot] : f \in OnAir(u)}
         /\ Booked(u)' = {[pkt |-> Named(e.pkt), slot |-> e.at] : e \in Starts(u)'}
         /\ Sent(u)' = {[pkt |-> Named(f.pkt), slot |-> f.slot] : f \in OnAir(u)'}
BY DEF Booked, Sent, Starts, Pending, OnAir

SenderStep(u) == UNCHANGED Sender(u)!vars \/ Sender(u)!Next

LEMMA SenderKept ==
  ASSUME NEW u, Starts(u)' = Starts(u), OnAir(u)' = OnAir(u),
         queue'[u] = queue[u], seqNo'[u] = seqNo[u]
  PROVE  SenderStep(u)
<1>1. Booked(u)' = Booked(u) /\ Sent(u)' = Sent(u)
  BY SenderFacts
<1>2. Waiting(u)' = Waiting(u)
  BY DEF Waiting
<1> QED
  BY <1>1, <1>2 DEF SenderStep, Sender!vars

\* Who leaves the events of other nodes alone lets their senders stutter.
LEMMA OtherSenders ==
  ASSUME MacTypes, NEW v, NEW e, NEW N, Replaced(e, N),
         e \in ToSet(events) => e.node = v, \A f \in N : f.node = v, OthersKept(v)
  PROVE  \A u \in Nodes \ {v} : SenderStep(u)
<1> SUFFICES ASSUME NEW u \in Nodes, u # v PROVE SenderStep(u)
  OBVIOUS
<1>1. Starts(u)' = Starts(u)
  BY OthersEvents
<1>2. OnAir(u)' = OnAir(u) /\ queue'[u] = queue[u] /\ seqNo'[u] = seqNo[u]
  BY DEF OthersKept
<1> QED
  BY <1>1, <1>2, SenderKept

LEMMA SameElements ==
  ASSUME NEW S, NEW s \in Seq(S), NEW t \in Seq(S), Len(s) = Len(t),
         \A i \in 1..Len(s) : s[i] = t[i]
  PROVE  s = t
OBVIOUS

\* A packet the queue takes is new to the abstract sender.
LEMMA TrafficRefines ==
  ASSUME NodesInv, TrafficInv, NEW v \in Nodes, Traffic(v)
  PROVE  \A u \in Nodes : SenderStep(u)
<1>1. MacInv /\ MacTypes /\ MaxPackets \in Nat
  BY NetAssumption DEF NodesInv, MacInv
<1>2. UNCHANGED <<seqNo, air>>
  BY DEF Traffic, Enqueue
<1>3. PICK t \in Tids :
        /\ SumFunction(txCount[v]) < MaxPackets
        /\ \/ UNCHANGED <<queue, events>>
           \/ /\ queue' = [queue EXCEPT ![v] = Append(@, t)]
              /\ \/ UNCHANGED events
                 \/ \E x \in Nat :
                      Replaced(Event("Dequeue", v, x, NoPacket),
                               {Event("Dequeue", v, x, NoPacket)})
                      /\ Event("Dequeue", v, x, NoPacket) \notin ToSet(events)
  BY <1>1, TrafficFacts
<1>4. \A u : OnAir(u)' = OnAir(u)
  BY <1>2 DEF OnAir
<1>5. \A u : Starts(u)' = Starts(u)
  <2>1. CASE UNCHANGED events
    BY <2>1 DEF Starts, Pending
  <2>2. ASSUME NEW x \in Nat,
               Replaced(Event("Dequeue", v, x, NoPacket),
                        {Event("Dequeue", v, x, NoPacket)})
        PROVE  \A u : Starts(u)' = Starts(u)
    <3> DEFINE d == Event("Dequeue", v, x, NoPacket)
    <3>1. ToSet(events') = (ToSet(events) \ {d}) \cup {d} /\ d.op = "Dequeue"
      BY <2>2, EventFields DEF Replaced
    <3> HIDE DEF d
    <3> QED
      BY <3>1 DEF Starts, Pending
  <2> QED
    BY <1>3, <2>1, <2>2
<1>6. \A u \in Nodes \ {v} : SenderStep(u)
  <2>1. \A u \in Nodes \ {v} : queue'[u] = queue[u] /\ seqNo'[u] = seqNo[u]
    BY <1>1, <1>2, <1>3 DEF MacTypes
  <2> QED
    BY <1>4, <1>5, <2>1, SenderKept
<1>7. SenderStep(v)
  <2>1. CASE UNCHANGED queue
    BY <1>2, <1>4, <1>5, <2>1, SenderKept
  <2>2. CASE queue' = [queue EXCEPT ![v] = Append(@, t)]
    <3> DEFINE q == queue[v]  n == seqNo[v]
               p == [seq |-> n + Len(q), tid |-> t]
               w == [i \in DOMAIN q |-> [seq |-> n + i - 1, tid |-> q[i]]]
               z == [i \in DOMAIN Append(q, t) |->
                       [seq |-> n + i - 1, tid |-> Append(q, t)[i]]]
    <3>1. q \in Seq(Tids) /\ n \in Nat /\ Len(q) \in Nat
      BY <1>1 DEF MacTypes
    <3>2. Waiting(v) = w /\ Waiting(v)' = z
      BY <1>1, <1>2, <2>2 DEF Waiting, MacTypes
    <3>3. z = Append(w, p)
      <4>1. DOMAIN q = 1..Len(q) /\ DOMAIN Append(q, t) = 1..(Len(q) + 1)
        BY <3>1
      <4>2. \A i \in 1..Len(q) : Append(q, t)[i] = q[i]
        BY <3>1
      <4>3. Append(q, t)[Len(q) + 1] = t /\ n + (Len(q) + 1) - 1 = n + Len(q)
        BY <3>1
      <4>4. w \in Seq([seq : Int, tid : Tids]) /\ Len(w) = Len(q)
        BY <3>1, <4>1
      <4>5. p \in [seq : Int, tid : Tids]
        BY <3>1
      <4>6. \A i \in 1..(Len(q) + 1) :
              z[i] = IF i = Len(q) + 1 THEN p ELSE w[i]
        BY <3>1, <4>1, <4>2, <4>3
      <4>7. z \in Seq([seq : Int, tid : Tids]) /\ Len(z) = Len(q) + 1
        <5>1. \A i \in 1..(Len(q) + 1) : Append(q, t)[i] \in Tids
          BY <3>1
        <5> QED
          BY <3>1, <4>1, <5>1
      <4> HIDE DEF w, p, z
      <4>8. /\ Append(w, p) \in Seq([seq : Int, tid : Tids])
            /\ Len(Append(w, p)) = Len(q) + 1
            /\ \A i \in 1..(Len(q) + 1) :
                 Append(w, p)[i] = IF i = Len(q) + 1 THEN p ELSE w[i]
        BY <3>1, <4>4, <4>5
      <4> QED
        BY <4>6, <4>7, <4>8, SameElements
    <3>4. \A i \in DOMAIN w : w[i] # p
      <4>1. \A i \in DOMAIN w : w[i].seq = n + i - 1 /\ i \in 1..Len(q)
        BY <3>1
      <4>2. p.seq = n + Len(q)
        OBVIOUS
      <4> HIDE DEF w, p
      <4> QED
        BY <3>1, <4>1, <4>2
    <3>5. \A b \in Booked(v) \cup Sent(v) : b.pkt # p
      <4>1. \A k \in Taken(v) : k.seq < n /\ k.seq \in Nat
        <5>1. \A k \in Taken(v) : k.seq < n
          BY DEF NodesInv, MacInv, SendInv, TakenInv
        <5>2. \A f \in OnAir(v) : f.pkt.seq \in Nat
          BY <1>1, AirTypes DEF OnAir
        <5>3. \A e \in Starts(v) : e.pkt.seq \in Nat
          BY DEF NodesInv, MacInv, SendInv, StartInv, Packets
        <5> QED
          BY <5>1, <5>2, <5>3 DEF Taken
      <4>2. \A b \in Booked(v) \cup Sent(v) : \E k \in Taken(v) : b.pkt = Named(k)
        BY SenderFacts DEF Taken
      <4>3. \A k : Named(k).seq = k.seq
        BY DEF Named
      <4>4. p.seq = n + Len(q)
        OBVIOUS
      <4> HIDE DEF p
      <4> QED
        BY <3>1, <4>1, <4>2, <4>3, <4>4
    <3>6. p \in [seq : 0..MaxPackets, tid : Tids]
      <4>1. n + Len(q) <= SumFunction(txCount[v]) /\ SumFunction(txCount[v]) \in Nat
        <5>1. txCount[v] \in [Tids -> Nat]
          BY DEF TrafficInv
        <5> QED
          BY <5>1, CountedOnce DEF TrafficInv
      <4> QED
        BY <1>1, <1>3, <3>1, <4>1
    <3>7. Booked(v)' = Booked(v) /\ Sent(v)' = Sent(v)
      BY <1>4, <1>5, SenderFacts
    <3> HIDE DEF w, z, p
    <3>8. p \notin Sender(v)!InSystem
      BY <3>2, <3>4, <3>5 DEF Sender!InSystem
    <3>9. Sender(v)!Accept(p)
      BY <3>2, <3>3, <3>7, <3>8 DEF Sender!Accept
    <3> QED
      BY <3>6, <3>9 DEF SenderStep, Sender!Next
  <2> QED
    BY <1>3, <2>1, <2>2
<1> QED
  BY <1>6, <1>7

\* What is numbered from 1 to n, once each, has n elements.
LEMMA CardinalityOfImage ==
  ASSUME NEW n \in Nat, NEW B, NEW f \in Bijection(1..n, B)
  PROVE  Cardinality(B) = n
<1>1. IsFiniteSet(1..n) /\ Cardinality(1..n) = n
  BY FS_Interval, n \in Int, n = 0 \/ ~(1 > n), n - 1 + 1 = n
<1>2. ExistsBijection(1..n, B)
  BY DEF ExistsBijection
<1> QED
  BY <1>1, <1>2, FS_Bijection

\* The packets of the queue q, when n is the next sequence number.
Numbered(n, q) == [i \in DOMAIN q |-> [seq |-> n + i - 1, tid |-> q[i]]]

LEMMA NumberedFacts ==
  ASSUME NEW T, NEW q \in Seq(T), NEW n \in Nat
  PROVE  /\ Numbered(n, q) \in Seq([seq : Int, tid : T])
         /\ Len(Numbered(n, q)) = Len(q)
         /\ \A i \in 1..Len(q) : Numbered(n, q)[i] = [seq |-> n + i - 1, tid |-> q[i]]
<1>1. Len(q) \in Nat /\ DOMAIN q = 1..Len(q) /\ \A i \in 1..Len(q) : q[i] \in T
  OBVIOUS
<1>2. \A i \in 1..Len(q) : [seq |-> n + i - 1, tid |-> q[i]] \in [seq : Int, tid : T]
  BY <1>1
<1>3. Numbered(n, q) = [i \in 1..Len(q) |-> [seq |-> n + i - 1, tid |-> q[i]]]
  BY <1>1 DEF Numbered
<1> QED
  BY <1>1, <1>2, <1>3

\* The packet at the front gets the number n.
LEMMA NumberedTail ==
  ASSUME NEW T, NEW q \in Seq(T), NEW n \in Nat, q # <<>>
  PROVE  /\ Numbered(n, q) # <<>>
         /\ Head(Numbered(n, q)) = [seq |-> n, tid |-> Head(q)]
         /\ Tail(Numbered(n, q)) = Numbered(n + 1, Tail(q))
<1> DEFINE S == [seq : Int, tid : T]  w == Numbered(n, q)  t == Tail(q)
           z == Numbered(n + 1, t)  m == Len(q)
<1>1. m \in Nat /\ m > 0 /\ 1 \in 1..m /\ Head(q) = q[1] /\ n + 1 - 1 = n
  OBVIOUS
<1>2. /\ t \in Seq(T) /\ Len(t) = m - 1
      /\ \A i \in 1..(m - 1) : t[i] = q[i + 1] /\ i + 1 \in 1..m
  <2>1. t \in Seq(T) /\ Len(t) = m - 1
    OBVIOUS
  <2>2. \A i \in 1..(m - 1) : t[i] = q[i + 1]
    BY <1>1
  <2>3. \A i \in 1..(m - 1) : i + 1 \in 1..m
    <3> HIDE DEF m
    <3> QED
      BY <1>1
  <2> QED
    BY <2>1, <2>2, <2>3
<1>3. /\ w \in Seq(S) /\ Len(w) = m
      /\ \A i \in 1..m : w[i] = [seq |-> n + i - 1, tid |-> q[i]]
  <2>1. w \in Seq(S)
    BY NumberedFacts
  <2>2. Len(w) = m
    BY NumberedFacts
  <2>3. \A i \in 1..m : w[i] = [seq |-> n + i - 1, tid |-> q[i]]
    <3>1. DOMAIN q = 1..m
      OBVIOUS
    <3> QED
      BY ONLY <3>1 DEF Numbered
  <2> QED
    BY <2>1, <2>2, <2>3
<1> HIDE DEF t
<1>4. /\ z \in Seq(S) /\ Len(z) = m - 1
      /\ \A i \in 1..(m - 1) : z[i] = [seq |-> (n + 1) + i - 1, tid |-> t[i]]
  <2>1. n + 1 \in Nat
    OBVIOUS
  <2> QED
    BY <1>2, <2>1, NumberedFacts
<1> HIDE DEF w, z, S, m
<1>5. \A i \in 1..(m - 1) : z[i] = w[i + 1]
  <2> SUFFICES ASSUME NEW i \in 1..(m - 1) PROVE z[i] = w[i + 1]
    OBVIOUS
  <2>1. w[i + 1] = [seq |-> n + (i + 1) - 1, tid |-> q[i + 1]]
    BY <1>2, <1>3
  <2>2. n + (i + 1) - 1 = (n + 1) + i - 1
    BY <1>1
  <2> QED
    BY <1>2, <1>4, <2>1, <2>2
<1>6. /\ w # <<>> /\ Head(w) = w[1] /\ Tail(w) \in Seq(S) /\ Len(Tail(w)) = m - 1
      /\ \A i \in 1..(m - 1) : Tail(w)[i] = w[i + 1]
  BY <1>1, <1>3
<1>7. Tail(w) = z
  <2> DEFINE a == Tail(w)
  <2>1. /\ a \in Seq(S) /\ z \in Seq(S) /\ Len(a) = Len(z)
        /\ \A i \in 1..Len(a) : a[i] = z[i]
    BY <1>4, <1>5, <1>6
  <2> HIDE DEF a
  <2>2. a = z
    BY <2>1, SameElements
  <2> QED
    BY <2>2 DEF a
<1>8. w[1] = [seq |-> n, tid |-> Head(q)]
  BY <1>1, <1>3
<1> QED
  BY <1>6, <1>7, <1>8 DEF w, z, t

\* A Dequeue that finds a packet begins it: n copies, later than all sent.
LEMMA BooksBegin ==
  ASSUME NodesInv, NEW v \in Nodes, NEW d \in Wakes(v), d.at = slot,
         queue[v] # <<>>, queue' = [queue EXCEPT ![v] = Tail(@)],
         seqNo' = [seqNo EXCEPT ![v] = @ + 1], UNCHANGED air,
         NEW p, NEW y, Draws(v, p, y),
         Replaced(d, Copies(v, p) \cup {Event("Dequeue", v, y, NoPacket)})
  PROVE  SenderStep(v)
<1> DEFINE q == queue[v]  n == seqNo[v]
           w == Numbered(n, q)  z == Numbered(n + 1, Tail(q))
           s == p.allSlots
           m == Len(s)
           copy(x) == [pkt |-> Named(p), slot |-> x]
<1>1. /\ MacInv /\ MacTypes /\ q \in Seq(Tids) /\ n \in Nat /\ Len(q) \in Nat
      /\ slot \in Nat
  BY DEF NodesInv, MacInv, MacTypes
<1>2. /\ Wakes(v) = {d} /\ Starts(v) = {} /\ \A f \in OnAir(v) : f.slot < slot
  BY WakeFacts DEF NodesInv
<1>3. Starts(v)' = Copies(v, p)
  <2>1. ToSet(events') = (ToSet(events) \ {d}) \cup (Copies(v, p) \cup {Event("Dequeue", v, y, NoPacket)})
    BY DEF Replaced
  <2>2. \A e \in Copies(v, p) : e.op = "StartSend" /\ e.node = v
    BY EventFields DEF Copies
  <2>3. Event("Dequeue", v, y, NoPacket).op = "Dequeue"
    BY EventFields
  <2> QED
    BY <1>2, <2>1, <2>2, <2>3 DEF Starts, Pending
<1>4. /\ s \in Seq(Nat) /\ m = strategy[v].n /\ \A i, j \in 1..m : i < j => s[i] < s[j]
      /\ \A x \in ToSet(s) : slot <= x
      /\ p.seq = n /\ p.tid = Head(q)
  BY DEF Draws
<1>5. Waiting(v) = w /\ Waiting(v)' = z
  BY <1>1 DEF Waiting, Numbered, MacTypes
<1>6. z = Tail(w) /\ Head(w) = Named(p) /\ w # <<>>
  <2>1. Head(w) = [seq |-> n, tid |-> Head(q)] /\ z = Tail(w) /\ w # <<>>
    BY <1>1, NumberedTail
  <2> QED
    BY <1>4, <2>1 DEF Named
<1>7. /\ Booked(v) = {} /\ Booked(v)' = {copy(x) : x \in ToSet(s)}
      /\ Sent(v)' = Sent(v)
  <2>1. Booked(v)' = {[pkt |-> Named(e.pkt), slot |-> e.at] : e \in Copies(v, p)}
    BY <1>3, SenderFacts
  <2>2. \A x : /\ Event("StartSend", v, x, p).at = x
               /\ Event("StartSend", v, x, p).pkt = p
    BY EventFields
  <2>3. Booked(v)' = {copy(x) : x \in ToSet(s)}
    <3>1. \A b : b \in Booked(v)' <=> \E e \in Copies(v, p) :
                   b = [pkt |-> Named(e.pkt), slot |-> e.at]
      BY <2>1
    <3>2. \A e : e \in Copies(v, p) <=> \E x \in ToSet(s) : e = Event("StartSend", v, x, p)
      BY DEF Copies
    <3>3. \A b : b \in Booked(v)' <=> \E x \in ToSet(s) : b = copy(x)
      BY <2>2, <3>1, <3>2
    <3> HIDE DEF copy
    <3> QED
      BY <3>3
  <2>4. Booked(v) = {}
    BY <1>2, SenderFacts
  <2>5. Sent(v)' = Sent(v)
    BY DEF Sent
  <2> QED
    BY <2>3, <2>4, <2>5
<1>8. Cardinality(Booked(v)') \in {k.n : k \in Strategies}
  <2> DEFINE f == [i \in 1..m |-> copy(s[i])]
  <2>1. m \in Nat
    BY <1>4
  <2>2. \A i, j \in 1..m : f[i] = f[j] => i = j
    <3>1. \A i, j \in 1..m : f[i] = f[j] => s[i] = s[j]
      OBVIOUS
    <3>2. \A i \in 1..m : s[i] \in Nat
      BY <1>4
    <3>3. \A i, j \in 1..m : s[i] = s[j] => i = j
      BY <1>4, <2>1, <3>2
    <3> QED
      BY <3>1, <3>3
  <2>3. Booked(v)' = {f[i] : i \in 1..m}
    <3>1. \A x : x \in ToSet(s) <=> \E i \in 1..m : s[i] = x
      BY <1>4, ToSetFacts
    <3>2. \A i \in 1..m : f[i] = copy(s[i])
      OBVIOUS
    <3> HIDE DEF f, copy
    <3> QED
      BY <1>7, <3>1, <3>2
  <2> HIDE DEF f
  <2>4. Cardinality(Booked(v)') = m
    <3>1. \A i \in 1..m : f[i] \in Booked(v)'
      BY <2>3
    <3>2. \A b \in Booked(v)' : \E i \in 1..m : b = f[i]
      BY <2>3
    <3>3. f = [i \in 1..m |-> f[i]]
      BY DEF f
    <3> HIDE DEF m
    <3>4. f \in [1..m -> Booked(v)']
      BY <3>1, <3>3
    <3>5. f \in Bijection(1..m, Booked(v)')
      BY <2>2, <3>2, <3>4 DEF Bijection, Injection, Surjection, IsInjective
    <3> QED
      BY <2>1, <3>5, CardinalityOfImage
  <2>5. strategy[v] \in Strategies
    BY <1>1 DEF MacTypes
  <2> QED
    BY <1>4, <2>4, <2>5
<1>9. \A b \in Booked(v)', a \in Sent(v) : a.slot < b.slot
  <2>1. \A b \in Booked(v)' : b.slot \in Nat /\ slot <= b.slot
    BY <1>4, <1>7, ToSetFacts
  <2>2. \A a \in Sent(v) : a.slot \in Nat /\ a.slot < slot
    BY <1>1, <1>2, SenderFacts, AirTypes DEF OnAir
  <2> QED
    BY <1>1, <2>1, <2>2
<1>10. /\ \A b \in Booked(v)' : b.pkt = Named(p)
       /\ \A b, c \in Booked(v)' : b.slot = c.slot => b = c
  BY <1>7
<1> HIDE DEF w, z
<1>11. Sender(v)!Begin
  <2>1. Sender(v)!Cardinality(Booked(v)') = Cardinality(Booked(v)')
    BY DEF Sender!Cardinality, Cardinality
  <2> QED
    BY <1>5, <1>6, <1>7, <1>8, <1>9, <1>10, <2>1 DEF Sender!Begin
<1> QED
  BY <1>11 DEF SenderStep, Sender!Next

LEMMA DequeueRefines ==
  ASSUME NodesInv, NEW v \in Nodes, Dequeue(v)
  PROVE  \A u \in Nodes : SenderStep(u)
<1>1. MacInv /\ MacTypes
  BY DEF NodesInv, MacInv
<1>2. UNCHANGED <<isTx, air>>
  BY DEF Dequeue
<1>3. \A u : OnAir(u)' = OnAir(u)
  BY <1>2 DEF OnAir
<1>4. PICK d \in Wakes(v) :
        /\ d.at = slot
        /\ \/ /\ queue[v] = <<>> /\ Replaced(d, {})
              /\ isSleeping' = [isSleeping EXCEPT ![v] = TRUE]
              /\ UNCHANGED <<queue, seqNo>>
           \/ /\ queue[v] # <<>> /\ UNCHANGED isSleeping
              /\ queue' = [queue EXCEPT ![v] = Tail(@)]
              /\ seqNo' = [seqNo EXCEPT ![v] = @ + 1]
              /\ \E p, y : /\ Draws(v, p, y)
                           /\ Replaced(d, Copies(v, p) \cup
                                            {Event("Dequeue", v, y, NoPacket)})
  BY <1>1, DequeueFacts
<1>5. d.node = v /\ d.op = "Dequeue"
  BY Kinds
<1>6. OthersKept(v)
  BY <1>1, <1>2, <1>3, <1>4 DEF OthersKept, MacTypes
<1>7. CASE Replaced(d, {}) /\ UNCHANGED <<queue, seqNo>>
  <2>1. Starts(v)' = Starts(v)
    BY <1>5, <1>7 DEF Replaced, Starts, Pending
  <2>2. SenderStep(v)
    BY <1>3, <1>7, <2>1, SenderKept
  <2> QED
    BY <1>1, <1>5, <1>6, <1>7, <2>2, OtherSenders
<1>8. ASSUME queue[v] # <<>>, queue' = [queue EXCEPT ![v] = Tail(@)],
             seqNo' = [seqNo EXCEPT ![v] = @ + 1], NEW p, NEW y, Draws(v, p, y),
             Replaced(d, Copies(v, p) \cup {Event("Dequeue", v, y, NoPacket)})
      PROVE  \A u \in Nodes : SenderStep(u)
  <2>1. SenderStep(v)
    BY <1>2, <1>4, <1>8, BooksBegin
  <2> DEFINE N == Copies(v, p) \cup {Event("Dequeue", v, y, NoPacket)}
  <2>2. Replaced(d, N) /\ \A f \in N : f.node = v
    BY <1>8, EventFields DEF Copies
  <2> HIDE DEF N
  <2> QED
    BY <1>1, <1>5, <1>6, <2>1, <2>2, OtherSenders
<1> QED
  BY <1>4, <1>7, <1>8

\* A StartSend puts the earliest copy.
LEMMA StartSendRefines ==
  ASSUME NodesInv, NEW v \in Nodes, StartSend(v)
  PROVE  \A u \in Nodes : SenderStep(u)
<1>1. MacInv /\ MacTypes /\ SendInv(v) /\ slot \in Nat
  BY DEF NodesInv, MacInv, MacTypes
<1>2. UNCHANGED <<queue, isSleeping, seqNo>>
  BY DEF StartSend
<1>3. PICK e \in Starts(v) :
        /\ e.at = slot
        /\ Replaced(e, {EndEvent(v)})
        /\ isTx' = [isTx EXCEPT ![v] = TRUE]
        /\ air' = air \cup {[pkt |-> e.pkt, slot |-> slot]}
        /\ \A f \in Starts(v) : f # e => slot < f.at
        /\ \A f \in OnAir(v) : f.slot < slot
  BY <1>1, StartSendFacts
<1> DEFINE b == [pkt |-> Named(e.pkt), slot |-> e.at]  h == [pkt |-> e.pkt, slot |-> slot]
<1>4. e.pkt.src = v /\ e.node = v /\ e.op = "StartSend"
  BY <1>1, Kinds DEF SendInv, StartInv
<1>5. Starts(v)' = Starts(v) \ {e}
  <2>1. ToSet(events') = (ToSet(events) \ {e}) \cup {EndEvent(v)} /\ EndEvent(v).op = "EndSend"
    BY <1>3, EventFields DEF Replaced, EndEvent
  <2> QED
    BY <1>4, <2>1 DEF Starts, Pending
<1>6. h.pkt = e.pkt /\ h.slot = slot /\ air' = air \cup {h}
  BY <1>3
<1>7. b.slot = slot /\ b = [pkt |-> Named(h.pkt), slot |-> h.slot]
  BY <1>3
<1> HIDE DEF h
<1>8. OnAir(v)' = OnAir(v) \cup {h} /\ \A u \in Nodes \ {v} : OnAir(u)' = OnAir(u)
  BY <1>4, <1>6 DEF OnAir
<1>9. /\ b \in Booked(v) /\ Booked(v)' = Booked(v) \ {b}
      /\ \A c \in Booked(v) : b.slot <= c.slot
  <2>1. ASSUME NEW f \in Starts(v), f # e
        PROVE  [pkt |-> Named(f.pkt), slot |-> f.at] # b /\ slot < f.at /\ f.at \in Nat
    <3>1. f.at \in Nat /\ slot < f.at
      BY <1>1, <1>3, <2>1, Kinds, EventTypes
    <3> QED
      BY <1>1, <1>3, <3>1
  <2>2. \A c \in Booked(v) :
          c = b \/ \E f \in Starts(v) : f # e /\ c = [pkt |-> Named(f.pkt), slot |-> f.at]
    BY SenderFacts
  <2>3. \A c \in Booked(v) : b.slot <= c.slot
    BY <1>1, <1>7, <2>1, <2>2
  <2>4. b \in Booked(v)
    BY SenderFacts
  <2> HIDE DEF b
  <2>5. \A c : c \in Booked(v)' <=>
               \E f \in Starts(v) : f # e /\ c = [pkt |-> Named(f.pkt), slot |-> f.at]
    BY <1>5, SenderFacts
  <2>6. Booked(v)' = Booked(v) \ {b}
    BY <2>1, <2>2, <2>5, SenderFacts
  <2> QED
    BY <2>3, <2>4, <2>6
<1>10. Sent(v)' = Sent(v) \cup {b}
  BY <1>7, <1>8, SenderFacts
<1>11. Waiting(v)' = Waiting(v)
  BY <1>2 DEF Waiting
<1> HIDE DEF b
<1>12. Sender(v)!Put(b)
  BY <1>9, <1>10, <1>11 DEF Sender!Put
<1>13. SenderStep(v)
  BY <1>9, <1>12 DEF SenderStep, Sender!Next
<1>14. OthersKept(v)
  BY <1>1, <1>2, <1>3, <1>8 DEF OthersKept, MacTypes
<1>15. \A f \in {EndEvent(v)} : f.node = v
  BY EventFields DEF EndEvent
<1> QED
  BY <1>1, <1>3, <1>4, <1>13, <1>14, <1>15, OtherSenders

LEMMA EndSendRefines ==
  ASSUME NodesInv, NEW v \in Nodes, EndSend(v)
  PROVE  \A u \in Nodes : SenderStep(u)
<1>1. MacInv /\ MacTypes
  BY DEF NodesInv, MacInv
<1>2. UNCHANGED <<queue, seqNo, air>>
  BY DEF EndSend
<1>3. PICK e \in Ends(v) : Replaced(e, {})
  BY <1>1, EndSendFacts
<1>4. \A u : OnAir(u)' = OnAir(u) /\ Starts(u)' = Starts(u)
  <2>1. ToSet(events') = ToSet(events) \ {e} /\ e.op = "EndSend"
    BY <1>3, Kinds DEF Replaced
  <2> QED
    BY <1>2, <2>1 DEF OnAir, Starts, Pending
<1> QED
  BY <1>2, <1>4, SenderKept

LEMMA SenderStepHolds ==
  ASSUME NodesInv, TrafficInv, [Next]_vars
  PROVE  \A v \in Nodes : SenderStep(v)
<1>1. CASE UNCHANGED <<events, queue, seqNo, air>>
  <2>1. \A u : OnAir(u)' = OnAir(u) /\ Starts(u)' = Starts(u)
    BY <1>1 DEF OnAir, Starts, Pending
  <2> QED
    BY <1>1, <2>1, SenderKept
<1>2. ASSUME NEW v \in Talkers, Traffic(v) PROVE \A u \in Nodes : SenderStep(u)
  BY <1>2, TrafficRefines, NetAssumption
<1>3. ASSUME NEW v \in Nodes, Dequeue(v) PROVE \A u \in Nodes : SenderStep(u)
  BY <1>3, DequeueRefines
<1>4. ASSUME NEW v \in Nodes, StartSend(v) PROVE \A u \in Nodes : SenderStep(u)
  BY <1>4, StartSendRefines
<1>5. ASSUME NEW v \in Nodes, EndSend(v) PROVE \A u \in Nodes : SenderStep(u)
  BY <1>5, EndSendRefines
<1>6. CASE UNCHANGED vars
  BY <1>1, <1>6 DEF vars, macVars
<1>7. CASE Tick \/ (\E r \in Nodes : StartSolve(r) \/ SolveSlot(r)) \/ \E m \in inFlight : Receive(m)
  BY <1>1, <1>7 DEF Tick, StartSolve, SolveSlot, Receive, macVars
<1>8. CASE Expiry
  BY <1>1, <1>8, ExpiryFacts DEF macVars
<1> QED
  BY <1>2, <1>3, <1>4, <1>5, <1>6, <1>7, <1>8 DEF Next, Expiry

\* Every node sends its packets one after the other, with consecutive sequence
\* numbers, each as n copies in slots of its own, for every interleaving of the
\* nodes and every order of the events of a slot boundary.
THEOREM SendersAreSenders == Spec => EverySenderIsSender
<1>1. Init => \A v \in Nodes : Sender(v)!Init
  <2> SUFFICES ASSUME Init, NEW v \in Nodes PROVE Sender(v)!Init
    OBVIOUS
  <2>1. events = <<>> /\ air = {} /\ queue[v] = <<>>
    BY DEF Init
  <2>2. Waiting(v) = <<>>
    BY <2>1 DEF Waiting
  <2>3. Booked(v) = {} /\ Sent(v) = {}
    BY <2>1 DEF Booked, Sent, ToSet
  <2> QED
    BY <2>2, <2>3 DEF Sender!Init
<1>2. Init => NodesInv /\ TrafficInv
  BY NodesInvInit, TrafficInvInit
<1>3. NodesInv /\ TrafficInv /\ [Next]_vars => NodesInv' /\ TrafficInv'
  BY NodesInvStep, TrafficInvStep
<1>4. NodesInv /\ TrafficInv /\ [Next]_vars
        => [\A v \in Nodes : UNCHANGED Sender(v)!vars \/ Sender(v)!Next]_vars
  BY SenderStepHolds DEF SenderStep
<1> QED
  BY <1>1, <1>2, <1>3, <1>4, PTL DEF Spec, EverySenderIsSender

-----------------------------------------------------------------------------
(* The success ratio *)

\* The sequence numbers of the packets of category t that v sends, has sent or
\* has in its queue.
Numbers(v, t) ==
  {p.seq : p \in {q \in Taken(v) : q.tid = t}}
    \cup {seqNo[v] + i - 1 : i \in {j \in 1..Len(queue[v]) : queue[v][j] = t}}

\* Each of these packets was counted when it was handed down.
SentInv ==
  \A v \in Nodes : \A t \in Tids :
    IsFiniteSet(Numbers(v, t)) /\ Cardinality(Numbers(v, t)) <= txCount[v][t]

LEMMA NumbersKept ==
  ASSUME NEW u, Taken(u)' \subseteq Taken(u), queue'[u] = queue[u],
         seqNo'[u] = seqNo[u]
  PROVE  \A t : Numbers(u, t)' \subseteq Numbers(u, t)
BY DEF Numbers

LEMMA SentKept ==
  ASSUME SentInv, UNCHANGED txCount,
         \A u \in Nodes : \A t \in Tids : Numbers(u, t)' \subseteq Numbers(u, t),
         TrafficInv
  PROVE  SentInv'
<1> SUFFICES ASSUME NEW u \in Nodes, NEW t \in Tids
             PROVE  /\ IsFiniteSet(Numbers(u, t)')
                    /\ Cardinality(Numbers(u, t)') <= txCount'[u][t]
  BY DEF SentInv
<1> DEFINE M == Numbers(u, t)  N == Numbers(u, t)'
<1>1. IsFiniteSet(M) /\ Cardinality(M) <= txCount[u][t] /\ N \subseteq M
  BY DEF SentInv
<1>2. txCount'[u][t] = txCount[u][t] /\ txCount[u][t] \in Nat
  BY DEF TrafficInv
<1> HIDE DEF M, N
<1>3. IsFiniteSet(N) /\ Cardinality(N) <= Cardinality(M)
      /\ Cardinality(M) \in Nat /\ Cardinality(N) \in Nat
  BY <1>1, FS_Subset, FS_CardinalityType
<1>4. IsFiniteSet(N) /\ Cardinality(N) <= txCount'[u][t]
  BY <1>1, <1>2, <1>3
<1> QED
  BY <1>4 DEF N

\* A packet handed down is one more number at most, of its category.
LEMMA TrafficSent ==
  ASSUME NodesInv, TrafficInv, SentInv, NEW v \in Nodes, Traffic(v)
  PROVE  SentInv'
<1>1. MacInv /\ MacTypes
  BY DEF NodesInv, MacInv
<1>2. UNCHANGED <<seqNo, air>>
  BY DEF Traffic, Enqueue
<1>3. PICK c \in Tids :
        /\ txCount' = [txCount EXCEPT ![v][c] = @ + 1]
        /\ \/ UNCHANGED <<queue, events>>
           \/ /\ queue' = [queue EXCEPT ![v] = Append(@, c)]
              /\ \/ UNCHANGED events
                 \/ \E x \in Nat :
                      Replaced(Event("Dequeue", v, x, NoPacket),
                               {Event("Dequeue", v, x, NoPacket)})
  BY <1>1, TrafficFacts
<1>4. \A u : Taken(u)' = Taken(u)
  <2>1. \A u : Starts(u)' = Starts(u)
    <3>1. CASE UNCHANGED events
      BY <3>1 DEF Starts, Pending
    <3>2. ASSUME NEW x \in Nat,
                 Replaced(Event("Dequeue", v, x, NoPacket),
                          {Event("Dequeue", v, x, NoPacket)})
          PROVE  \A u : Starts(u)' = Starts(u)
      <4> DEFINE d == Event("Dequeue", v, x, NoPacket)
      <4>1. ToSet(events') = (ToSet(events) \ {d}) \cup {d} /\ d.op = "Dequeue"
        BY <3>2, EventFields DEF Replaced
      <4> HIDE DEF d
      <4> QED
        BY <4>1 DEF Starts, Pending
    <3> QED
      BY <1>3, <3>1, <3>2
  <2>2. \A u : OnAir(u)' = OnAir(u)
    BY <1>2 DEF OnAir
  <2> QED
    BY <2>1, <2>2 DEF Taken
<1>5. ASSUME NEW u \in Nodes, NEW t \in Tids
      PROVE  /\ txCount'[u][t] = IF u = v /\ t = c THEN txCount[u][t] + 1 ELSE txCount[u][t]
             /\ txCount[u][t] \in Nat
  BY <1>3 DEF TrafficInv
<1>6. ASSUME NEW u \in Nodes, NEW t \in Tids
      PROVE  Numbers(u, t)' \subseteq
               IF u = v /\ t = c THEN Numbers(u, t) \cup {seqNo[u] + Len(queue[u])}
                                 ELSE Numbers(u, t)
  <2>1. CASE queue'[u] = queue[u]
    BY <1>2, <1>4, <2>1, NumbersKept
  <2>2. CASE u = v /\ queue' = [queue EXCEPT ![v] = Append(@, c)]
    <3> DEFINE q == queue[u]  n == seqNo[u]  m == n + Len(q)
    <3>1. q \in Seq(Tids) /\ n \in Nat /\ Len(q) \in Nat /\ seqNo'[u] = n
          /\ queue'[u] = Append(q, c)
      BY <1>1, <1>2, <2>2 DEF MacTypes
    <3>2. /\ Len(Append(q, c)) = Len(q) + 1
          /\ \A j \in 1..Len(q) : Append(q, c)[j] = q[j]
          /\ Append(q, c)[Len(q) + 1] = c
          /\ \A j \in 1..(Len(q) + 1) : j \in 1..Len(q) \/ j = Len(q) + 1
      BY <3>1
    <3>3. n + (Len(q) + 1) - 1 = m
      BY <3>1
    <3>4. ASSUME NEW x \in Numbers(u, t)'
          PROVE  x \in Numbers(u, t) \/ (t = c /\ x = m)
      <4>1. CASE x \in {p.seq : p \in {b \in Taken(u)' : b.tid = t}}
        BY <1>4, <4>1 DEF Numbers
      <4>2. CASE x \in {seqNo'[u] + i - 1 : i \in {j \in 1..Len(queue'[u]) : queue'[u][j] = t}}
        <5>1. PICK i \in 1..(Len(q) + 1) : Append(q, c)[i] = t /\ x = n + i - 1
          BY <3>1, <3>2, <4>2
        <5>2. CASE i \in 1..Len(q)
          BY <3>2, <5>1, <5>2 DEF Numbers
        <5>3. CASE i = Len(q) + 1
          BY <3>2, <3>3, <5>1, <5>3
        <5> QED
          BY <3>2, <5>2, <5>3
      <4> QED
        BY <4>1, <4>2 DEF Numbers
    <3> QED
      BY <2>2, <3>4
  <2> QED
    BY <1>1, <1>3, <2>1, <2>2 DEF MacTypes
<1>7. ASSUME NEW u \in Nodes, NEW t \in Tids
      PROVE  /\ IsFiniteSet(Numbers(u, t)')
             /\ Cardinality(Numbers(u, t)') <= txCount'[u][t]
  <2> DEFINE M == Numbers(u, t)  N == Numbers(u, t)'  x == seqNo[u] + Len(queue[u])
  <2>1. IsFiniteSet(M) /\ Cardinality(M) <= txCount[u][t] /\ txCount[u][t] \in Nat
    BY <1>5 DEF SentInv
  <2>2. N \subseteq IF u = v /\ t = c THEN M \cup {x} ELSE M
    BY <1>6
  <2>3. txCount'[u][t] = IF u = v /\ t = c THEN txCount[u][t] + 1 ELSE txCount[u][t]
    BY <1>5
  <2> HIDE DEF M, N, x
  <2>4. IsFiniteSet(M \cup {x}) /\ Cardinality(M \cup {x}) <= Cardinality(M) + 1
        /\ Cardinality(M) \in Nat
    <3>1. IsFiniteSet(M) /\ Cardinality(M) \in Nat
      BY <2>1, FS_CardinalityType
    <3>2. /\ IsFiniteSet(M \cup {x})
          /\ Cardinality(M \cup {x}) = IF x \in M THEN Cardinality(M) ELSE Cardinality(M) + 1
      BY <3>1, FS_AddElement
    <3> QED
      BY <3>1, <3>2
  <2>5. CASE u = v /\ t = c
    <3>1. N \subseteq M \cup {x}
      BY <2>2, <2>5
    <3>2. /\ IsFiniteSet(N) /\ Cardinality(N) <= Cardinality(M \cup {x})
          /\ Cardinality(N) \in Nat /\ Cardinality(M \cup {x}) \in Nat
      BY <2>4, <3>1, FS_Subset, FS_CardinalityType
    <3>3. Cardinality(N) <= txCount'[u][t]
      BY <2>1, <2>3, <2>4, <2>5, <3>2
    <3> QED
      BY <3>2, <3>3 DEF N
  <2>6. CASE ~(u = v /\ t = c)
    <3>1. N \subseteq M
      BY <2>2, <2>6
    <3>2. IsFiniteSet(N) /\ Cardinality(N) <= Cardinality(M) /\ Cardinality(N) \in Nat
      BY <2>1, <3>1, FS_Subset, FS_CardinalityType
    <3>3. txCount'[u][t] = txCount[u][t]
      BY <2>3, <2>6
    <3>4. Cardinality(N) <= txCount'[u][t]
      BY <2>1, <2>4, <3>2, <3>3
    <3> QED
      BY <3>2, <3>4 DEF N
  <2> QED
    BY <2>5, <2>6
<1> QED
  BY <1>7 DEF SentInv

\* The packet at the front of the queue gets the number it had there.
LEMMA DequeueSent ==
  ASSUME NodesInv, TrafficInv, SentInv, NEW v \in Nodes, Dequeue(v)
  PROVE  SentInv'
<1>1. MacInv /\ MacTypes
  BY DEF NodesInv, MacInv
<1>2. UNCHANGED <<txCount, air>>
  BY DEF Dequeue
<1>3. PICK d \in Wakes(v) :
        /\ d.at = slot
        /\ \/ Replaced(d, {}) /\ UNCHANGED <<queue, seqNo>>
           \/ /\ queue[v] # <<>>
              /\ queue' = [queue EXCEPT ![v] = Tail(@)]
              /\ seqNo' = [seqNo EXCEPT ![v] = @ + 1]
              /\ \E p, y : /\ Draws(v, p, y)
                           /\ Replaced(d, Copies(v, p) \cup
                                            {Event("Dequeue", v, y, NoPacket)})
  BY <1>1, DequeueFacts
<1>4. d.op = "Dequeue" /\ d.node = v /\ d \in ToSet(events)
  BY Kinds
<1>5. \A u : OnAir(u)' = OnAir(u)
  BY <1>2 DEF OnAir
<1>6. CASE Replaced(d, {}) /\ UNCHANGED <<queue, seqNo>>
  <2>1. ToSet(events') = ToSet(events) \ {d}
    BY <1>6 DEF Replaced
  <2>2. \A u : Starts(u)' = Starts(u)
    BY <1>4, <2>1 DEF Starts, Pending
  <2>3. \A u : Taken(u)' = Taken(u)
    BY <1>5, <2>2 DEF Taken
  <2>4. \A u \in Nodes : \A t \in Tids : Numbers(u, t)' \subseteq Numbers(u, t)
    BY <1>6, <2>3, NumbersKept
  <2> QED
    BY <1>2, <2>4, SentKept
<1>7. ASSUME queue[v] # <<>>, queue' = [queue EXCEPT ![v] = Tail(@)],
             seqNo' = [seqNo EXCEPT ![v] = @ + 1], NEW p, NEW y, Draws(v, p, y),
             Replaced(d, Copies(v, p) \cup {Event("Dequeue", v, y, NoPacket)})
      PROVE  SentInv'
  <2>1. ToSet(events') = (ToSet(events) \ {d})
                           \cup (Copies(v, p) \cup {Event("Dequeue", v, y, NoPacket)})
    BY <1>7 DEF Replaced
  <2>2. \A e \in Copies(v, p) : e.op = "StartSend" /\ e.node = v /\ e.pkt = p
    BY EventFields DEF Copies
  <2>3. \A u : \A e \in Starts(u)' : e \in Starts(u) \/ (u = v /\ e.pkt = p)
    <3>1. Event("Dequeue", v, y, NoPacket).op = "Dequeue"
      BY EventFields
    <3> QED
      BY <2>1, <2>2, <3>1 DEF Starts, Pending
  <2>4. \A u : \A b \in Taken(u)' : b \in Taken(u) \/ (u = v /\ b = p)
    BY <1>5, <2>3 DEF Taken
  <2>5. /\ \A u \in Nodes \ {v} : queue'[u] = queue[u] /\ seqNo'[u] = seqNo[u]
        /\ queue'[v] = Tail(queue[v]) /\ seqNo'[v] = seqNo[v] + 1
    BY <1>1, <1>7 DEF MacTypes
  <2>6. ASSUME NEW u \in Nodes, u # v
        PROVE  \A t \in Tids : Numbers(u, t)' \subseteq Numbers(u, t)
    BY <2>4, <2>5, <2>6, NumbersKept
  <2>7. ASSUME NEW t \in Tids, NEW x \in Numbers(v, t)'
        PROVE  x \in Numbers(v, t)
    <3> DEFINE q == queue[v]  n == seqNo[v]
    <3>1. /\ q \in Seq(Tids) /\ n \in Nat /\ Len(q) \in Nat /\ 1 \in 1..Len(q)
          /\ Head(q) = q[1] /\ n + 1 - 1 = n
      BY <1>1, <1>7 DEF MacTypes
    <3>2. /\ Len(Tail(q)) = Len(q) - 1
          /\ \A i \in 1..(Len(q) - 1) : Tail(q)[i] = q[i + 1] /\ i + 1 \in 1..Len(q)
      BY <3>1
    <3>3. p.seq = n /\ p.tid = q[1]
      BY <1>7, <3>1 DEF Draws
    <3>4. ASSUME NEW b \in Taken(v)', b.tid = t, x = b.seq
          PROVE  x \in Numbers(v, t)
      <4>1. CASE b \in Taken(v)
        BY <3>4, <4>1 DEF Numbers
      <4>2. CASE b = p
        <5>1. x = n + 1 - 1 /\ q[1] = t
          BY <3>1, <3>3, <3>4, <4>2
        <5> QED
          BY <3>1, <5>1 DEF Numbers
      <4> QED
        BY <2>4, <4>1, <4>2
    <3>5. ASSUME NEW i \in 1..(Len(q) - 1), Tail(q)[i] = t, x = (n + 1) + i - 1
          PROVE  x \in Numbers(v, t)
      <4>1. x = n + (i + 1) - 1
        BY <3>1, <3>5
      <4>2. i + 1 \in 1..Len(q) /\ q[i + 1] = t
        BY <3>2, <3>5
      <4> QED
        BY <4>1, <4>2 DEF Numbers
    <3>6. \/ \E b \in Taken(v)' : b.tid = t /\ x = b.seq
          \/ \E i \in 1..Len(Tail(q)) : Tail(q)[i] = t /\ x = (n + 1) + i - 1
      BY <2>5, <2>7 DEF Numbers
    <3> QED
      BY <3>2, <3>4, <3>5, <3>6
  <2>8. \A u \in Nodes : \A t \in Tids : Numbers(u, t)' \subseteq Numbers(u, t)
    BY <2>6, <2>7
  <2> QED
    BY <1>2, <2>8, SentKept
<1> QED
  BY <1>3, <1>6, <1>7

\* A copy sent is of a packet already taken.
LEMMA StartSendSent ==
  ASSUME NodesInv, TrafficInv, SentInv, NEW v \in Nodes, StartSend(v)
  PROVE  SentInv'
<1>1. MacInv /\ MacTypes /\ SendInv(v)
  BY DEF NodesInv, MacInv
<1>2. UNCHANGED <<queue, seqNo, txCount>>
  BY DEF StartSend
<1>3. PICK e \in Starts(v) :
        /\ Replaced(e, {EndEvent(v)})
        /\ air' = air \cup {[pkt |-> e.pkt, slot |-> slot]}
  BY <1>1, StartSendFacts
<1>4. \A u : \A b \in Starts(u)' : b \in Starts(u)
  <2>1. ToSet(events') = (ToSet(events) \ {e}) \cup {EndEvent(v)} /\ EndEvent(v).op = "EndSend"
    BY <1>3, EventFields DEF Replaced, EndEvent
  <2> QED
    BY <2>1 DEF Starts, Pending
<1>5. \A u : \A f \in OnAir(u)' : f \in OnAir(u) \/ (u = v /\ f.pkt = e.pkt)
  <2>1. e.pkt.src = v
    BY <1>1 DEF SendInv, StartInv
  <2> QED
    BY <1>3, <2>1 DEF OnAir
<1>6. \A u : Taken(u)' \subseteq Taken(u)
  BY <1>4, <1>5 DEF Taken
<1>7. \A u \in Nodes : \A t \in Tids : Numbers(u, t)' \subseteq Numbers(u, t)
  BY <1>2, <1>6, NumbersKept
<1> QED
  BY <1>2, <1>7, SentKept

LEMMA SentInvStep ==
  ASSUME NodesInv, TrafficInv, SentInv, [Next]_vars
  PROVE  SentInv'
<1>1. CASE /\ UNCHANGED <<queue, seqNo, txCount, air>>
           /\ \A u : Starts(u)' = Starts(u)
  <2>1. \A u : Taken(u)' \subseteq Taken(u)
    BY <1>1 DEF Taken, OnAir
  <2>2. \A u \in Nodes : \A t \in Tids : Numbers(u, t)' \subseteq Numbers(u, t)
    BY <1>1, <2>1, NumbersKept
  <2> QED
    BY <1>1, <2>2, SentKept
<1>2. CASE UNCHANGED <<events, queue, seqNo, txCount, air>>
  BY <1>1, <1>2 DEF Starts, Pending
<1>3. ASSUME NEW v \in Talkers, Traffic(v) PROVE SentInv'
  BY <1>3, TrafficSent, NetAssumption
<1>4. ASSUME NEW v \in Nodes, Dequeue(v) PROVE SentInv'
  BY <1>4, DequeueSent
<1>5. ASSUME NEW v \in Nodes, StartSend(v) PROVE SentInv'
  BY <1>5, StartSendSent
<1>6. ASSUME NEW v \in Nodes, EndSend(v) PROVE SentInv'
  <2>1. UNCHANGED <<queue, seqNo, txCount, air>>
    BY <1>6 DEF EndSend
  <2>2. PICK e \in Ends(v) : Replaced(e, {})
    BY <1>6, EndSendFacts DEF NodesInv
  <2>3. ToSet(events') = ToSet(events) \ {e} /\ e.op = "EndSend"
    BY <2>2, Kinds DEF Replaced
  <2>4. \A u : Starts(u)' = Starts(u)
    BY <2>3 DEF Starts, Pending
  <2> QED
    BY <1>1, <2>1, <2>4
<1>7. CASE UNCHANGED vars
  BY <1>2, <1>7 DEF vars, macVars
<1>8. CASE Tick \/ (\E r \in Nodes : StartSolve(r) \/ SolveSlot(r)) \/ \E m \in inFlight : Receive(m)
  BY <1>2, <1>8 DEF Tick, StartSolve, SolveSlot, Receive, macVars
<1>9. CASE Expiry
  BY <1>2, <1>9, ExpiryFacts DEF macVars
<1> QED
  BY <1>3, <1>4, <1>5, <1>6, <1>7, <1>8, <1>9 DEF Next, Expiry

LEMMA SentInvInit == Init => SentInv
<1> SUFFICES ASSUME Init, NEW v \in Nodes, NEW t \in Tids
             PROVE  /\ IsFiniteSet(Numbers(v, t))
                    /\ Cardinality(Numbers(v, t)) <= txCount[v][t]
  BY DEF SentInv
<1>1. events = <<>> /\ air = {} /\ queue[v] = <<>> /\ txCount[v][t] = 0
  BY DEF Init
<1>2. Taken(v) = {}
  BY <1>1 DEF Taken, OnAir, Starts, Pending, ToSet
<1>3. Len(queue[v]) = 0 /\ 1..0 = {}
  BY <1>1
<1>4. Numbers(v, t) = {}
  BY <1>2, <1>3 DEF Numbers
<1> QED
  BY <1>1, <1>4, FS_EmptySet

\* r's deliveries of v's packets of category t.
From(r, v, t) ==
  {k \in ToSet(delivered[r]) : k[1] = v /\ states[r][k].tid = t}

\* The statistics count each delivery once.
RxCountInv ==
  /\ rxCount \in [Nodes \X Nodes \X Tids -> Nat]
  /\ \A v, r \in Nodes : \A t \in Tids :
       /\ IsFiniteSet(From(r, v, t))
       /\ rxCount[<<v, r, t>>] = Cardinality(From(r, v, t))

\* What r delivers was sent by another node, in the category of its state.
LEMMA DeliveredFacts ==
  ASSUME NodesInv, HearInv, RxInv, NEW r \in Nodes
  PROVE  \A k \in ToSet(delivered[r]) :
           /\ k \in DOMAIN states[r] /\ k \in Keys
           /\ \E f \in heard[r] :
                /\ IsOf(k, f.pkt) /\ k[1] = f.pkt.src /\ k[2] = f.pkt.seq
                /\ f.pkt.src \in Nodes \ {r} /\ f \in air
                /\ states[r][k].tid = f.pkt.tid
<1> SUFFICES ASSUME NEW k \in ToSet(delivered[r])
             PROVE  /\ k \in DOMAIN states[r] /\ k \in Keys
                    /\ \E f \in heard[r] :
                         /\ IsOf(k, f.pkt) /\ k[1] = f.pkt.src /\ k[2] = f.pkt.seq
                         /\ f.pkt.src \in Nodes \ {r} /\ f \in air
                         /\ states[r][k].tid = f.pkt.tid
  OBVIOUS
<1>1. BufferInv(r) /\ k \in DOMAIN states[r]
  BY DEF RxInv, BufferInv
<1>2. PICK f \in heard[r] : IsOf(k, f.pkt) /\ StateOf(f.pkt, states[r][k])
  BY <1>1, StateHeard
<1>3. f \in air /\ f.pkt.src \in Nodes \ {r}
  BY HeardFacts
<1>4. k \in Keys
  BY <1>1, BufferTypes DEF RxInv, RxTypes
<1> QED
  BY <1>1, <1>2, <1>3, <1>4 DEF IsOf, StateOf

\* The packets of category t have copies within the timeout.
AllWithin(t) == \A f \in air : f.pkt.tid = t => WithinTimeout(f.pkt)

\* r counts none of its own packets, and no more of v's than v was given, if their
\* copies lie within the timeout.
LEMMA DeliveredWereSent ==
  ASSUME NodesInv, HearInv, RxInv, TrafficInv, SentInv, RxCountInv,
         NEW r \in Nodes, NEW v \in Nodes, NEW t \in Tids, AllWithin(t)
  PROVE  /\ rxCount[<<v, r, t>>] <= txCount[v][t]
         /\ v = r => rxCount[<<v, r, t>>] = 0
<1> DEFINE F == From(r, v, t)  N == Numbers(v, t)  g == [k \in F |-> k[2]]
<1>1. ASSUME NEW k \in F
      PROVE  k = <<v, k[2], 0>> /\ k[2] \in N /\ v # r
  <2>1. k \in ToSet(delivered[r]) /\ k[1] = v /\ states[r][k].tid = t
    BY DEF From
  <2>2. k \in DOMAIN states[r]
    BY <2>1, DeliveredFacts
  <2>3. PICK f \in heard[r] :
          /\ IsOf(k, f.pkt) /\ k[1] = f.pkt.src /\ k[2] = f.pkt.seq
          /\ f.pkt.src \in Nodes \ {r} /\ f \in air
          /\ states[r][k].tid = f.pkt.tid
    BY <2>1, DeliveredFacts
  <2>4. f.pkt \in Taken(v) /\ f.pkt.tid = t
    BY <2>1, <2>3 DEF Taken, OnAir
  <2>5. k[2] \in N
    BY <2>3, <2>4 DEF Numbers
  <2>6. k = Key(f.pkt)
    BY <2>2, <2>3, <2>4 DEF AllWithin, RxInv, TimerInv
  <2> QED
    BY <2>1, <2>3, <2>5, <2>6 DEF Key
<1>2. /\ IsFiniteSet(N) /\ Cardinality(N) <= txCount[v][t] /\ txCount[v][t] \in Nat
      /\ rxCount[<<v, r, t>>] = Cardinality(F)
  BY DEF SentInv, TrafficInv, RxCountInv
<1> HIDE DEF F, N
<1>3. g \in Injection(F, N)
  <2>1. g \in [F -> N]
    BY <1>1
  <2>2. \A j, k \in F : g[j] = g[k] => j = k
    BY <1>1
  <2> QED
    BY <2>1, <2>2 DEF Injection, IsInjective
<1> HIDE DEF g
<1>4. IsFiniteSet(F) /\ Cardinality(F) <= Cardinality(N)
  BY <1>2, <1>3, FS_Injection
<1>5. Cardinality(F) \in Nat /\ Cardinality(N) \in Nat
  BY <1>2, <1>4, FS_CardinalityType
<1>6. v = r => F = {}
  BY <1>1
<1>7. v = r => Cardinality(F) = 0
  BY <1>6, FS_EmptySet
<1> QED
  BY <1>2, <1>4, <1>5, <1>7

LEMMA RxCountKept ==
  ASSUME NodesInv, HearInv, RxInv, RxCountInv, UNCHANGED <<rxCount, delivered>>,
         \A r \in Nodes : \A k \in DOMAIN states[r] :
           states'[r][k].tid = states[r][k].tid
  PROVE  RxCountInv'
<1>1. ASSUME NEW r \in Nodes, NEW v \in Nodes, NEW t \in Tids
      PROVE  From(r, v, t)' = From(r, v, t)
  <2>1. \A k \in ToSet(delivered[r]) : states'[r][k].tid = states[r][k].tid
    BY DeliveredFacts
  <2> QED
    BY <2>1 DEF From
<1> QED
  BY <1>1 DEF RxCountInv

\* A decoded packet is one not delivered before, and is counted for its sender and
\* its category.
LEMMA SolveCounts ==
  ASSUME NodesInv, HearInv, RxInv, RxCountInv, NEW r \in Nodes, SolveSlot(r)
  PROVE  RxCountInv'
<1>1. /\ \A u \in Nodes \ {r} : states'[u] = states[u]
                                /\ delivered'[u] = delivered[u]
      /\ \/ /\ states'[r] = states[r]
            /\ delivered'[r] = delivered[r] /\ rxCount' = rxCount
         \/ \E k : Counts(r, k)
      /\ RxTypes'
  BY SolveFacts DEF RxInv, ReceiverKept
<1>2. /\ delivered \in [Nodes -> Seq(Keys)] /\ delivered' \in [Nodes -> Seq(Keys)]
  BY <1>1 DEF RxInv, RxTypes
<1>3. CASE /\ states'[r] = states[r]
           /\ delivered'[r] = delivered[r] /\ rxCount' = rxCount
  <2>1. delivered' = delivered
    BY <1>1, <1>2, <1>3
  <2>2. \A u \in Nodes : states'[u] = states[u]
    BY <1>1, <1>3
  <2> QED
    BY <1>3, <2>1, <2>2, RxCountKept
<1>4. ASSUME NEW k, Counts(r, k)
      PROVE  RxCountInv'
  <2>1. /\ k \in DOMAIN states[r] /\ ~IsDecoded(r, k)
        /\ states'[r][k].tid = states[r][k].tid
        /\ \A j \in DOMAIN states[r] :
             j # k => states'[r][j] = states[r][j]
    BY <1>4 DEF Counts
  <2>2. \A u \in Nodes : \A j \in DOMAIN states[u] :
          states'[u][j].tid = states[u][j].tid
    BY <1>1, <2>1
  <2>3. CASE delivered'[r] = delivered[r] /\ rxCount' = rxCount
    <3>1. delivered' = delivered
      BY <1>1, <1>2, <2>3
    <3> QED
      BY <2>2, <2>3, <3>1, RxCountKept
  <2>4. CASE /\ delivered'[r] = Append(delivered[r], k)
             /\ rxCount' = [rxCount EXCEPT ![<<k[1], r, states[r][k].tid>>] = @ + 1]
    <3> DEFINE v == k[1]  t == states[r][k].tid  c == <<v, r, t>>
    <3>1. k \notin ToSet(delivered[r])
      BY <2>1 DEF RxInv, BufferInv
    <3>2. k \in Keys /\ v \in Nodes /\ t \in Tids
      <4>1. states[r] \in Buffers
        BY DEF RxInv, RxTypes
      <4>2. k \in Keys /\ states[r][k] \in States
        BY <2>1, <4>1, BufferTypes
      <4> QED
        BY <4>2, StateFields DEF Keys
    <3>3. ToSet(delivered'[r]) = ToSet(delivered[r]) \cup {k}
      <4>1. /\ delivered[r] \in Seq(Keys) /\ delivered'[r] = Append(delivered[r], k)
            /\ Distinct(delivered[r])
        BY <1>2, <2>4 DEF RxInv, BufferInv
      <4> QED
        BY <3>1, <3>2, <4>1, AppendOne
    <3>4. /\ rxCount' \in [Nodes \X Nodes \X Tids -> Nat] /\ rxCount'[c] = rxCount[c] + 1
          /\ \A u, q \in Nodes : \A b \in Tids :
               ~(u = v /\ q = r /\ b = t) => rxCount'[<<u, q, b>>] = rxCount[<<u, q, b>>]
      BY <2>4, <3>2 DEF RxCountInv
    <3>5. From(r, v, t)' = From(r, v, t) \cup {k} /\ k \notin From(r, v, t)
      <4>1. \A j \in ToSet(delivered[r]) : states'[r][j].tid = states[r][j].tid
        BY <2>2, DeliveredFacts
      <4> QED
        BY <2>1, <3>1, <3>3, <4>1 DEF From
    <3>6. ASSUME NEW u \in Nodes, NEW q \in Nodes, NEW b \in Tids,
                 ~(u = v /\ q = r /\ b = t)
          PROVE  From(q, u, b)' = From(q, u, b)
      <4>1. \A j \in ToSet(delivered[q]) : states'[q][j].tid = states[q][j].tid
        BY <2>2, DeliveredFacts
      <4>2. CASE q # r
        BY <1>1, <4>1, <4>2 DEF From
      <4>3. CASE q = r
        BY <2>1, <3>3, <3>6, <4>1, <4>3 DEF From
      <4> QED
        BY <4>2, <4>3
    <3>7. IsFiniteSet(From(r, v, t)) /\ rxCount[c] = Cardinality(From(r, v, t))
      BY <3>2 DEF RxCountInv
    <3>8. IsFiniteSet(From(r, v, t)') /\ rxCount'[c] = Cardinality(From(r, v, t)')
      <4> DEFINE D == From(r, v, t)
      <4>1. IsFiniteSet(D) /\ k \notin D
        BY <3>5, <3>7
      <4> HIDE DEF D
      <4>2. IsFiniteSet(D \cup {k}) /\ Cardinality(D \cup {k}) = Cardinality(D) + 1
        BY <4>1, FS_AddElement
      <4> QED
        BY <3>4, <3>5, <3>7, <4>2 DEF D
    <3>9. ASSUME NEW u \in Nodes, NEW q \in Nodes, NEW b \in Tids
          PROVE  /\ IsFiniteSet(From(q, u, b)')
                 /\ rxCount'[<<u, q, b>>] = Cardinality(From(q, u, b)')
      <4>1. CASE u = v /\ q = r /\ b = t
        <5>1. From(q, u, b)' = From(r, v, t)' /\ <<u, q, b>> = c
          BY <2>1, <4>1 DEF From
        <5> HIDE DEF c
        <5> QED
          BY <3>8, <5>1
      <4>2. CASE ~(u = v /\ q = r /\ b = t)
        <5>1. /\ IsFiniteSet(From(q, u, b))
              /\ rxCount[<<u, q, b>>] = Cardinality(From(q, u, b))
          BY DEF RxCountInv
        <5> QED
          BY <3>4, <3>6, <4>2, <5>1
      <4> QED
        BY <4>1, <4>2
    <3> QED
      BY <3>4, <3>9 DEF RxCountInv
  <2> QED
    BY <1>4, <2>3, <2>4 DEF Counts
<1> QED
  BY <1>1, <1>3, <1>4

LEMMA RxCountInvStep ==
  ASSUME NodesInv, HearInv, RxInv, RxCountInv, [Next]_vars
  PROVE  RxCountInv'
<1>1. CASE UNCHANGED <<rxCount, delivered, states>>
  BY <1>1, RxCountKept
<1>2. ASSUME NEW r \in Nodes, SolveSlot(r) PROVE RxCountInv'
  BY <1>2, SolveCounts
<1>3. ASSUME NEW m \in inFlight, Receive(m) PROVE RxCountInv'
  <2> DEFINE r == m.to
  <2>1. UNCHANGED <<rxCount, delivered>>
    BY <1>3 DEF Receive
  <2>2. /\ \A u \in Nodes \ {r} : states'[u] = states[u]
        /\ states'[r] = states[r] \/ \E k : Adds(r, k, m.frag)
    BY <1>3, ReceiveFacts DEF RxInv, ReceiverKept
  <2> HIDE DEF r
  <2>3. \A u \in Nodes : \A k \in DOMAIN states[u] :
          states'[u][k].tid = states[u][k].tid
    BY <2>2 DEF Adds
  <2> QED
    BY <2>1, <2>3, RxCountKept
<1>4. CASE UNCHANGED vars
  BY <1>1, <1>4 DEF vars, rxVars
<1>5. CASE (\E v \in Talkers : Traffic(v))
             \/ (\E v \in Nodes : Dequeue(v) \/ StartSend(v) \/ EndSend(v))
  BY <1>1, <1>5 DEF Traffic, Enqueue, Dequeue, StartSend, EndSend, rxVars
<1>6. CASE Tick \/ \E r \in Nodes : StartSolve(r)
  BY <1>1, <1>6 DEF Tick, StartSolve, rxVars
<1>7. CASE Expiry
  BY <1>1, <1>7, ExpiryFacts
<1> QED
  BY <1>2, <1>3, <1>4, <1>5, <1>6, <1>7 DEF Next, Expiry

LEMMA RxCountInvInit == Init => RxCountInv
<1> SUFFICES ASSUME Init PROVE RxCountInv
  OBVIOUS
<1>1. rxCount = [c \in Nodes \X Nodes \X Tids |-> 0]
  BY DEF Init
<1>2. \A v, r \in Nodes : \A t \in Tids : From(r, v, t) = {}
  BY DEF Init, From, ToSet
<1> QED
  BY <1>1, <1>2, FS_EmptySet DEF RxCountInv

\* The sums WriteOutput makes of these counters: a sender's packets, counted once
\* by each of the other nodes, and over all senders.
LEMMA RatioAtMostOne ==
  ASSUME RxCountInv, TrafficInv, NEW t \in Tids,
         \A v, r \in Nodes : rxCount[<<v, r, t>>] <= txCount[v][t],
         \A v \in Nodes : rxCount[<<v, v, t>>] = 0
  PROVE  Psr(t)[1] <= Psr(t)[2]
<1> DEFINE C == Nodes \X Nodes \X {t}
           w == [c \in C |-> rxCount[c]]
           b == [v \in Nodes |-> txCount[v][t]]
           Row == [v \in Nodes |-> {v} \X Nodes \X {t}]
           k == Cardinality(Nodes) - 1
<1>1. /\ IsFiniteSet(Nodes) /\ Cardinality(Nodes) \in Nat
      /\ Weights(b, Nodes) /\ DOMAIN b = Nodes
  BY NetAssumption, FS_CardinalityType DEF TrafficInv, Weights
<1>2. /\ DOMAIN w = C
      /\ \A v, r \in Nodes : w[<<v, r, t>>] = rxCount[<<v, r, t>>]
                             /\ rxCount[<<v, r, t>>] \in Nat
  BY DEF RxCountInv
<1>3. Psr(t)[1] = Sum(w, C) /\ Psr(t)[2] = Sum(b, Nodes) * k
  BY <1>1, <1>2 DEF Psr, SumFunction, Sum
<1>4. C = UNION {Row[v] : v \in Nodes}
  OBVIOUS
<1>5. ASSUME NEW v \in Nodes
      PROVE  /\ IsFiniteSet(Row[v]) /\ Weights(w, Row[v])
             /\ Sum(w, Row[v]) <= b[v] * k /\ k \in Nat
  <2> DEFINE Q == Nodes \ {v}  S == {v} \X Q \X {t}  x == <<v, v, t>>
             g == [r \in Q |-> <<v, r, t>>]
  <2>1. IsFiniteSet(Q) /\ Cardinality(Q) = k /\ k \in Nat
    <3>1. IsFiniteSet(Q) /\ Cardinality(Q) = Cardinality(Nodes) - 1
      BY <1>1, FS_RemoveElement
    <3> HIDE DEF Q
    <3>2. Cardinality(Q) \in Nat
      BY <3>1, FS_CardinalityType
    <3> QED
      BY <3>1, <3>2
  <2>2. g \in Surjection(Q, S)
    BY DEF Surjection
  <2>3. IsFiniteSet(S) /\ Cardinality(S) <= k /\ Cardinality(S) \in Nat
    <3> HIDE DEF g, S, Q, k
    <3> QED
      BY <2>1, <2>2, FS_Surjection, FS_CardinalityType
  <2>4. Row[v] = S \cup {x} /\ x \notin S
    OBVIOUS
  <2>5. w[x] = 0 /\ Weights(w, S \cup {x}) /\ Weights(w, S) /\ \A c \in S : w[c] <= b[v]
    <3>1. w[x] = 0
      BY <1>2
    <3>2. \A c \in S : \E r \in Nodes : c = <<v, r, t>>
      OBVIOUS
    <3>3. b[v] = txCount[v][t]
      OBVIOUS
    <3> HIDE DEF w, S, x, b
    <3>4. \A c \in S : w[c] \in Nat /\ w[c] <= b[v]
      BY <1>2, <3>2, <3>3
    <3> QED
      BY <3>1, <3>4 DEF Weights
  <2>6. b[v] \in Nat
    BY <1>1 DEF Weights
  <2> HIDE DEF S, w, x, b, k, Row
  <2>7. Sum(w, S \cup {x}) = w[x] + Sum(w, S) /\ Sum(w, S) \in Nat
    BY <2>3, <2>4, <2>5, SumAdd, SumType
  <2>8. Sum(w, S) <= Cardinality(S) * b[v]
    BY <2>3, <2>5, <2>6, SumBounded
  <2>9. Cardinality(S) * b[v] <= b[v] * k
    <3>1. \A m, n, p \in Nat : m <= n => m * p <= p * n
      <4>1. \A m, n, p \in Nat : m <= n => \E d \in Nat : n = m + d
        <5> SUFFICES ASSUME NEW m \in Nat, NEW n \in Nat, m <= n
                     PROVE  \E d \in Nat : n = m + d
          OBVIOUS
        <5>1. n - m \in Nat /\ n = m + (n - m)
          OBVIOUS
        <5> QED
          BY <5>1
      <4>2. \A m, d, p \in Nat : p * (m + d) = m * p + d * p /\ d * p \in Nat
                                 /\ m * p \in Nat
        OBVIOUS
      <4>3. \A m, d, p \in Nat : m * p <= p * (m + d)
        BY <4>2
      <4> QED
        BY <4>1, <4>3
    <3> QED
      BY <2>1, <2>3, <2>6, <3>1
  <2>10. Sum(w, S) <= b[v] * k
    <3>1. Cardinality(S) * b[v] \in Nat /\ b[v] * k \in Nat
      <4>1. \A m, n \in Nat : m * n \in Nat
        OBVIOUS
      <4> QED
        BY <2>1, <2>3, <2>6, <4>1
    <3> QED
      BY <2>7, <2>8, <2>9, <3>1
  <2>11. IsFiniteSet(S \cup {x})
    BY <2>3, FS_AddElement
  <2> QED
    BY <2>1, <2>4, <2>5, <2>7, <2>10, <2>11
<1>6. CASE Nodes # {}
  <2>1. \A u, v \in Nodes : u # v => Row[u] \cap Row[v] = {}
    OBVIOUS
  <2>2. k \in Nat
    BY <1>5, <1>6
  <2> HIDE DEF C, w, b, Row, k
  <2>3. Sum(w, UNION {Row[v] : v \in Nodes}) <= Sum(b, Nodes) * k
    BY <1>1, <1>5, <2>1, <2>2, SumOfRows
  <2> QED
    BY <1>3, <1>4, <2>3
<1>7. CASE Nodes = {}
  <2>1. C = {}
    BY <1>7
  <2>2. Cardinality(Nodes) = 0
    BY <1>7, FS_EmptySet
  <2> HIDE DEF C, w, b
  <2>3. Sum(w, C) = 0 /\ Sum(b, Nodes) = 0
    BY <1>7, <2>1, SumEmpty
  <2>4. 0 <= 0 * (0 - 1)
    OBVIOUS
  <2> QED
    BY <1>3, <2>2, <2>3, <2>4
<1> QED
  BY <1>6, <1>7

\* The packet success ratio that the script prints is at most one for a category
\* whose packets' copies lie within the timeout: the receivers count no packet that
\* was not handed down, none of their own, none twice and each for its sender and
\* category.
THEOREM RatioIsRatio == Spec => []PsrAtMostOne
<1> DEFINE I == Inv /\ TrafficInv /\ SentInv /\ RxCountInv
<1>1. Init => I
  BY InvInit, TrafficInvInit, SentInvInit, RxCountInvInit
<1>2. I /\ [Next]_vars => I'
  BY InvStep, TrafficInvStep, SentInvStep, RxCountInvStep DEF Inv
<1>3. I => PsrAtMostOne
  <2> SUFFICES ASSUME I, NEW t \in Tids, AllWithin(t)
               PROVE  /\ Psr(t)[1] <= Psr(t)[2]
                      /\ \A v, r \in Nodes : rxCount[<<v, r, t>>] <= txCount[v][t]
    BY DEF PsrAtMostOne, AllWithin
  <2>1. \A v, r \in Nodes : /\ rxCount[<<v, r, t>>] <= txCount[v][t]
                            /\ v = r => rxCount[<<v, r, t>>] = 0
    BY DeliveredWereSent DEF Inv
  <2> QED
    BY <2>1, RatioAtMostOne
<1> QED
  BY <1>1, <1>2, <1>3, PTL DEF Spec

-----------------------------------------------------------------------------
(* Undisturbed packets are delivered *)

\* r's solver is done with the signals of slot x.
Over(r, x) ==
  \/ x < slot
  \/ /\ x = slot /\ phase = "solve"
     /\ r \notin solvingAsked /\ x \notin ToSet(active[r])

\* r listens in slot x and has p's fragment to itself.
Undisturbed(r, p, x) ==
  /\ ~Sends(r, x)
  /\ \A f \in air : f.slot = x /\ f.pkt.src \in inRange[r] => f.pkt = p

Done(r, p) == {x \in ToSet(p.allSlots) : Over(r, x) /\ Undisturbed(r, p, x)}

\* The state of a packet whose copies lie within the timeout counts a fragment for
\* each of these slots at least.
CountInv(r) ==
  \A f \in Strong(r) : WithinTimeout(f.pkt) =>
    \/ IsDecoded(r, Key(f.pkt))
    \/ states[r][Key(f.pkt)].count >= Cardinality(Done(r, f.pkt))

LEMMA FiniteElements ==
  ASSUME NEW S, NEW s \in Seq(S)
  PROVE  IsFiniteSet(ToSet(s))
<1> DEFINE T == ToSet(s)  n == Len(s)  g == [i \in 1..n |-> s[i]]
<1>1. g \in Surjection(1..n, T) /\ n \in Nat
  BY DEF Surjection, ToSet
<1>2. IsFiniteSet(1..n)
  BY <1>1, FS_Interval, 1 \in Int, n \in Int
<1> HIDE DEF T, g, n
<1>3. IsFiniteSet(T)
  BY <1>1, <1>2, FS_Surjection
<1> QED
  BY <1>3 DEF T

\* The slots of a packet that are over were sent in.
LEMMA CopyOnAir ==
  ASSUME NodesInv, NEW f \in air, NEW x \in ToSet(f.pkt.allSlots),
         x < slot \/ (x = slot /\ phase # "boundary")
  PROVE  [pkt |-> f.pkt, slot |-> x] \in air
<1> DEFINE v == f.pkt.src
<1>1. MacTypes /\ InTime
  BY DEF NodesInv, MacInv
<1>2. v \in Nodes /\ f.pkt \in Taken(v) /\ slot \in Nat
  BY <1>1, AirTypes DEF Taken, OnAir, MacTypes
<1>3. \/ \E e \in Starts(v) : e.at = x /\ e.pkt = f.pkt
      \/ [pkt |-> f.pkt, slot |-> x] \in OnAir(v)
  BY <1>2 DEF NodesInv, MacInv, SendInv, TakenInv
<1>4. ASSUME NEW e \in Starts(v), e.at = x
      PROVE  FALSE
  <2>1. e \in ToSet(events) /\ e.at \in Nat
    BY <1>1, Kinds, EventTypes
  <2>2. slot <= x /\ (phase # "boundary" => slot < x) /\ x \in Nat
    BY <1>1, <1>4, <2>1 DEF InTime
  <2> QED
    BY <1>2, <2>2
<1> QED
  BY <1>3, <1>4 DEF OnAir

\* r has heard the fragment of a slot in which it listened.
LEMMA UndisturbedHeard ==
  ASSUME NodesInv, HearInv, NEW r \in Nodes, NEW f \in air, f.pkt.src # r,
         NEW x \in ToSet(f.pkt.allSlots), ~Sends(r, x),
         x < slot \/ (x = slot /\ phase = "solve")
           \/ (x = slot /\ phase = "flight" /\ inFlight = {})
  PROVE  [pkt |-> f.pkt, slot |-> x] \in heard[r]
<1> DEFINE g == [pkt |-> f.pkt, slot |-> x]
<1>1. g \in air /\ g.slot = x /\ g.pkt = f.pkt
  BY CopyOnAir
<1> HIDE DEF g
<1>2. x \in Nat /\ slot \in Nat
  BY <1>1, AirTypes DEF NodesInv, MacInv, MacTypes
<1>3. [to |-> r, frag |-> g] \notin inFlight
  BY <1>1, <1>2 DEF HearInv
<1>4. g \in heard[r]
  BY <1>1, <1>3 DEF HearInv
<1> QED
  BY <1>4 DEF g

LEMMA CountTypes ==
  ASSUME NodesInv, HearInv, RxInv, NEW r \in Nodes
  PROVE  \A f \in Strong(r) :
           /\ f \in heard[r] /\ f \in air /\ f.pkt.src \in Nodes \ {r}
           /\ f.pkt.src \in inRange[r] /\ f.pkt.allSlots \in Seq(Nat)
           /\ Key(f.pkt) \in DOMAIN states[r]
           /\ states[r][Key(f.pkt)] \in States
           /\ states[r][Key(f.pkt)].count \in Nat
           /\ states[r][Key(f.pkt)].s = f.pkt.s
           /\ IsFiniteSet(Done(r, f.pkt)) /\ Cardinality(Done(r, f.pkt)) \in Nat
<1> SUFFICES ASSUME NEW f \in Strong(r)
             PROVE  /\ f \in heard[r] /\ f \in air /\ f.pkt.src \in Nodes \ {r}
                    /\ f.pkt.src \in inRange[r] /\ f.pkt.allSlots \in Seq(Nat)
                    /\ Key(f.pkt) \in DOMAIN states[r]
                    /\ states[r][Key(f.pkt)] \in States
                    /\ states[r][Key(f.pkt)].count \in Nat
                    /\ states[r][Key(f.pkt)].s = f.pkt.s
                    /\ IsFiniteSet(Done(r, f.pkt)) /\ Cardinality(Done(r, f.pkt)) \in Nat
  OBVIOUS
<1>1. f \in heard[r] /\ f.pkt.src \in inRange[r]
  BY DEF Strong
<1>2. f \in air /\ f.pkt.src \in Nodes \ {r} /\ f.pkt.allSlots \in Seq(Nat)
  BY <1>1, HeardFacts, AirTypes DEF NodesInv, MacInv
<1>3. /\ Key(f.pkt) \in DOMAIN states[r] /\ states[r][Key(f.pkt)] \in States
      /\ states[r][Key(f.pkt)].s = f.pkt.s
  <2>1. BufferInv(r) /\ Key(f.pkt) \in DOMAIN states[r]
    BY <1>1 DEF RxInv, BufferInv
  <2>2. states[r][Key(f.pkt)] \in States
    BY <2>1, BufferTypes DEF RxInv, RxTypes
  <2>3. IsOf(Key(f.pkt), f.pkt)
    BY DEF IsOf, Key
  <2>4. StateOf(f.pkt, states[r][Key(f.pkt)])
    BY <1>2, <2>1, <2>3, StateHeard
  <2> QED
    BY <2>1, <2>2, <2>4 DEF StateOf
<1>4. states[r][Key(f.pkt)].count \in Nat
  BY <1>3, StateFields
<1>5. Done(r, f.pkt) \subseteq ToSet(f.pkt.allSlots) /\ IsFiniteSet(ToSet(f.pkt.allSlots))
  BY <1>2, FiniteElements DEF Done
<1>6. IsFiniteSet(Done(r, f.pkt)) /\ Cardinality(Done(r, f.pkt)) \in Nat
  BY <1>5, FS_Subset, FS_CardinalityType
<1> QED
  BY <1>1, <1>2, <1>3, <1>4, <1>6

\* A step that counts nothing and ends no slot to which it matters.
LEMMA CountKept ==
  ASSUME NodesInv, HearInv, RxInv, NEW r \in Nodes, CountInv(r),
         states'[r] = states[r], Strong(r)' = Strong(r), air \subseteq air',
         \A f \in Strong(r) : ~IsDecoded(r, Key(f.pkt)) /\ WithinTimeout(f.pkt) =>
           \A x \in ToSet(f.pkt.allSlots) :
             (Over(r, x) /\ Undisturbed(r, f.pkt, x))'
               => Over(r, x) /\ Undisturbed(r, f.pkt, x)
  PROVE  CountInv(r)'
<1> SUFFICES ASSUME NEW f \in Strong(r), WithinTimeout(f.pkt)
             PROVE  \/ IsDecoded(r, Key(f.pkt))'
                    \/ states'[r][Key(f.pkt)].count >= Cardinality(Done(r, f.pkt)')
  <2>1. \A p : WithinTimeout(p)' => WithinTimeout(p)
    BY DEF WithinTimeout
  <2> QED
    BY <2>1 DEF CountInv
<1>7. CASE IsDecoded(r, Key(f.pkt))
  BY <1>7 DEF IsDecoded
<1> SUFFICES ASSUME ~IsDecoded(r, Key(f.pkt))
             PROVE  states'[r][Key(f.pkt)].count >= Cardinality(Done(r, f.pkt)')
  BY <1>7
<1>1. Done(r, f.pkt)' \subseteq Done(r, f.pkt)
  BY DEF Done
<1>2. /\ IsFiniteSet(Done(r, f.pkt)) /\ Cardinality(Done(r, f.pkt)) \in Nat
      /\ states[r][Key(f.pkt)].count \in Nat
  BY CountTypes
<1> DEFINE D == Done(r, f.pkt)  E == Done(r, f.pkt)'
<1>3. E \subseteq D /\ IsFiniteSet(D) /\ Cardinality(D) \in Nat
  BY <1>1, <1>2
<1>4. states[r][Key(f.pkt)].count >= Cardinality(D)
  BY DEF CountInv
<1> HIDE DEF D, E
<1>5. Cardinality(E) <= Cardinality(D) /\ Cardinality(E) \in Nat
  BY <1>3, FS_Subset, FS_CardinalityType
<1>6. states[r][Key(f.pkt)].count >= Cardinality(E)
  BY <1>2, <1>3, <1>4, <1>5
<1> QED
  BY <1>6 DEF E

LEMMA CountStartSend ==
  ASSUME NodesInv, HearInv, RxInv, NEW v \in Nodes, StartSend(v),
         NEW r \in Nodes, CountInv(r)
  PROVE  CountInv(r)'
<1>1. UNCHANGED <<slot, phase, inRange, states, heard>>
  BY DEF StartSend, clockVars, rxVars
<1>2. PICK h : air' = air \cup {h} /\ h.slot = slot
  BY DEF StartSend
<1>3. phase = "boundary" /\ slot \in Nat
  BY DEF StartSend, Runs, NodesInv, MacInv, MacTypes
<1>4. ASSUME NEW p, NEW x, Over(r, x)', Undisturbed(r, p, x)'
      PROVE  Over(r, x) /\ Undisturbed(r, p, x)
  <2>1. Over(r, x)
    BY <1>1, <1>3, <1>4 DEF Over
  <2>2. ~Sends(r, x)
    BY <1>2, <1>4 DEF Undisturbed, Sends
  <2> QED
    BY <1>1, <1>2, <1>4, <2>1, <2>2 DEF Undisturbed
<1>5. states'[r] = states[r] /\ Strong(r)' = Strong(r) /\ air \subseteq air'
  BY <1>1, <1>2 DEF Strong
<1> QED
  BY <1>4, <1>5, CountKept

\* What happens elsewhere, and what r sees of it.
LEMMA CountElsewhere ==
  ASSUME NodesInv, HearInv, RxInv, NEW r \in Nodes, CountInv(r),
         UNCHANGED <<slot, phase, inRange, air>>,
         states'[r] = states[r], heard'[r] = heard[r],
         active'[r] = active[r], r \in solvingAsked => r \in solvingAsked'
  PROVE  CountInv(r)'
<1>1. ASSUME NEW p, NEW x
      PROVE  /\ Over(r, x)' => Over(r, x)
             /\ Undisturbed(r, p, x)' <=> Undisturbed(r, p, x)
  <2>1. Sends(r, x)' <=> Sends(r, x)
    BY DEF Sends
  <2> QED
    BY <2>1 DEF Over, Undisturbed
<1>2. Strong(r)' = Strong(r)
  BY DEF Strong
<1> QED
  BY <1>1, <1>2, CountKept

\* The first fragment of a packet comes before any slot r has it to itself in is
\* over.
LEMMA CountReceive ==
  ASSUME NodesInv, HearInv, RxInv, NEW m \in inFlight, Receive(m),
         NEW r \in Nodes, CountInv(r)
  PROVE  CountInv(r)'
<1> DEFINE u == m.to  h == m.frag
<1>1. UNCHANGED <<slot, phase, inRange, air, active>> /\ solvingAsked \subseteq solvingAsked'
  BY DEF Receive, clockVars, rxVars
<1>2. /\ u \in Nodes /\ h \in air /\ h.slot = slot /\ h.pkt \in Packets /\ phase = "flight"
      /\ h.pkt.src # u
      /\ \A q \in Nodes \ {u} : ReceiverKept(q)
      /\ \/ ReceiverKept(u)
         \/ \E k : Adds(u, k, h)
  BY ReceiveFacts DEF RxInv
<1>5. RxInv'
  BY ReceiveStep
<1> HIDE DEF u, h
<1>3. CASE ReceiverKept(r)
  BY <1>1, <1>3, CountElsewhere DEF ReceiverKept
<1>4. ASSUME r = u, NEW j, Adds(r, j, h)
      PROVE  CountInv(r)'
  <2>6. /\ DOMAIN states'[r] = DOMAIN states[r] \cup {j}
        /\ \A i \in DOMAIN states[r] : states'[r][i] = states[r][i]
        /\ j \notin DOMAIN states[r] => states'[r][j] = NewState(h.pkt)
        /\ heard'[r] = heard[r] \cup {h}
    BY <1>4 DEF Adds
  <2>1. ASSUME NEW p, NEW x
        PROVE  /\ Over(r, x)' <=> x < slot
               /\ Over(r, x) <=> x < slot
               /\ Undisturbed(r, p, x)' <=> Undisturbed(r, p, x)
    <3>1. Sends(r, x)' <=> Sends(r, x)
      BY <1>1 DEF Sends
    <3> QED
      BY <1>1, <1>2, <3>1 DEF Over, Undisturbed
  <2>2. \A p : Done(r, p)' = Done(r, p)
    BY <2>1 DEF Done
  <2> SUFFICES ASSUME NEW f \in Strong(r)', WithinTimeout(f.pkt)
               PROVE  \/ IsDecoded(r, Key(f.pkt))'
                      \/ states'[r][Key(f.pkt)].count >= Cardinality(Done(r, f.pkt)')
    <3>1. \A p : WithinTimeout(p)' => WithinTimeout(p)
      BY <1>1 DEF WithinTimeout
    <3> QED
      BY <3>1 DEF CountInv
  <2> DEFINE k == Key(f.pkt)
  <2>3. f.pkt.src \in inRange[r] /\ (f \in heard[r] \/ f = h)
    BY <1>1, <2>6 DEF Strong
  <2>4. CASE k \in DOMAIN states[r]
    <3>1. f \in air /\ IsOf(k, f.pkt) /\ BufferInv(r)
      BY <1>2, <1>4, <2>3, HeardFacts DEF IsOf, Key, RxInv
    <3>2. PICK g \in heard[r] : g.pkt = f.pkt
      BY <2>4, <3>1, StateHeard
    <3>3. g \in Strong(r)
      BY <2>3, <3>2 DEF Strong
    <3>4. states'[r][k] = states[r][k]
      BY <2>4, <2>6
    <3>5. \/ IsDecoded(r, k)
          \/ states[r][k].count >= Cardinality(Done(r, f.pkt))
      BY <3>2, <3>3 DEF CountInv
    <3> QED
      BY <2>2, <3>4, <3>5 DEF IsDecoded
  <2>5. CASE k \notin DOMAIN states[r]
    <3>1. f = h
      BY <2>3, <2>5 DEF RxInv, BufferInv
    <3>2. states'[r][k] = NewState(h.pkt)
      <4>1. k \in DOMAIN states'[r]
        BY <1>5, <2>6, <3>1 DEF RxInv, BufferInv
      <4> QED
        BY <2>5, <2>6, <4>1
    <3>3. ASSUME NEW x \in Done(r, h.pkt)
          PROVE  FALSE
      <4>1. x \in ToSet(h.pkt.allSlots) /\ x < slot /\ ~Sends(r, x)
        BY <2>1 DEF Done, Undisturbed
      <4>2. [pkt |-> h.pkt, slot |-> x] \in heard[r]
        BY <1>2, <1>4, <4>1, UndisturbedHeard
      <4>3. [pkt |-> h.pkt, slot |-> x].pkt = h.pkt
        OBVIOUS
      <4>4. k \in DOMAIN states[r]
        BY <3>1, <4>2, <4>3 DEF RxInv, BufferInv
      <4> QED
        BY <2>5, <4>4
    <3>4. Cardinality(Done(r, h.pkt)) = 0
      BY <3>3, FS_EmptySet
    <3>5. NewState(h.pkt).count = 0
      BY DEF NewState
    <3> QED
      BY <2>2, <3>1, <3>2, <3>4, <3>5
  <2> QED
    BY <2>4, <2>5
<1> QED
  BY <1>2, <1>3, <1>4

LEMMA CountStartSolve ==
  ASSUME NodesInv, HearInv, RxInv, NEW u \in Nodes, StartSolve(u),
         NEW r \in Nodes, CountInv(r)
  PROVE  CountInv(r)'
<1>1. /\ UNCHANGED <<slot, phase, inRange, air, heard, states>>
      /\ active' = [active EXCEPT ![u] = <<slot>>]
      /\ solvingAsked' = solvingAsked \ {u}
      /\ active \in [Nodes -> Seq(Nat)]
  BY DEF StartSolve, clockVars, RxInv, RxTypes, SolverInv
<1>2. CASE r # u
  <2>1. active'[r] = active[r] /\ (r \in solvingAsked => r \in solvingAsked')
    BY <1>1, <1>2
  <2> QED
    BY <1>1, <2>1, CountElsewhere
<1>3. CASE r = u
  <2>1. active'[r] = <<slot>>
    BY <1>1, <1>3
  <2>2. slot \in ToSet(active'[r])
    BY <2>1 DEF ToSet
  <2>3. ASSUME NEW p, NEW x
        PROVE  /\ Over(r, x)' => Over(r, x)
               /\ Undisturbed(r, p, x)' <=> Undisturbed(r, p, x)
    <3>1. Sends(r, x)' <=> Sends(r, x)
      BY <1>1 DEF Sends
    <3> QED
      BY <1>1, <2>2, <3>1 DEF Over, Undisturbed
  <2>4. Strong(r)' = Strong(r)
    BY <1>1 DEF Strong
  <2> QED
    BY <1>1, <2>3, <2>4, CountKept
<1> QED
  BY <1>2, <1>3

\* With the phase a slot ends only for a receiver that had nothing in it.
LEMMA CountTick ==
  ASSUME NodesInv, HearInv, RxInv, Tick, NEW r \in Nodes, CountInv(r)
  PROVE  CountInv(r)'
<1>1. UNCHANGED <<inRange, air, heard, states, active, solvingAsked>>
  BY DEF Tick, rxVars
<1>2. slot \in Nat /\ \A p, x : Undisturbed(r, p, x)' <=> Undisturbed(r, p, x)
  <2>1. \A x : Sends(r, x)' <=> Sends(r, x)
    BY <1>1 DEF Sends
  <2> QED
    BY <1>1, <2>1 DEF Undisturbed, NodesInv, MacInv, MacTypes
<1>3. Strong(r)' = Strong(r)
  BY <1>1 DEF Strong
<1> SUFFICES ASSUME NEW f \in Strong(r), NEW x \in ToSet(f.pkt.allSlots),
                    Over(r, x)', Undisturbed(r, f.pkt, x)
             PROVE  Over(r, x)
  BY <1>1, <1>2, <1>3, CountKept
<1>4. f \in air /\ f.pkt.src # r /\ f.pkt.allSlots \in Seq(Nat)
  BY CountTypes
<1>5. x \in Nat
  BY <1>4, ToSetFacts
<1>6. CASE phase = "boundary" /\ phase' = "flight" /\ UNCHANGED slot
  BY <1>6 DEF Over
<1>7. CASE phase = "flight" /\ inFlight = {} /\ phase' = "solve" /\ UNCHANGED slot
  <2>1. CASE x = slot /\ r \notin solvingAsked
    <3>1. [pkt |-> f.pkt, slot |-> x] \in heard[r]
      BY <1>4, <1>7, <2>1, UndisturbedHeard DEF Undisturbed
    <3>2. [pkt |-> f.pkt, slot |-> x].slot = slot
      BY <2>1
    <3> QED
      BY <1>7, <2>1, <3>1, <3>2 DEF RxInv, RxTypes, SolverInv
  <2> QED
    BY <1>1, <1>7, <2>1 DEF Over
<1>8. CASE /\ phase = "solve" /\ phase' = "boundary" /\ slot' = slot + 1
           /\ solvingAsked = {} /\ SolversIdle
  <2>1. x < slot \/ x = slot
    BY <1>2, <1>5, <1>8 DEF Over
  <2>2. ToSet(active[r]) = {}
    BY <1>8 DEF SolversIdle, ToSet
  <2> QED
    BY <1>8, <2>1, <2>2 DEF Over
<1> QED
  BY <1>6, <1>7, <1>8 DEF Tick

\* A signal that r has to itself is what is left of its slot.
LEMMA UndisturbedLeft ==
  ASSUME NodesInv, HearInv, RxInv, NEW r \in Nodes, NEW f \in Strong(r),
         ~IsDecoded(r, Key(f.pkt)), WithinTimeout(f.pkt),
         NEW x \in ToSet(f.pkt.allSlots), Undisturbed(r, f.pkt, x),
         x = slot, phase = "solve"
  PROVE  Left(r, x) = {Key(f.pkt)}
<1> DEFINE g == [pkt |-> f.pkt, slot |-> x]  e == [slot |-> x, key |-> Key(f.pkt)]
<1>1. g.pkt = f.pkt /\ g.slot = x /\ e.slot = x /\ e.key = Key(f.pkt)
  OBVIOUS
<1>2. f \in air /\ f.pkt.src \in Nodes \ {r} /\ f.pkt.src \in inRange[r]
  BY CountTypes
<1>3. g \in heard[r]
  BY <1>2, UndisturbedHeard DEF Undisturbed
<1>4. f.pkt \in Packets /\ Key(f.pkt)[1] = f.pkt.src
  BY <1>2, AirTypes, StateFields DEF NodesInv, MacInv
<1>5. e \in slotBuffer[r]
  <2>1. g \in Strong(r)
    BY <1>1, <1>2, <1>3 DEF Strong
  <2>2. ~Lost(r, g.slot)
    BY <1>1, SlotIsNat, NetAssumption DEF Lost
  <2>3. Kept(r, g)
    BY <2>1, <2>2 DEF RxInv, BufferInv
  <2>4. PICK k \in DOMAIN states[r] :
          /\ IsOf(k, g.pkt)
          /\ [slot |-> g.slot, key |-> k] \in slotBuffer[r] \/ IsDecoded(r, k)
    BY <2>3 DEF Kept
  <2>5. k = Key(f.pkt)
    BY <1>1, <1>3, <2>4 DEF RxInv, TimerInv
  <2> QED
    BY <1>1, <2>4, <2>5
<1>6. e \in CleanSlot(r, x)
  BY <1>1, <1>2, <1>4, <1>5 DEF CleanSlot
<1>7. ASSUME NEW d \in CleanSlot(r, x), d.slot = x
      PROVE  d.key = Key(f.pkt)
  <2>1. d \in slotBuffer[r] /\ d.key[1] \in inRange[r]
    BY <1>7 DEF CleanSlot
  <2>2. PICK h \in heard[r] : d.slot = h.slot /\ IsOf(d.key, h.pkt)
    BY <2>1 DEF RxInv, BufferInv
  <2>3. h \in air /\ h.slot = x /\ h.pkt.src \in inRange[r]
    BY <1>7, <2>1, <2>2, HeardFacts DEF IsOf
  <2>4. h.pkt = f.pkt
    BY <2>3 DEF Undisturbed
  <2>5. d.key \in DOMAIN states[r]
    BY <2>1 DEF RxInv, BufferInv
  <2> QED
    BY <2>2, <2>4, <2>5 DEF RxInv, TimerInv
<1> HIDE DEF e
<1>8. \A k : k \in Left(r, x) <=> k = Key(f.pkt)
  BY <1>1, <1>6, <1>7 DEF Left
<1> QED
  BY <1>8

\* When the solver is done with a slot that a packet had to itself, it has just
\* counted that packet.
LEMMA CountSolve ==
  ASSUME NodesInv, HearInv, RxInv, NEW u \in Nodes, SolveSlot(u),
         NEW r \in Nodes, CountInv(r)
  PROVE  CountInv(r)'
<1> DEFINE y == Head(active[u])
<1>1. UNCHANGED <<slot, phase, inRange, air, heard, solvingAsked>>
  BY DEF SolveSlot, clockVars
<1>2. /\ active[u] # <<>> /\ y \in Nat
      /\ \A q \in Nodes \ {u} : ReceiverKept(q) /\ active'[q] = active[q]
      /\ \/ /\ y > slot /\ states'[u] = states[u]
            /\ active'[u] = Tail(active[u])
         \/ /\ y <= slot /\ \A k : Left(u, y) # {k}
            /\ states'[u] = states[u] /\ active'[u] = Tail(active[u])
         \/ y <= slot /\ \E k : Left(u, y) = {k} /\ Counts(u, k)
  BY SolveFacts DEF RxInv
<1> HIDE DEF y
<1>3. CASE r # u
  BY <1>1, <1>2, <1>3, CountElsewhere DEF ReceiverKept
<1>4. CASE r = u
  <2>1. /\ phase = "solve" /\ slot \in Nat
        /\ active[r] \in Seq(Nat) /\ y = Head(active[r]) /\ active[r] # <<>>
    BY <1>2, <1>4 DEF y, RxInv, RxTypes, SolverInv, NodesInv, MacInv, MacTypes
  <2>2. Strong(r)' = Strong(r) /\ \A p, x : Undisturbed(r, p, x)' <=> Undisturbed(r, p, x)
    <3>1. \A x : Sends(r, x)' <=> Sends(r, x)
      BY <1>1 DEF Sends
    <3> QED
      BY <1>1, <3>1 DEF Strong, Undisturbed
  <2>3. ToSet(Tail(active[r])) \subseteq ToSet(active'[r])
    <3>1. CASE active'[r] = Tail(active[r])
      BY <3>1
    <3>2. ASSUME NEW k, Counts(r, k), active'[r] = Tail(active[r]) \o states[r][k].allSlots
          PROVE  ToSet(Tail(active[r])) \subseteq ToSet(active'[r])
      <4> DEFINE a == Tail(active[r])  b == states[r][k].allSlots
      <4>1. a \in Seq(Nat)
        BY <2>1
      <4>2. b \in Seq(Nat)
        <5>1. states[r] \in Buffers /\ k \in DOMAIN states[r]
          BY <3>2 DEF RxInv, RxTypes, Counts
        <5>2. states[r][k] \in States
          BY <5>1, BufferTypes
        <5> QED
          BY <5>2, StateFields
      <4> HIDE DEF a, b
      <4>3. \A i \in 1..Len(a) : i \in 1..Len(a \o b) /\ (a \o b)[i] = a[i]
        BY <4>1, <4>2
      <4>4. a \o b \in Seq(Nat)
        BY <4>1, <4>2
      <4>5. ToSet(a) \subseteq ToSet(a \o b)
        <5>1. \A s \in Seq(Nat) : \A z : z \in ToSet(s) <=> \E i \in 1..Len(s) : s[i] = z
          BY ToSetFacts
        <5> SUFFICES ASSUME NEW z \in ToSet(a) PROVE z \in ToSet(a \o b)
          OBVIOUS
        <5>2. PICK i \in 1..Len(a) : a[i] = z
          BY <4>1, <5>1
        <5>3. i \in 1..Len(a \o b) /\ (a \o b)[i] = z
          BY <4>3, <5>2
        <5> QED
          BY <4>4, <5>1, <5>3
      <4> QED
        BY <3>2, <4>5 DEF a, b
    <3>3. \A k : Counts(r, k) =>
                  \/ active'[r] = Tail(active[r])
                  \/ active'[r] = Tail(active[r]) \o states[r][k].allSlots
      BY DEF Counts
    <3>4. active'[r] = Tail(active[r]) \/ \E k : Counts(r, k)
      BY <1>2, <1>4
    <3> QED
      BY <3>1, <3>2, <3>3, <3>4
  <2>4. ASSUME NEW x, Over(r, x)'
        PROVE  Over(r, x) \/ (x = y /\ y = slot)
    <3>1. CASE x < slot
      BY <3>1 DEF Over
    <3>2. CASE x = slot /\ r \notin solvingAsked /\ x \notin ToSet(active'[r])
      <4>1. x \notin ToSet(Tail(active[r]))
        BY <2>3, <3>2
      <4>2. x \in ToSet(active[r]) => x = y
        <5> DEFINE a == active[r]
        <5>1. a \in Seq(Nat) /\ a # <<>> /\ y = Head(a)
          BY <2>1
        <5> HIDE DEF a
        <5>2. \A i \in 1..Len(a) : i = 1 \/ (i - 1 \in 1..Len(Tail(a)) /\ Tail(a)[i - 1] = a[i])
          BY <5>1
        <5>3. a[1] = y /\ Tail(a) \in Seq(Nat)
          BY <5>1
        <5>4. x \in ToSet(a) => x = y \/ x \in ToSet(Tail(a))
          <6>1. \A s \in Seq(Nat) : \A z : z \in ToSet(s) <=> \E i \in 1..Len(s) : s[i] = z
            BY ToSetFacts
          <6> SUFFICES ASSUME x \in ToSet(a), x # y PROVE x \in ToSet(Tail(a))
            OBVIOUS
          <6>2. PICK i \in 1..Len(a) : a[i] = x
            BY <5>1, <6>1
          <6>3. i - 1 \in 1..Len(Tail(a)) /\ Tail(a)[i - 1] = x
            BY <5>2, <5>3, <6>2
          <6> QED
            BY <5>3, <6>1, <6>3
        <5> QED
          BY <4>1, <5>4 DEF a
      <4> QED
        BY <2>1, <3>2, <4>2 DEF Over
    <3> QED
      BY <1>1, <2>4, <3>1, <3>2 DEF Over
  <2>5. ASSUME NEW f \in Strong(r), ~IsDecoded(r, Key(f.pkt)), WithinTimeout(f.pkt),
               NEW x \in ToSet(f.pkt.allSlots), Over(r, x)', Undisturbed(r, f.pkt, x)
        PROVE  Over(r, x) \/ (x = y /\ Left(r, y) = {Key(f.pkt)})
    BY <2>1, <2>4, <2>5, UndisturbedLeft
  <2>6. CASE /\ states'[r] = states[r]
             /\ y > slot \/ \A k : Left(r, y) # {k}
    <3>1. ASSUME NEW f \in Strong(r), ~IsDecoded(r, Key(f.pkt)), WithinTimeout(f.pkt),
                 NEW x \in ToSet(f.pkt.allSlots), Over(r, x)', Undisturbed(r, f.pkt, x)
          PROVE  Over(r, x)
      <4>1. CASE \A k : Left(r, y) # {k}
        BY <2>5, <3>1, <4>1
      <4>2. CASE y > slot
        <5>1. ~(y = slot)
          BY <1>2, <2>1, <4>2
        <5> QED
          BY <2>4, <3>1, <5>1
      <4> QED
        BY <2>6, <4>1, <4>2
    <3> QED
      BY <1>1, <2>2, <2>6, <3>1, CountKept
  <2>7. ASSUME NEW k, Left(r, y) = {k}, Counts(r, k)
        PROVE  CountInv(r)'
    <3> SUFFICES ASSUME NEW f \in Strong(r), WithinTimeout(f.pkt)
                 PROVE  \/ IsDecoded(r, Key(f.pkt))'
                        \/ states'[r][Key(f.pkt)].count
                             >= Cardinality(Done(r, f.pkt)')
      <4>1. \A p : WithinTimeout(p)' => WithinTimeout(p)
        BY <1>1 DEF WithinTimeout
      <4> QED
        BY <2>2, <4>1 DEF CountInv
    <3> DEFINE j == Key(f.pkt)  D == Done(r, f.pkt)  E == Done(r, f.pkt)'
    <3>1. /\ j \in DOMAIN states[r] /\ states[r][j].count \in Nat
          /\ IsFiniteSet(D) /\ Cardinality(D) \in Nat
      BY CountTypes
    <3>2. IsDecoded(r, j) \/ states[r][j].count >= Cardinality(D)
      BY DEF CountInv
    <3>3. ASSUME ~IsDecoded(r, j), NEW x \in E
          PROVE  x \in D \/ (x = y /\ j = k)
      <4>1. x \in ToSet(f.pkt.allSlots) /\ Over(r, x)' /\ Undisturbed(r, f.pkt, x)
        BY <2>2 DEF Done
      <4>2. Over(r, x) \/ (x = y /\ Left(r, y) = {j})
        BY <2>5, <3>3, <4>1
      <4>3. Over(r, x) => x \in D
        BY <4>1 DEF Done
      <4> QED
        BY <2>7, <4>2, <4>3
    <3>4. CASE j # k
      <4>1. states'[r][j] = states[r][j]
        BY <2>7, <3>1, <3>4 DEF Counts
      <4>2. CASE IsDecoded(r, j)
        BY <4>1, <4>2 DEF IsDecoded
      <4>3. CASE ~IsDecoded(r, j)
        <5>1. E \subseteq D
          BY <3>3, <3>4, <4>3
        <5> HIDE DEF D, E
        <5>2. Cardinality(E) <= Cardinality(D) /\ Cardinality(E) \in Nat
          BY <3>1, <5>1, FS_Subset, FS_CardinalityType
        <5>3. states'[r][j].count >= Cardinality(E)
          BY <3>1, <3>2, <4>1, <4>3, <5>2
        <5> QED
          BY <5>3 DEF E
      <4> QED
        BY <4>2, <4>3
    <3>5. CASE j = k
      <4>1. states'[r][j].count = states[r][j].count + 1 /\ ~IsDecoded(r, j)
        BY <2>7, <3>5 DEF Counts
      <4>2. E \subseteq D \cup {y}
        BY <3>3, <4>1
      <4> HIDE DEF D, E
      <4>3. IsFiniteSet(D \cup {y})
            /\ Cardinality(D \cup {y}) = IF y \in D THEN Cardinality(D) ELSE Cardinality(D) + 1
        BY <3>1, FS_AddElement
      <4>4. Cardinality(E) <= Cardinality(D \cup {y}) /\ Cardinality(E) \in Nat
        BY <4>2, <4>3, FS_Subset, FS_CardinalityType
      <4>5. states'[r][j].count >= Cardinality(E)
        BY <3>1, <3>2, <4>1, <4>3, <4>4
      <4> QED
        BY <4>5 DEF E
    <3> QED
      BY <3>4, <3>5
  <2> QED
    BY <1>2, <1>4, <2>6, <2>7
<1> QED
  BY <1>3, <1>4

LEMMA CountInvStep ==
  ASSUME NodesInv, HearInv, RxInv, [Next]_vars, \A r \in Nodes : CountInv(r)
  PROVE  \A r \in Nodes : CountInv(r)'
<1> SUFFICES ASSUME NEW r \in Nodes, CountInv(r) PROVE CountInv(r)'
  OBVIOUS
<1>1. CASE UNCHANGED <<slot, phase, inRange, air, rxVars>>
  BY <1>1, CountElsewhere DEF rxVars
<1>2. CASE UNCHANGED vars
  BY <1>1, <1>2 DEF vars, clockVars
<1>3. CASE (\E v \in Talkers : Traffic(v)) \/ \E v \in Nodes : Dequeue(v) \/ EndSend(v)
  BY <1>1, <1>3 DEF Traffic, Enqueue, Dequeue, EndSend, clockVars
<1>4. CASE \E v \in Nodes : StartSend(v)
  BY <1>4, CountStartSend
<1>5. CASE \E v \in Nodes : StartSolve(v) \/ SolveSlot(v)
  BY <1>5, CountStartSolve, CountSolve
<1>6. CASE \E m \in inFlight : Receive(m)
  BY <1>6, CountReceive
<1>7. CASE Tick
  BY <1>7, CountTick
<1>8. CASE Expiry
  BY <1>8, ExpiryFacts, CountElsewhere
<1> QED
  BY <1>2, <1>3, <1>4, <1>5, <1>6, <1>7, <1>8 DEF Next, Expiry

\* What the access scheme promises: a packet whose copies lie within the timeout and
\* of which s copies reach a node undisturbed, while it listens, is delivered there,
\* in whatever order packets are sent, fragments come in, slots are solved and the
\* states of other packets expire.
THEOREM UndisturbedArrives == Spec => []UndisturbedIsDelivered
<1> DEFINE I == Inv /\ \A r \in Nodes : CountInv(r)
<1>1. Init => I
  <2>1. Init => \A r \in Nodes : CountInv(r)
    BY DEF Init, CountInv, Strong
  <2> QED
    BY <2>1, InvInit
<1>2. I /\ [Next]_vars => I'
  BY InvStep, CountInvStep DEF Inv
<1>3. I => UndisturbedIsDelivered
  <2> SUFFICES ASSUME I, NEW r \in Nodes, NEW f \in air, f.pkt.src # r,
                      f.pkt.src \in inRange[r], WithinTimeout(f.pkt),
                      Cardinality(AloneIn(r, f.pkt)) >= f.pkt.s
               PROVE  IsDelivered(r, f.pkt)
    BY DEF UndisturbedIsDelivered
  <2> DEFINE p == f.pkt  k == Key(p)  A == AloneIn(r, p)  D == Done(r, p)
  <2>1. NodesInv /\ HearInv /\ RxInv /\ p.s \in Nat \ {0}
    BY AirTypes DEF Inv, NodesInv, MacInv
  <2>2. A \subseteq D
    BY DEF AloneIn, Done, Over, Undisturbed, SlotDone
  <2>3. PICK x \in A : TRUE
    BY <2>1, FS_EmptySet
  <2>4. x \in ToSet(p.allSlots) /\ x < slot /\ ~Sends(r, x)
    BY DEF AloneIn, SlotDone
  <2> DEFINE g == [pkt |-> p, slot |-> x]
  <2>5. g \in heard[r] /\ g.pkt = p
    BY <2>1, <2>4, UndisturbedHeard
  <2>6. g \in Strong(r)
    BY <2>5 DEF Strong
  <2>7. /\ k \in DOMAIN states[r] /\ states[r][k].count \in Nat
        /\ states[r][k].s = p.s /\ IsFiniteSet(D)
    BY <2>1, <2>5, <2>6, CountTypes
  <2>8. IsDecoded(r, k) \/ states[r][k].count >= Cardinality(D)
    BY <2>5, <2>6 DEF CountInv
  <2>9. IsDecoded(r, k)
    <3> HIDE DEF A, D, k
    <3>1. Cardinality(A) <= Cardinality(D) /\ Cardinality(A) \in Nat /\ Cardinality(D) \in Nat
      BY <2>2, <2>7, FS_Subset, FS_CardinalityType
    <3>2. Cardinality(A) >= p.s
      BY DEF A
    <3> QED
      BY <2>1, <2>7, <2>8, <3>1, <3>2 DEF IsDecoded
  <2>10. k \in ToSet(delivered[r])
    BY <2>1, <2>7, <2>9 DEF RxInv, BufferInv
  <2>11. IsOf(k, p)
    BY DEF IsOf, Key
  <2> QED
    BY <2>10, <2>11 DEF IsDelivered
<1> QED
  BY <1>1, <1>2, <1>3, PTL DEF Spec

-----------------------------------------------------------------------------
(* Every receiver implements the abstract decoder *)

DecoderStep(r) == UNCHANGED Decoder(r)!vars \/ Decoder(r)!Next

LEMMA DecoderKept ==
  ASSUME NEW r, UNCHANGED <<slot, phase, inRange>>, heard'[r] = heard[r],
         delivered'[r] = delivered[r]
  PROVE  DecoderStep(r)
<1>1. SignalsOf(r)' = SignalsOf(r) /\ LastSlotOver' = LastSlotOver /\ Known(r)' = Known(r)
  BY DEF SignalsOf, Strong, LastSlotOver, Known
<1> QED
  BY <1>1 DEF DecoderStep, Decoder!vars

\* A fragment comes in during its slot, which is not over.
LEMMA ReceiveHears ==
  ASSUME NodesInv, HearInv, RxInv, NEW m \in inFlight, Receive(m), NEW r \in Nodes
  PROVE  DecoderStep(r)
<1> DEFINE u == m.to  h == m.frag
<1>1. UNCHANGED <<slot, phase, inRange, delivered>>
  BY DEF Receive, clockVars
<1>2. /\ phase = "flight" /\ h.slot = slot
      /\ \A q \in Nodes \ {u} : heard'[q] = heard[q]
      /\ heard'[u] = heard[u] \/ heard'[u] = heard[u] \cup {h}
  BY ReceiveFacts DEF RxInv, ReceiverKept, Adds
<1> HIDE DEF u, h
<1>3. CASE heard'[r] = heard[r]
  BY <1>1, <1>3, DecoderKept
<1>4. CASE heard'[r] = heard[r] \cup {h}
  <2>1. Strong(r) \subseteq Strong(r)' /\ Strong(r)' \subseteq Strong(r) \cup {h}
    BY <1>1, <1>4 DEF Strong
  <2>2. SignalsOf(r) \subseteq SignalsOf(r)'
    BY <2>1 DEF SignalsOf
  <2>3. \A g \in SignalsOf(r)' : g \in SignalsOf(r) \/ g.slot = slot
    BY <1>2, <2>1 DEF SignalsOf
  <2>4. slot \in Nat /\ LastSlotOver = slot - 1 /\ slot > LastSlotOver
        /\ LastSlotOver' = LastSlotOver /\ Known(r)' = Known(r)
    BY <1>1, <1>2 DEF LastSlotOver, NodesInv, MacInv, MacTypes, Known
  <2>5. Decoder(r)!Hear
    BY <1>1, <2>2, <2>3, <2>4 DEF Decoder!Hear
  <2> QED
    BY <2>5 DEF DecoderStep, Decoder!Next
<1> QED
  BY <1>2, <1>3, <1>4

LEMMA TickCloses ==
  ASSUME NodesInv, Tick, slot > 0, NEW r \in Nodes
  PROVE  DecoderStep(r)
<1>1. UNCHANGED <<inRange, heard, delivered>>
  BY DEF Tick, rxVars
<1>2. SignalsOf(r)' = SignalsOf(r) /\ Known(r)' = Known(r)
  BY <1>1 DEF SignalsOf, Strong, Known
<1>3. LastSlotOver' \in Nat /\ LastSlotOver' >= LastSlotOver
  BY DEF Tick, LastSlotOver, NodesInv, MacInv, MacTypes
<1>4. Decoder(r)!Close
  BY <1>1, <1>2, <1>3 DEF Decoder!Close
<1> QED
  BY <1>4 DEF DecoderStep, Decoder!Next

\* Whoever knows the packets that were taken out of a slot finds the one left.
LEMMA SolveDecodes ==
  ASSUME NodesInv, HearInv, RxInv, NEW u \in Nodes, SolveSlot(u), NEW r \in Nodes
  PROVE  DecoderStep(r)
<1> DEFINE x == Head(active[u])
<1>1. UNCHANGED <<slot, phase, inRange, heard>>
  BY DEF SolveSlot, clockVars
<1>2. /\ active[u] # <<>> /\ x \in Nat
      /\ \A q \in Nodes \ {u} : delivered'[q] = delivered[q]
      /\ \/ delivered'[u] = delivered[u]
         \/ x <= slot /\ \E k : Left(u, x) = {k} /\ Counts(u, k)
  BY SolveFacts DEF RxInv, ReceiverKept
<1> HIDE DEF x
<1>3. CASE delivered'[r] = delivered[r]
  BY <1>1, <1>3, DecoderKept
<1>4. ASSUME r = u, x <= slot, NEW k, Left(r, x) = {k}, Counts(r, k),
             delivered'[r] = Append(delivered[r], k)
      PROVE  DecoderStep(r)
  <2> DEFINE D == Known(r)  S == SignalsOf(r)  n == <<k[1], k[2], 0>>
             h == [slot |-> x, pkt |-> n]
  <2>1. LastSlotOver = slot
    BY <1>2, <1>4 DEF LastSlotOver, RxInv, RxTypes, SolverInv
  <2>2. S' = S /\ LastSlotOver' = LastSlotOver
    BY <1>1 DEF SignalsOf, Strong, LastSlotOver
  <2>3. /\ k \in Keys /\ k \notin ToSet(delivered[r])
        /\ delivered[r] \in Seq(Keys) /\ Distinct(delivered[r])
    <3>1. k \in DOMAIN states[r] /\ ~IsDecoded(r, k) /\ states[r] \in Buffers
      BY <1>4 DEF Counts, RxInv, RxTypes
    <3> QED
      BY <3>1, BufferTypes DEF RxInv, RxTypes, BufferInv
  <2>4. Known(r)' = D \cup {n}
    <3>1. ToSet(delivered'[r]) = ToSet(delivered[r]) \cup {k}
      BY <1>4, <2>3, AppendOne
    <3> QED
      BY <3>1 DEF Known
  <2>5. PICK e \in slotBuffer[r] : e.slot = x /\ e.key = k /\ k[1] \in inRange[r]
    BY <1>4 DEF Left, CleanSlot
  <2>6. h \in S
    <3>1. PICK f \in heard[r] : x = f.slot /\ IsOf(k, f.pkt)
      BY <2>5 DEF RxInv, BufferInv
    <3>2. f \in Strong(r) /\ Key(f.pkt) = n
      BY <2>5, <3>1 DEF Strong, IsOf, Key
    <3> QED
      BY <3>1, <3>2 DEF SignalsOf
  <2>10. ASSUME NEW g \in S, g.slot = x
         PROVE  g.pkt \in D \cup {n}
    <3>1. PICK f \in Strong(r) : g = [slot |-> f.slot, pkt |-> Key(f.pkt)]
      BY DEF SignalsOf
    <3>2. g.pkt = Key(f.pkt) /\ f.slot = x /\ f.pkt.src \in inRange[r]
      BY <2>10, <3>1 DEF Strong
    <3>3. Kept(r, f)
      BY <2>5, <3>2 DEF RxInv, BufferInv, Lost
    <3>4. PICK j \in DOMAIN states[r] :
            /\ IsOf(j, f.pkt)
            /\ [slot |-> f.slot, key |-> j] \in slotBuffer[r] \/ IsDecoded(r, j)
      BY <3>3 DEF Kept
    <3>5. Key(f.pkt) = <<j[1], j[2], 0>> /\ j[1] \in inRange[r]
      BY <3>2, <3>4 DEF Key, IsOf
    <3>6. CASE IsDecoded(r, j)
      <4>1. j \in ToSet(delivered[r])
        BY <3>4, <3>6 DEF RxInv, BufferInv
      <4> QED
        BY <3>2, <3>5, <4>1 DEF Known
    <3>7. CASE [slot |-> f.slot, key |-> j] \in slotBuffer[r] /\ ~IsDecoded(r, j)
      <4> DEFINE d == [slot |-> f.slot, key |-> j]
      <4>1. d \in CleanSlot(r, x) /\ d.slot = x /\ d.key = j
        BY <3>2, <3>5, <3>7 DEF CleanSlot
      <4> HIDE DEF d
      <4>2. j \in Left(r, x)
        BY <4>1 DEF Left
      <4>3. j = k
        BY <1>4, <4>2
      <4> QED
        BY <3>2, <3>5, <4>3
    <3> QED
      BY <3>4, <3>6, <3>7
  <2>7. n \in Decoder(r)!HeardPackets
    <3>1. h.pkt = n
      OBVIOUS
    <3> HIDE DEF h
    <3> QED
      BY <2>6, <3>1 DEF Decoder!HeardPackets
  <2>8. ASSUME NEW K, D \subseteq K, Decoder(r)!Closed(K)
        PROVE  n \in K
    <3>1. h \in Decoder(r)!Over /\ h.slot = x /\ h.pkt = n
      BY <1>4, <2>1, <2>6 DEF Decoder!Over
    <3> HIDE DEF h, n
    <3>2. \A g \in Decoder(r)!Over : g.slot = x => g.pkt \in K \cup {n}
      BY <2>8, <2>10 DEF Decoder!Over
    <3> QED
      BY <2>8, <3>1, <3>2 DEF Decoder!Closed
  <2>9. Decoder(r)!Decode
    BY <2>2, <2>4, <2>7, <2>8 DEF Decoder!Decode
  <2> QED
    BY <2>9 DEF DecoderStep, Decoder!Next
<1>5. CASE r # u \/ delivered'[u] = delivered[u]
  BY <1>2, <1>3, <1>5
<1>6. ASSUME r = u, x <= slot, NEW k, Left(r, x) = {k}, Counts(r, k)
      PROVE  DecoderStep(r)
  <2>1. delivered'[r] = Append(delivered[r], k) \/ delivered'[r] = delivered[r]
    BY <1>6 DEF Counts
  <2> QED
    BY <1>3, <1>4, <1>6, <2>1
<1> QED
  BY <1>2, <1>5, <1>6

LEMMA DecoderStepHolds ==
  ASSUME NodesInv, HearInv, RxInv, slot > 0, [Next]_vars
  PROVE  \A r \in Nodes : DecoderStep(r)
<1> SUFFICES ASSUME NEW r \in Nodes PROVE DecoderStep(r)
  OBVIOUS
<1>1. CASE UNCHANGED <<slot, phase, inRange, heard, delivered>>
  BY <1>1, DecoderKept
<1>2. CASE UNCHANGED vars
  BY <1>1, <1>2 DEF vars, clockVars, rxVars
<1>3. CASE \/ \E v \in Talkers : Traffic(v)
           \/ \E v \in Nodes : Dequeue(v) \/ StartSend(v) \/ EndSend(v)
           \/ \E v \in Nodes : StartSolve(v)
  BY <1>1, <1>3 DEF Traffic, Enqueue, Dequeue, StartSend, EndSend, StartSolve, clockVars,
     rxVars
<1>4. CASE \E v \in Nodes : SolveSlot(v)
  BY <1>4, SolveDecodes
<1>5. CASE \E m \in inFlight : Receive(m)
  BY <1>5, ReceiveHears
<1>6. CASE Tick
  BY <1>6, TickCloses
<1>7. CASE Expiry
  BY <1>1, <1>7, ExpiryFacts
<1> QED
  BY <1>2, <1>3, <1>4, <1>5, <1>6, <1>7 DEF Next, Expiry

\* Every node delivers only packets that peeling gets out of the strong fragments
\* it heard, if one of a packet is enough, for every interleaving of the nodes, of
\* the arrivals in a slot, of the solvers and of the expiry timers.
THEOREM ReceiversAreDecoders == Spec => EveryReceiverIsDecoder
<1> DEFINE I == Inv /\ slot > 0
<1>1. Init => I /\ \A r \in Nodes : Decoder(r)!Init
  <2> SUFFICES ASSUME Init PROVE I /\ \A r \in Nodes : Decoder(r)!Init
    OBVIOUS
  <2>1. ASSUME NEW r \in Nodes
        PROVE  Decoder(r)!Init
    <3>1. heard[r] = {} /\ delivered[r] = <<>> /\ slot = 1 /\ phase = "boundary"
      BY DEF Init
    <3>2. SignalsOf(r) = {} /\ LastSlotOver = 0 /\ Known(r) = {}
      BY <3>1 DEF SignalsOf, Strong, LastSlotOver, Known, ToSet
    <3> QED
      BY <3>2 DEF Decoder!Init
  <2>2. slot > 0
    BY DEF Init
  <2> QED
    BY <2>1, <2>2, InvInit
<1>2. I /\ [Next]_vars => I'
  <2> SUFFICES ASSUME I, [Next]_vars PROVE slot' > 0
    BY InvStep
  <2>1. slot \in Nat
    BY DEF Inv, NodesInv, MacInv, MacTypes
  <2>2. slot' = slot \/ slot' = slot + 1
    BY DEF Next, vars, clockVars, Traffic, Enqueue, Dequeue, StartSend, EndSend,
       StartSolve, SolveSlot, Receive, DeletePacketState, DeleteSlotState, Tick
  <2> QED
    BY <2>1, <2>2
<1>3. I /\ [Next]_vars
        => [\A r \in Nodes : UNCHANGED Decoder(r)!vars \/ Decoder(r)!Next]_vars
  BY DecoderStepHolds DEF DecoderStep, Inv
<1> QED
  BY <1>1, <1>2, <1>3, PTL DEF Spec, EveryReceiverIsDecoder

-----------------------------------------------------------------------------

(* Receivers agree *)

\* The copies of all packets sent lie within the timeout.
Timely == \A f \in air : WithinTimeout(f.pkt)

\* The nodes that have lost no slot with signals in it.
Live == Nodes \ forgotten

\* What the Solve loop reads of a state.
Gist(b) == [allSlots |-> b.allSlots, s |-> b.s, count |-> b.count]

\* What the Solve loop of r works with: nothing but the strong signals.
StrongKeys(F) == {Key(f.pkt) : f \in F}

StrongHeld(r) == {e \in slotBuffer[r] : e.key \in StrongKeys(Strong(r))}

\* The slots the solver has to work on, with the one it is asked for.
ToSolve(r) == IF r \in solvingAsked THEN <<slot>> ELSE active[r]

Shown(x, p, h, q, d) ==
  [slot |-> x, packets |-> p, held |-> h, queue |-> q, delivered |-> d]

View(r) ==
  Shown(slot, [k \in StrongKeys(Strong(r)) |-> Gist(states[r][k])], StrongHeld(r),
        ToSolve(r), delivered[r])

\* The signals that slot x, when cleaned, leaves in the view w, and their packets.
Cleaned(w, x) ==
  {e \in w.held : e.slot = x => w.packets[e.key].count < w.packets[e.key].s}

LeftIn(w, x) == {e.key : e \in {f \in Cleaned(w, x) : f.slot = x}}

\* One more fragment of the packet with state b and key k is counted.
Counted(p, k) == [p EXCEPT ![k].count = @ + 1]

Whole(b) == b.count + 1 >= b.s

Queued(q, b) == Tail(q) \o (IF Whole(b) THEN b.allSlots ELSE <<>>)

Passed(d, b, k) == IF Whole(b) THEN Append(d, k) ELSE d

\* What a round of the loop makes of the view w.
Round(w) ==
  LET x == Head(w.queue)
      left == LeftIn(w, x)
      only == CHOOSE k \in left : left = {k}
      b == w.packets[only]
  IN IF x > w.slot
       THEN Shown(w.slot, w.packets, w.held, Tail(w.queue), w.delivered)
     ELSE IF \A k \in left : left # {k}
       THEN Shown(w.slot, w.packets, Cleaned(w, x), Tail(w.queue), w.delivered)
     ELSE Shown(w.slot, Counted(w.packets, only), Cleaned(w, x), Queued(w.queue, b),
                Passed(w.delivered, b, only))

\* Rounds that lead from the view w to the view v, if any.
Reaches(w, v) ==
  \A S : w \in S /\ (\A u \in S : u.queue # <<>> => Round(u) \in S) => v \in S

\* The part of the state of r that the slots before this one left.
Past(r) == {f \in Strong(r) : f.slot < slot}

PastView(r) ==
  [packets |-> [k \in StrongKeys(Past(r)) |-> Gist(states[r][k])],
   held |-> {e \in StrongHeld(r) : e.slot < slot}, delivered |-> delivered[r]]

\* Before the solvers start, the packets of this slot alone have no fragment
\* counted and all signals of this slot are there.
FreshInv(r) ==
  phase # "solve" =>
    /\ \A f \in Strong(r) :
         Key(f.pkt) \in StrongKeys(Past(r)) \/ states[r][Key(f.pkt)].count = 0
    /\ \A f \in Strong(r) :
         f.slot = slot => [slot |-> slot, key |-> Key(f.pkt)] \in slotBuffer[r]

\* Nodes that heard the same are at the same point when no solver runs; while they
\* run, one is where the other will come to.
PairInv(r, q) ==
  /\ phase # "solve" => (Past(r) = Past(q) => PastView(r) = PastView(q))
  /\ phase = "solve" =>
       (Strong(r) = Strong(q) => Reaches(View(r), View(q)) \/ Reaches(View(q), View(r)))

AgreeInv ==
  /\ \A r \in Live : FreshInv(r)
  /\ \A r, q \in Live : PairInv(r, q)

\* A node keeps one state of each packet heard, which holds what the header says,
\* while the copies of all packets lie within the timeout.
LEMMA OneState ==
  ASSUME NodesInv, HearInv, RxInv, Timely, NEW r \in Nodes
  PROVE  /\ \A f \in heard[r] :
              LET k == Key(f.pkt) IN
              k \in DOMAIN states[r] /\ states[r][k] \in States
                /\ StateOf(f.pkt, states[r][k])
         /\ \A k \in DOMAIN states[r] : \E f \in heard[r] : k = Key(f.pkt)
         /\ \A e \in slotBuffer[r] : \E f \in heard[r] :
              e = [slot |-> f.slot, key |-> Key(f.pkt)]
<1>1. /\ BufferInv(r) /\ TimerInv(r) /\ states[r] \in Buffers
      /\ slotBuffer[r] \in SUBSET [slot : Nat, key : Keys]
  BY DEF RxInv, RxTypes
<1>2. \A f \in heard[r] : f \in air /\ WithinTimeout(f.pkt)
  BY HeardFacts DEF Timely
<1>3. ASSUME NEW f \in heard[r]
      PROVE  /\ Key(f.pkt) \in DOMAIN states[r] /\ states[r][Key(f.pkt)] \in States
             /\ StateOf(f.pkt, states[r][Key(f.pkt)])
  <2>1. Key(f.pkt) \in DOMAIN states[r] /\ IsOf(Key(f.pkt), f.pkt)
    BY <1>1 DEF BufferInv, IsOf, Key
  <2>2. states[r][Key(f.pkt)] \in States
    BY <1>1, <2>1, BufferTypes
  <2> QED
    BY <1>1, <1>2, <2>1, <2>2, StateHeard
<1>4. \A k \in DOMAIN states[r] : \E f \in heard[r] : k = Key(f.pkt)
  BY <1>1, <1>2 DEF BufferInv, TimerInv
<1>5. ASSUME NEW e \in slotBuffer[r]
      PROVE  \E f \in heard[r] : e = [slot |-> f.slot, key |-> Key(f.pkt)]
  <2>1. PICK f \in heard[r] : e.slot = f.slot /\ IsOf(e.key, f.pkt)
    BY <1>1 DEF BufferInv
  <2>2. e.key = Key(f.pkt)
    BY <1>1, <1>2, <2>1 DEF BufferInv, TimerInv
  <2>3. e = [slot |-> e.slot, key |-> e.key]
    BY <1>1
  <2> QED
    BY <2>1, <2>2, <2>3
<1> QED
  BY <1>3, <1>4, <1>5

\* Whoever comes to v comes further with v, and makes a round to get there.
LEMMA ReachesFacts ==
  /\ \A w : Reaches(w, w)
  /\ \A w, v : Reaches(w, v) /\ v.queue # <<>> => Reaches(w, Round(v))
  /\ \A w, v : Reaches(w, v) /\ w # v => w.queue # <<>> /\ Reaches(Round(w), v)
<1>1. \A w : Reaches(w, w)
  BY DEF Reaches
<1>2. \A w, v : Reaches(w, v) /\ v.queue # <<>> => Reaches(w, Round(v))
  BY DEF Reaches
<1>3. ASSUME NEW w, NEW v, Reaches(w, v), w # v
      PROVE  w.queue # <<>> /\ Reaches(Round(w), v)
  <2>1. w.queue # <<>>
    <3> SUFFICES ASSUME w.queue = <<>> PROVE FALSE
      OBVIOUS
    <3>1. \A u \in {w} : u.queue # <<>> => Round(u) \in {w}
      OBVIOUS
    <3>2. v \in {w}
      BY <1>3, <3>1 DEF Reaches
    <3> QED
      BY <1>3, <3>2
  <2>2. ASSUME NEW S, Round(w) \in S, \A u \in S : u.queue # <<>> => Round(u) \in S
        PROVE  v \in S
    <3>1. \A u \in S \cup {w} : u.queue # <<>> => Round(u) \in S \cup {w}
      BY <2>2
    <3>2. v \in S \cup {w}
      BY <1>3, <3>1 DEF Reaches
    <3> QED
      BY <1>3, <3>2
  <2> QED
    BY <2>1, <2>2 DEF Reaches
<1> QED
  BY <1>1, <1>2, <1>3

\* The cases of a round.
LEMMA RoundFacts ==
  ASSUME NEW w
  PROVE  LET x == Head(w.queue) IN
         /\ x > w.slot =>
              Round(w) = Shown(w.slot, w.packets, w.held, Tail(w.queue), w.delivered)
         /\ ~(x > w.slot) /\ (\A k : LeftIn(w, x) # {k}) =>
              Round(w) = Shown(w.slot, w.packets, Cleaned(w, x), Tail(w.queue),
                               w.delivered)
         /\ \A k : ~(x > w.slot) /\ LeftIn(w, x) = {k} =>
              Round(w) = Shown(w.slot, Counted(w.packets, k), Cleaned(w, x),
                               Queued(w.queue, w.packets[k]),
                               Passed(w.delivered, w.packets[k], k))
<1> DEFINE x == Head(w.queue)
<1>1. ASSUME NEW k, LeftIn(w, x) = {k}
      PROVE  /\ (CHOOSE j \in LeftIn(w, x) : LeftIn(w, x) = {j}) = k
             /\ ~\A j \in LeftIn(w, x) : LeftIn(w, x) # {j}
  BY <1>1
<1> QED
  BY <1>1 DEF Round

LEMMA StrongFacts ==
  ASSUME NodesInv, HearInv, RxInv, Timely, NEW r \in Nodes
  PROVE  /\ \A k \in StrongKeys(Strong(r)) :
              /\ k \in DOMAIN states[r] /\ states[r][k] \in States
              /\ IsDecoded(r, k)
                   <=> ~(states[r][k].count < states[r][k].s)
         /\ \A e \in slotBuffer[r] :
              e.key \in StrongKeys(Strong(r)) <=> e.key[1] \in inRange[r]
<1>1. \A f \in heard[r] : f.pkt \in Packets /\ Key(f.pkt)[1] = f.pkt.src
  BY HeardFacts, StateFields
<1>2. ASSUME NEW k \in StrongKeys(Strong(r))
      PROVE  /\ k \in DOMAIN states[r] /\ states[r][k] \in States
             /\ IsDecoded(r, k) <=> ~(states[r][k].count < states[r][k].s)
  <2>1. PICK f \in heard[r] : k = Key(f.pkt)
    BY DEF StrongKeys, Strong
  <2>2. k \in DOMAIN states[r] /\ states[r][k] \in States
    BY <2>1, OneState
  <2>3. states[r][k].count \in Nat /\ states[r][k].s \in Nat
    BY <2>2, StateFields
  <2> QED
    BY <2>2, <2>3 DEF IsDecoded
<1>3. ASSUME NEW e \in slotBuffer[r]
      PROVE  e.key \in StrongKeys(Strong(r)) <=> e.key[1] \in inRange[r]
  <2>1. PICK f \in heard[r] : e = [slot |-> f.slot, key |-> Key(f.pkt)]
    BY OneState
  <2>2. e.key = Key(f.pkt) /\ e.key[1] = f.pkt.src
    BY <1>1, <2>1
  <2>3. CASE e.key[1] \in inRange[r]
    BY <2>2, <2>3 DEF StrongKeys, Strong
  <2>4. CASE e.key \in StrongKeys(Strong(r))
    <3>1. PICK g \in Strong(r) : e.key = Key(g.pkt)
      BY <2>4 DEF StrongKeys
    <3>2. g \in heard[r] /\ g.pkt.src \in inRange[r]
      BY DEF Strong
    <3>3. Key(g.pkt)[1] = g.pkt.src
      BY <1>1, <3>2
    <3> QED
      BY <2>4, <3>1, <3>2, <3>3
  <2> QED
    BY <2>3, <2>4
<1> QED
  BY <1>2, <1>3

\* A view changes only with what it shows.
LEMMA ViewKept ==
  ASSUME NEW u, ReceiverKept(u), ToSolve(u)' = ToSolve(u), UNCHANGED <<slot, inRange>>
  PROVE  View(u)' = View(u)
<1>1. Strong(u)' = Strong(u)
  BY DEF Strong, ReceiverKept
<1>2. StrongHeld(u)' = StrongHeld(u)
  BY <1>1 DEF StrongHeld, StrongKeys, ReceiverKept
<1> QED
  BY <1>1, <1>2 DEF View, StrongKeys, ReceiverKept

\* A round of the Solve loop of r is a function of the strong signals r heard.
LEMMA SolveIsRound ==
  ASSUME NodesInv, HearInv, RxInv, Timely, NEW r \in Nodes, SolveSlot(r)
  PROVE  /\ View(r).queue # <<>> /\ View(r)' = Round(View(r))
         /\ \A u \in Nodes \ {r} : View(u)' = View(u)
         /\ \A u \in Nodes : Strong(u)' = Strong(u)
<1> DEFINE x == Head(active[r])  K == StrongKeys(Strong(r))  b == states[r]
           p == [k \in K |-> Gist(b[k])]  h == StrongHeld(r)  q == active[r]  d == delivered[r]
           clean == {e \in h : e.slot = x => p[e.key].count < p[e.key].s}
           left == {e.key : e \in {f \in clean : f.slot = x}}
<1>1. /\ BufferInv(r) /\ RxTypes /\ SolverInv /\ q # <<>> /\ r \notin solvingAsked
      /\ UNCHANGED <<slot, phase, inRange, solvingAsked, heard>>
  BY DEF RxInv, RxTypes, SolverInv, SolveSlot, clockVars
<1>2. /\ slot \in Nat /\ x \in Nat
      /\ \A u \in Nodes \ {r} : ReceiverKept(u) /\ active'[u] = active[u]
      /\ \/ /\ x > slot /\ slotBuffer'[r] = slotBuffer[r] /\ states'[r] = b
            /\ delivered'[r] = d /\ active'[r] = Tail(q)
         \/ /\ x <= slot /\ slotBuffer'[r] = CleanSlot(r, x)
            /\ \A k : Left(r, x) # {k}
            /\ states'[r] = b /\ delivered'[r] = d /\ active'[r] = Tail(q)
         \/ /\ x <= slot /\ slotBuffer'[r] = CleanSlot(r, x)
            /\ \E k : Left(r, x) = {k} /\ Counts(r, k)
  <2>1. slot \in Nat
    BY DEF NodesInv, MacInv, MacTypes
  <2> QED
    BY <1>1, <2>1, SolveFacts
<1>3. \A u \in Nodes : Strong(u)' = Strong(u)
  BY <1>1 DEF Strong
<1>4. \A u \in Nodes \ {r} : View(u)' = View(u)
  <2>1. \A u \in Nodes \ {r} : ToSolve(u)' = ToSolve(u)
    BY <1>1, <1>2 DEF ToSolve
  <2> QED
    BY <1>1, <1>2, <2>1, ViewKept
<1>5. ToSolve(r) = q /\ ToSolve(r)' = active'[r]
  BY <1>1 DEF ToSolve
<1>6. /\ View(r) = Shown(slot, p, h, q, d)
      /\ View(r)' = Shown(slot, [k \in K |-> Gist(states'[r][k])],
                          {e \in slotBuffer'[r] : e.key \in K}, active'[r], delivered'[r])
  <2>1. StrongHeld(r)' = {e \in slotBuffer'[r] : e.key \in K}
    BY <1>3 DEF StrongHeld, StrongKeys
  <2>2. K' = K
    BY <1>3 DEF StrongKeys
  <2> QED
    BY <1>1, <1>3, <1>5, <2>1, <2>2 DEF View
<1>7. /\ \A k \in K : /\ k \in DOMAIN b /\ b[k] \in States
                      /\ IsDecoded(r, k) <=> ~(b[k].count < b[k].s)
      /\ \A e \in slotBuffer[r] : e.key \in K <=> e.key[1] \in inRange[r]
      /\ \A k \in K : p[k].count = b[k].count /\ p[k].s = b[k].s
  BY <1>1, StrongFacts DEF Gist
<1>8. clean = {e \in CleanSlot(r, x) : e.key \in K}
  <2>1. \A e : e \in h <=> e \in slotBuffer[r] /\ e.key \in K
    BY DEF StrongHeld
  <2>2. \A e : e \in clean
          <=> e \in slotBuffer[r] /\ e.key \in K /\ (e.slot = x => ~IsDecoded(r, e.key))
    BY <1>7, <2>1
  <2>3. \A e : e \in CleanSlot(r, x)
          <=> e \in slotBuffer[r]
              /\ (e.slot = x => ~IsDecoded(r, e.key) /\ e.key[1] \in inRange[r])
    BY DEF CleanSlot
  <2>4. \A e : e \in clean <=> e \in CleanSlot(r, x) /\ e.key \in K
    BY <1>7, <2>2, <2>3
  <2> HIDE DEF clean
  <2> QED
    BY <2>4
<1>9. left = Left(r, x)
  <2>1. \A e \in CleanSlot(r, x) : e.slot = x => e.key \in K
    BY <1>7 DEF CleanSlot
  <2>2. \A e : e \in clean /\ e.slot = x <=> e \in CleanSlot(r, x) /\ e.slot = x
    BY <1>8, <2>1
  <2> HIDE DEF clean
  <2> QED
    BY <2>2 DEF Left
<1>10. View(r)' = Round(View(r))
  <2> DEFINE w == View(r)
  <2>1. /\ w.slot = slot /\ w.packets = p /\ w.held = h /\ w.queue = q
        /\ w.delivered = d /\ Cleaned(w, x) = clean /\ LeftIn(w, x) = left
    BY <1>6 DEF Cleaned, LeftIn, Shown
  <2> HIDE DEF clean, left, h, K, p, b, w
  <2>5. /\ x > slot => Round(w) = Shown(slot, p, h, Tail(q), d)
        /\ ~(x > slot) /\ (\A k : left # {k})
             => Round(w) = Shown(slot, p, clean, Tail(q), d)
        /\ \A k : ~(x > slot) /\ left = {k} =>
             Round(w) = Shown(slot, Counted(p, k), clean, Queued(q, p[k]),
                              Passed(d, p[k], k))
    BY <2>1, RoundFacts
  <2>2. CASE /\ x > slot /\ slotBuffer'[r] = slotBuffer[r] /\ states'[r] = b
             /\ delivered'[r] = d /\ active'[r] = Tail(q)
    BY <1>6, <2>2, <2>5 DEF p, h, StrongHeld, K, w
  <2>3. CASE /\ x <= slot /\ slotBuffer'[r] = CleanSlot(r, x)
             /\ \A k : Left(r, x) # {k}
             /\ states'[r] = b /\ delivered'[r] = d /\ active'[r] = Tail(q)
    <3>1. ~(x > slot)
      BY <1>2, <2>3
    <3> QED
      BY <1>6, <1>8, <1>9, <2>3, <2>5, <3>1 DEF p, w
  <2>4. ASSUME NEW k, x <= slot, slotBuffer'[r] = CleanSlot(r, x), Left(r, x) = {k},
               Counts(r, k)
        PROVE  View(r)' = Round(View(r))
    <3> DEFINE c == p[k]  n == [c EXCEPT !.count = c.count + 1]
    <3>1. ~(x > slot)
      BY <1>2, <2>4
    <3>2. k \in K /\ c = Gist(b[k]) /\ b[k] \in States
      <4>1. \E e \in clean : e.key = k
        BY <1>9, <2>4 DEF left
      <4>2. k \in K
        BY <1>8, <4>1
      <4> QED
        BY <1>7, <4>2 DEF p
    <3>3. /\ c.count \in Nat /\ c.s \in Nat /\ c.allSlots \in Seq(Nat)
          /\ c.count = b[k].count /\ c.s = b[k].s /\ c.allSlots = b[k].allSlots
      BY <3>2, StateFields DEF Gist
    <3>4. Gist(states'[r][k]) = n
      <4>1. n = [allSlots |-> c.allSlots, s |-> c.s, count |-> c.count + 1]
        BY <3>2 DEF Gist
      <4>2. /\ states'[r][k].allSlots = c.allSlots /\ states'[r][k].s = c.s
            /\ states'[r][k].count = c.count + 1
        BY <2>4, <3>3 DEF Counts, b
      <4> HIDE DEF n, c
      <4> QED
        BY <4>1, <4>2 DEF Gist
    <3>5. [j \in K |-> Gist(states'[r][j])] = Counted(p, k)
      <4>1. \A j \in K : j # k => Gist(states'[r][j]) = p[j]
        BY <1>7, <2>4 DEF Counts, b, p
      <4>2. Counted(p, k) = [p EXCEPT ![k] = n]
        BY DEF Counted
      <4> HIDE DEF n
      <4> QED
        BY <3>2, <3>4, <4>1, <4>2 DEF p
    <3>6. active'[r] = Queued(q, c) /\ delivered'[r] = Passed(d, c, k)
      <4>1. \/ /\ c.count + 1 >= c.s /\ delivered'[r] = Append(d, k)
               /\ active'[r] = Tail(q) \o c.allSlots
            \/ c.count + 1 < c.s /\ delivered'[r] = d /\ active'[r] = Tail(q)
        BY <2>4, <3>3 DEF Counts, b
      <4>2. q \in Seq(Nat) /\ Tail(q) \in Seq(Nat)
        BY <1>1 DEF SolverInv
      <4>3. Tail(q) \o <<>> = Tail(q)
        BY <4>2
      <4>4. CASE Whole(c)
        <5>1. ~(c.count + 1 < c.s)
          BY <3>3, <4>4 DEF Whole
        <5> QED
          BY <4>1, <4>4, <5>1 DEF Queued, Passed
      <4>5. CASE ~Whole(c)
        <5>1. ~(c.count + 1 >= c.s)
          BY <4>5 DEF Whole
        <5> QED
          BY <4>1, <4>3, <4>5, <5>1 DEF Queued, Passed
      <4> QED
        BY <4>4, <4>5
    <3> HIDE DEF c
    <3> QED
      BY <1>6, <1>8, <1>9, <2>4, <2>5, <3>1, <3>5, <3>6 DEF c, w
  <2> QED
    BY <1>2, <2>2, <2>3, <2>4 DEF b
<1>11. View(r).queue # <<>>
  BY <1>1, <1>6 DEF Shown
<1> QED
  BY <1>3, <1>4, <1>10, <1>11

LEMMA AgreeKept ==
  ASSUME AgreeInv, UNCHANGED <<slot, inRange>>, phase = "solve" <=> phase' = "solve",
         forgotten \subseteq forgotten',
         \A u \in Live' :
           ReceiverKept(u) /\ (phase = "solve" => ToSolve(u)' = ToSolve(u))
  PROVE  AgreeInv'
<1> DEFINE L == Nodes \ forgotten'
<1>7. L = Live' /\ L \subseteq Live
  BY DEF Live
<1> HIDE DEF L
<1>1. \A u \in L : Strong(u)' = Strong(u) /\ Past(u)' = Past(u)
  BY <1>7 DEF Strong, Past, ReceiverKept
<1>2. \A u \in L : StrongHeld(u)' = StrongHeld(u)
  BY <1>1, <1>7 DEF StrongHeld, StrongKeys, ReceiverKept
<1>3. \A u \in L : PastView(u)' = PastView(u)
  BY <1>1, <1>2, <1>7 DEF PastView, StrongKeys, ReceiverKept
<1>4. \A u \in L : phase = "solve" => View(u)' = View(u)
  BY <1>7, ViewKept
<1>5. \A u \in L : FreshInv(u)'
  BY <1>1, <1>7 DEF AgreeInv, FreshInv, StrongKeys, ReceiverKept
<1>6. ASSUME NEW r \in L, NEW q \in L
      PROVE  PairInv(r, q)'
  BY <1>1, <1>3, <1>4, <1>7 DEF AgreeInv, PairInv
<1> QED
  BY <1>5, <1>6, <1>7 DEF AgreeInv

\* A round of one node's solver, while the others are ahead or behind.
LEMMA AgreeSolve ==
  ASSUME NodesInv, HearInv, RxInv, Timely, AgreeInv, NEW v \in Nodes, SolveSlot(v)
  PROVE  AgreeInv'
<1>1. phase = "solve" /\ phase' = "solve" /\ Live' = Live
  BY DEF RxInv, RxTypes, SolverInv, SolveSlot, clockVars, Live
<1>2. /\ View(v).queue # <<>> /\ View(v)' = Round(View(v))
      /\ \A u \in Nodes \ {v} : View(u)' = View(u)
      /\ \A u \in Nodes : Strong(u)' = Strong(u)
  BY SolveIsRound
<1>3. \A w : Reaches(w, View(v)) => Reaches(w, View(v)')
  BY <1>2, ReachesFacts
<1>4. \A w : Reaches(View(v), w) => Reaches(View(v)', w) \/ Reaches(w, View(v)')
  BY <1>2, ReachesFacts
<1>5. ASSUME NEW r \in Live, NEW q \in Live, Strong(r) = Strong(q)
      PROVE  Reaches(View(r)', View(q)') \/ Reaches(View(q)', View(r)')
  <2>1. Reaches(View(r), View(q)) \/ Reaches(View(q), View(r))
    BY <1>1, <1>5 DEF AgreeInv, PairInv
  <2>2. CASE r = v /\ q = v
    BY <2>2, ReachesFacts
  <2>3. CASE r = v /\ q # v
    BY <1>2, <1>3, <1>4, <2>1, <2>3 DEF Live
  <2>4. CASE r # v /\ q = v
    BY <1>2, <1>3, <1>4, <2>1, <2>4 DEF Live
  <2>5. CASE r # v /\ q # v
    BY <1>2, <2>1, <2>5 DEF Live
  <2> QED
    BY <2>2, <2>3, <2>4, <2>5
<1>6. \A r, q \in Live : PairInv(r, q)'
  BY <1>1, <1>2, <1>5 DEF PairInv, Live
<1>7. \A r \in Live : FreshInv(r)'
  BY <1>1 DEF FreshInv
<1> QED
  BY <1>1, <1>6, <1>7 DEF AgreeInv

\* When fragments were heard.
LEMMA HeardBy ==
  ASSUME NodesInv, HearInv, NEW r \in Nodes
  PROVE  \A f \in heard[r] :
           f.slot \in Nat /\ f.slot <= slot /\ (phase = "boundary" => f.slot < slot)
<1> SUFFICES ASSUME NEW f \in heard[r]
             PROVE  f.slot \in Nat /\ f.slot <= slot
                    /\ (phase = "boundary" => f.slot < slot)
  OBVIOUS
<1>1. /\ f \in air /\ f.slot \in Nat /\ f.pkt.src \in Nodes /\ f.pkt.src # r
  BY HeardFacts
<1>2. f.slot <= slot
  BY <1>1 DEF NodesInv, MacInv, SendInv, AirInv, OnAir
<1>3. [to |-> r, frag |-> f] \notin inFlight
  BY DEF HearInv
<1>4. phase = "boundary" => f.slot < slot
  BY <1>1, <1>3 DEF HearInv
<1> QED
  BY <1>1, <1>2, <1>4

\* A fragment that comes in changes nothing of what the slots before left.
LEMMA AgreeReceive ==
  ASSUME NodesInv, HearInv, RxInv, Timely, AgreeInv, NEW m \in inFlight, Receive(m)
  PROVE  AgreeInv'
<1> DEFINE r == m.to  f == m.frag  in(g) == [slot |-> g.slot, key |-> Key(g.pkt)]
           D == DOMAIN states[r]
<1>1. /\ r \in Nodes /\ f \in air /\ f.slot = slot /\ f.pkt \in Packets
      /\ \A u \in Nodes \ {r} : ReceiverKept(u)
      /\ ReceiverKept(r) \/ \E k : Adds(r, k, f)
  BY ReceiveFacts DEF RxInv
<1>2. /\ phase = "flight" /\ UNCHANGED <<slot, phase, inRange, air>> /\ slot \in Nat
      /\ UNCHANGED forgotten /\ Live' = Live
  BY DEF Receive, clockVars, rxVars, NodesInv, MacInv, MacTypes, Live
<1>5. RxInv'
  BY ReceiveStep
<1> HIDE DEF r, f
<1>3. CASE ReceiverKept(r) \/ r \notin Live
  <2>1. \A u \in Live : ReceiverKept(u)
    BY <1>1, <1>3 DEF Live
  <2> QED
    BY <1>2, <2>1, AgreeKept
<1>4. ASSUME r \in Live, NEW j, Adds(r, j, f)
      PROVE  AgreeInv'
  <2>12. j = Key(f.pkt)
    <3>1. IsOf(j, f.pkt)
      BY <1>1, <1>4, AddsFacts DEF RxInv
    <3>2. j \in DOMAIN states'[r] /\ f \in heard'[r]
      BY <1>4 DEF Adds
    <3>3. WithinTimeout(f.pkt)'
      BY <1>1, <1>2 DEF Timely, WithinTimeout
    <3> QED
      BY <1>1, <1>5, <3>1, <3>2, <3>3 DEF RxInv, TimerInv
  <2> DEFINE K == StrongKeys(Strong(r))
  <2>1. /\ FreshInv(r)
        /\ \A k \in K : k \in D /\ states[r][k] \in States
        /\ \A e \in slotBuffer[r] : e.key \in K <=> e.key[1] \in inRange[r]
    BY <1>1, <1>4, StrongFacts DEF AgreeInv
  <2>2. /\ Key(f.pkt)[1] = f.pkt.src /\ NewState(f.pkt).count = 0
        /\ \A g \in heard[r] : Key(g.pkt)[1] = g.pkt.src /\ g.slot \in Nat
    BY <1>1, HeardFacts, StateFields
  <2>3. /\ \A k \in D : states'[r][k] = states[r][k]
        /\ Key(f.pkt) \notin D => states'[r][Key(f.pkt)] = NewState(f.pkt)
        /\ slotBuffer'[r] = slotBuffer[r] \cup {in(f)}
        /\ heard'[r] = heard[r] \cup {f} /\ delivered'[r] = delivered[r]
    BY <1>1, <1>4, <2>12 DEF Adds
  <2>4. Strong(r)' = Strong(r) \cup (IF f.pkt.src \in inRange[r] THEN {f} ELSE {})
    BY <1>2, <2>3 DEF Strong
  <2>5. Past(r)' = Past(r)
    BY <1>1, <1>2, <2>4 DEF Past
  <2>6. StrongKeys(Past(r)) \subseteq K /\ StrongKeys(Past(r)') = StrongKeys(Past(r))
    BY <2>5 DEF StrongKeys, Past
  <2>7. \A e : e \in StrongHeld(r)' /\ e.slot < slot <=> e \in StrongHeld(r) /\ e.slot < slot
    <3>1. StrongHeld(r)' = {e \in slotBuffer'[r] : e.key \in StrongKeys(Strong(r)')}
      BY DEF StrongHeld, StrongKeys
    <3>2. \A e \in slotBuffer'[r] : e.slot < slot => e \in slotBuffer[r]
      BY <1>1, <1>2, <2>3
    <3>3. \A k : k \in StrongKeys(Strong(r)') <=> k \in K \/ (f.pkt.src \in inRange[r] /\ k = Key(f.pkt))
      BY <2>4 DEF StrongKeys
    <3>4. \A e \in slotBuffer[r] : e.key \in StrongKeys(Strong(r)') <=> e.key \in K
      BY <2>1, <2>2, <3>3
    <3> QED
      BY <2>3, <3>1, <3>2, <3>4 DEF StrongHeld
  <2>8. PastView(r)' = PastView(r)
    <3>1. [k \in StrongKeys(Past(r)') |-> Gist(states'[r][k])]
            = [k \in StrongKeys(Past(r)) |-> Gist(states[r][k])]
      BY <2>1, <2>3, <2>6
    <3>2. {e \in StrongHeld(r)' : e.slot < slot} = {e \in StrongHeld(r) : e.slot < slot}
      BY <2>7
    <3> QED
      BY <1>2, <2>3, <2>5, <3>1, <3>2 DEF PastView, StrongKeys
  <2>9. FreshInv(r)'
    <3>1. ASSUME NEW g \in Strong(r)'
          PROVE  \/ Key(g.pkt) \in StrongKeys(Past(r)')
                 \/ states'[r][Key(g.pkt)].count = 0
      <4>1. CASE Key(g.pkt) \in D
        <5>1. PICK h \in heard[r] : Key(h.pkt) = Key(g.pkt)
          BY <1>1, <4>1, OneState
        <5>2. h \in Strong(r)
          <6>1. g.pkt.src = Key(g.pkt)[1] /\ g.pkt.src \in inRange[r]
            BY <2>2, <2>4, <3>1 DEF Strong
          <6>2. h.pkt.src = Key(h.pkt)[1]
            BY <2>2
          <6> QED
            BY <5>1, <6>1, <6>2 DEF Strong
        <5>3. Key(h.pkt) \in StrongKeys(Past(r)) \/ states[r][Key(h.pkt)].count = 0
          BY <1>2, <2>1, <5>2 DEF FreshInv
        <5> QED
          BY <2>3, <2>6, <4>1, <5>1, <5>3
      <4>2. CASE Key(g.pkt) \notin D
        <5>1. g = f
          <6>1. g \notin Strong(r)
            BY <2>1, <4>2 DEF StrongKeys
          <6> QED
            BY <2>4, <3>1, <6>1
        <5> QED
          BY <2>2, <2>3, <4>2, <5>1
      <4> QED
        BY <4>1, <4>2
    <3>2. \A g \in Strong(r)' :
            g.slot = slot => [slot |-> slot, key |-> Key(g.pkt)] \in slotBuffer'[r]
      <4>1. \A g \in Strong(r) :
              g.slot = slot => [slot |-> slot, key |-> Key(g.pkt)] \in slotBuffer[r]
        BY <1>2, <2>1 DEF FreshInv
      <4> QED
        BY <1>1, <2>3, <2>4, <4>1
    <3> QED
      BY <1>2, <3>1, <3>2 DEF FreshInv, StrongKeys
  <2>10. \A u \in Nodes \ {r} :
           /\ Strong(u)' = Strong(u) /\ Past(u)' = Past(u) /\ PastView(u)' = PastView(u)
           /\ u \in Live => FreshInv(u)'
    <3> SUFFICES ASSUME NEW u \in Nodes \ {r}
                 PROVE  /\ Strong(u)' = Strong(u) /\ Past(u)' = Past(u)
                        /\ PastView(u)' = PastView(u)
                        /\ u \in Live => FreshInv(u)'
      OBVIOUS
    <3>1. ReceiverKept(u)
      BY <1>1
    <3>2. Strong(u)' = Strong(u) /\ Past(u)' = Past(u)
      BY <1>2, <3>1 DEF Strong, Past, ReceiverKept
    <3>3. StrongHeld(u)' = StrongHeld(u)
      BY <3>1, <3>2 DEF StrongHeld, StrongKeys, ReceiverKept
    <3> QED
      BY <1>2, <3>1, <3>2, <3>3 DEF PastView, StrongKeys, ReceiverKept, FreshInv, AgreeInv
  <2>11. \A u \in Live : Past(u)' = Past(u) /\ PastView(u)' = PastView(u) /\ FreshInv(u)'
    BY <2>5, <2>8, <2>9, <2>10 DEF Live
  <2> QED
    BY <1>2, <2>11 DEF AgreeInv, PairInv
<1> QED
  BY <1>1, <1>3, <1>4

\* Nodes that heard the same until the end of a slot start to solve alike.
LEMMA SameSignals ==
  ASSUME NodesInv, HearInv, RxInv, Timely, AgreeInv, phase = "flight",
         NEW r \in Live, NEW q \in Live, Strong(r) = Strong(q)
  PROVE  /\ \A k \in StrongKeys(Strong(r)) : Gist(states[r][k]) = Gist(states[q][k])
         /\ StrongHeld(r) = StrongHeld(q) /\ delivered[r] = delivered[q]
<1>1. Past(r) = Past(q) /\ PastView(r) = PastView(q)
  BY DEF AgreeInv, PairInv, Past
<1>2. /\ [k \in StrongKeys(Past(r)) |-> Gist(states[r][k])]
           = [k \in StrongKeys(Past(r)) |-> Gist(states[q][k])]
      /\ {e \in StrongHeld(r) : e.slot < slot} = {e \in StrongHeld(q) : e.slot < slot}
      /\ delivered[r] = delivered[q]
  BY <1>1 DEF PastView
<1>3. r \in Nodes /\ q \in Nodes /\ \A u \in Live : u \in Nodes /\ FreshInv(u)
  BY DEF Live, AgreeInv
<1>4. ASSUME NEW k \in StrongKeys(Strong(r))
      PROVE  Gist(states[r][k]) = Gist(states[q][k])
  <2>1. CASE k \in StrongKeys(Past(r))
    <3>1. [j \in StrongKeys(Past(r)) |-> Gist(states[r][j])][k]
            = [j \in StrongKeys(Past(r)) |-> Gist(states[q][j])][k]
      BY <1>2
    <3> QED
      BY <2>1, <3>1
  <2>2. CASE k \notin StrongKeys(Past(r))
    <3>1. PICK f \in Strong(r) : k = Key(f.pkt)
      BY DEF StrongKeys
    <3>2. states[r][k].count = 0 /\ states[q][k].count = 0
      BY <1>1, <1>3, <2>2, <3>1 DEF FreshInv
    <3>3. f \in heard[r] /\ f \in heard[q]
      BY <3>1 DEF Strong
    <3>4. /\ states[r][k] \in States /\ StateOf(f.pkt, states[r][k])
          /\ states[q][k] \in States /\ StateOf(f.pkt, states[q][k])
      BY <1>3, <3>1, <3>3, OneState
    <3> QED
      BY <3>2, <3>4 DEF StateOf, Gist
  <2> QED
    BY <2>1, <2>2
<1>5. ASSUME NEW u \in Live, NEW v \in Live, Strong(u) = Strong(v),
             {e \in StrongHeld(u) : e.slot < slot} = {e \in StrongHeld(v) : e.slot < slot}
      PROVE  StrongHeld(u) \subseteq StrongHeld(v)
  <2> SUFFICES ASSUME NEW e \in StrongHeld(u) PROVE e \in StrongHeld(v)
    OBVIOUS
  <2>1. e \in slotBuffer[u] /\ e.key \in StrongKeys(Strong(u))
    BY DEF StrongHeld
  <2>2. PICK f \in heard[u] : e = [slot |-> f.slot, key |-> Key(f.pkt)]
    BY <1>3, <2>1, OneState
  <2>3. f.slot \in Nat /\ slot \in Nat /\ f.slot <= slot /\ e.slot = f.slot
    BY <1>3, <2>2, HeardBy DEF NodesInv, MacInv, MacTypes
  <2>4. CASE e.slot < slot
    BY <1>5, <2>4
  <2>5. CASE e.slot = slot
    <3>1. f \in Strong(u)
      <4>1. e.key[1] \in inRange[u]
        BY <1>3, <2>1, StrongFacts
      <4>2. e.key[1] = f.pkt.src
        <5>1. f.pkt \in Packets
          BY <1>3, HeardFacts
        <5> QED
          BY <2>2, <5>1, StateFields
      <4> QED
        BY <4>1, <4>2 DEF Strong
    <3>2. [slot |-> slot, key |-> Key(f.pkt)] \in slotBuffer[v]
      BY <1>3, <1>5, <2>3, <2>5, <3>1 DEF FreshInv
    <3> QED
      BY <1>5, <2>1, <2>2, <2>3, <2>5, <3>2 DEF StrongHeld
  <2> QED
    BY <2>3, <2>4, <2>5
<1> QED
  BY <1>2, <1>4, <1>5

\* A node asked to solve a slot in which it heard no strong signal has one round to
\* make, which finds nothing.
LEMMA EmptyRound ==
  ASSUME NodesInv, HearInv, RxInv, Timely, NEW r \in Nodes, r \in solvingAsked,
         \A f \in Strong(r) : f.slot # slot
  PROVE  Round(View(r)) =
           Shown(slot, [k \in StrongKeys(Strong(r)) |-> Gist(states[r][k])],
                 StrongHeld(r), <<>>, delivered[r])
<1> DEFINE w == View(r)
           p == [k \in StrongKeys(Strong(r)) |-> Gist(states[r][k])]
<1>1. /\ w.slot = slot /\ w.packets = p /\ w.held = StrongHeld(r)
      /\ w.queue = <<slot>> /\ w.delivered = delivered[r]
  BY DEF View, Shown, ToSolve
<1>2. slot \in Nat
  BY DEF NodesInv, MacInv, MacTypes
<1>3. Head(<<slot>>) = slot /\ Tail(<<slot>>) = <<>> /\ ~(slot > slot)
  BY <1>2
<1>4. ASSUME NEW e \in StrongHeld(r)
      PROVE  e.slot # slot
  <2>1. e \in slotBuffer[r] /\ e.key \in StrongKeys(Strong(r))
    BY DEF StrongHeld
  <2>2. PICK f \in heard[r] : e = [slot |-> f.slot, key |-> Key(f.pkt)]
    BY <2>1, OneState
  <2>3. e.key[1] \in inRange[r]
    BY <2>1, StrongFacts
  <2>4. e.key[1] = f.pkt.src /\ e.slot = f.slot
    <3>1. f.pkt \in Packets
      BY HeardFacts
    <3> QED
      BY <2>2, <3>1, StateFields
  <2> QED
    BY <2>3, <2>4 DEF Strong
<1> HIDE DEF w, p
<1>5. Cleaned(w, slot) = StrongHeld(r) /\ LeftIn(w, slot) = {}
  <2>1. Cleaned(w, slot) = StrongHeld(r)
    BY <1>1, <1>4 DEF Cleaned
  <2> QED
    BY <1>4, <2>1 DEF LeftIn
<1>6. Round(w) = Shown(slot, p, StrongHeld(r), <<>>, delivered[r])
  <2>1. \A k : LeftIn(w, slot) # {k}
    BY <1>5
  <2> QED
    BY <1>1, <1>3, <1>5, <2>1, RoundFacts
<1> QED
  BY <1>6 DEF w, p

LEMMA AgreeTick ==
  ASSUME NodesInv, HearInv, RxInv, Timely, AgreeInv, Tick
  PROVE  AgreeInv'
<1>1. /\ UNCHANGED <<inRange, solvingAsked, active>> /\ slot \in Nat
      /\ UNCHANGED forgotten /\ Live' = Live /\ Live \subseteq Nodes
      /\ \A u \in Nodes : ReceiverKept(u)
  BY DEF Tick, rxVars, ReceiverKept, NodesInv, MacInv, MacTypes, Live
<1>2. CASE phase = "boundary" /\ phase' = "flight" /\ slot' = slot
  BY <1>1, <1>2, AgreeKept
<1>3. CASE phase = "flight" /\ phase' = "solve" /\ slot' = slot
  <2>1. \A u \in Nodes : View(u)' = View(u) /\ Strong(u)' = Strong(u)
    <3>1. \A u \in Nodes : ToSolve(u)' = ToSolve(u)
      BY <1>1, <1>3 DEF ToSolve
    <3> QED
      BY <1>1, <1>3, <3>1, ViewKept DEF Strong, ReceiverKept
  <2>2. \A u \in Nodes : ToSolve(u) = IF u \in solvingAsked THEN <<slot>> ELSE <<>>
    BY <1>3 DEF ToSolve, RxInv, RxTypes, SolverInv
  <2>3. \A u \in Nodes : u \notin solvingAsked => \A f \in Strong(u) : f.slot # slot
    BY <1>3 DEF Strong, RxInv, RxTypes, SolverInv
  <2>4. ASSUME NEW r \in Live, NEW q \in Live, Strong(r) = Strong(q)
        PROVE  /\ View(q) =
                    Shown(slot, [k \in StrongKeys(Strong(r)) |-> Gist(states[r][k])],
                          StrongHeld(r), ToSolve(q), delivered[r])
    <3>1. /\ \A k \in StrongKeys(Strong(r)) : Gist(states[r][k]) = Gist(states[q][k])
          /\ StrongHeld(r) = StrongHeld(q) /\ delivered[r] = delivered[q]
      BY <1>3, <2>4, SameSignals
    <3>2. [k \in StrongKeys(Strong(r)) |-> Gist(states[r][k])]
            = [k \in StrongKeys(Strong(q)) |-> Gist(states[q][k])]
      BY <2>4, <3>1
    <3> QED
      BY <3>1, <3>2 DEF View
  <2>5. ASSUME NEW r \in Live, NEW q \in Live, Strong(r) = Strong(q),
               r \in solvingAsked, q \notin solvingAsked
        PROVE  Reaches(View(r), View(q))
    <3>1. Round(View(r)) = View(q)
      BY <1>1, <2>2, <2>3, <2>4, <2>5, EmptyRound
    <3>2. View(r).queue # <<>>
      BY <2>5 DEF View, Shown, ToSolve
    <3> QED
      BY <3>1, <3>2, ReachesFacts
  <2>6. ASSUME NEW r \in Live, NEW q \in Live, Strong(r) = Strong(q)
        PROVE  Reaches(View(r), View(q)) \/ Reaches(View(q), View(r))
    <3>1. CASE ToSolve(r) = ToSolve(q)
      <4>1. View(r) = View(q)
        BY <2>4, <2>6, <3>1
      <4> QED
        BY <4>1, ReachesFacts
    <3>2. CASE ToSolve(r) # ToSolve(q)
      BY <1>1, <2>2, <2>5, <2>6, <3>2
    <3> QED
      BY <3>1, <3>2
  <2>7. \A r, q \in Live : PairInv(r, q)'
    BY <1>1, <1>3, <2>1, <2>6 DEF PairInv
  <2> QED
    BY <1>1, <1>3, <2>7 DEF AgreeInv, FreshInv
<1>4. CASE /\ phase = "solve" /\ phase' = "boundary" /\ slot' = slot + 1
           /\ solvingAsked = {} /\ SolversIdle
  <2>1. /\ \A u \in Nodes : Strong(u)' = Strong(u)
        /\ \A u \in Nodes : StrongHeld(u)' = StrongHeld(u)
    <3>1. \A u \in Nodes : Strong(u)' = Strong(u)
      BY <1>1 DEF Strong, ReceiverKept
    <3> QED
      BY <1>1, <3>1 DEF StrongHeld, StrongKeys, ReceiverKept
  <2>2. \A u \in Nodes : \A f \in Strong(u) : f.slot < slot + 1
    BY <1>1, HeardBy DEF Strong
  <2>3. \A u \in Nodes : Past(u)' = Strong(u)
    BY <1>4, <2>1, <2>2 DEF Past
  <2>4. \A u \in Nodes : View(u).queue = <<>>
    BY <1>4 DEF View, Shown, ToSolve, SolversIdle
  <2>5. \A u \in Live : FreshInv(u)'
    BY <1>1, <1>4, <2>1, <2>2, <2>3 DEF FreshInv, StrongKeys
  <2>6. ASSUME NEW r \in Live, NEW q \in Live, Strong(r) = Strong(q)
        PROVE  PastView(r)' = PastView(q)'
    <3>1. View(r) = View(q)
      <4>1. Reaches(View(r), View(q)) \/ Reaches(View(q), View(r))
        BY <1>4, <2>6 DEF AgreeInv, PairInv
      <4> QED
        BY <1>1, <2>4, <4>1, ReachesFacts
    <3>2. /\ [k \in StrongKeys(Strong(r)) |-> Gist(states[r][k])]
               = [k \in StrongKeys(Strong(q)) |-> Gist(states[q][k])]
          /\ StrongHeld(r) = StrongHeld(q) /\ delivered[r] = delivered[q]
      BY <3>1 DEF View, Shown
    <3>3. \A u \in Nodes :
            PastView(u)' = [packets |-> [k \in StrongKeys(Strong(u)) |-> Gist(states[u][k])],
                            held |-> {e \in StrongHeld(u) : e.slot < slot + 1},
                            delivered |-> delivered[u]]
      BY <1>1, <1>4, <2>1, <2>3 DEF PastView, ReceiverKept, StrongKeys
    <3> QED
      BY <1>1, <3>2, <3>3
  <2>7. \A r, q \in Live : PairInv(r, q)'
    BY <1>1, <1>4, <2>3, <2>6 DEF PairInv
  <2> QED
    BY <1>1, <2>5, <2>7 DEF AgreeInv
<1> QED
  BY <1>2, <1>3, <1>4 DEF Tick

LEMMA AgreeInvStep ==
  ASSUME NodesInv, HearInv, RxInv, Timely, AgreeInv, [Next]_vars
  PROVE  AgreeInv'
<1>1. CASE /\ UNCHANGED <<slot, phase, inRange, heard, states, slotBuffer, delivered,
                          forgotten>>
           /\ \A u \in Nodes : phase = "solve" => ToSolve(u)' = ToSolve(u)
  BY <1>1, AgreeKept DEF ReceiverKept, Live
<1>2. CASE UNCHANGED vars
  BY <1>1, <1>2 DEF vars, clockVars, rxVars, ToSolve
<1>3. CASE \/ \E v \in Talkers : Traffic(v)
           \/ \E v \in Nodes : Dequeue(v) \/ StartSend(v) \/ EndSend(v)
  BY <1>1, <1>3 DEF Traffic, Enqueue, Dequeue, StartSend, EndSend, clockVars, rxVars,
     ToSolve
<1>4. ASSUME NEW v \in Nodes, StartSolve(v)
      PROVE  AgreeInv'
  <2>1. \A u \in Nodes : ToSolve(u)' = ToSolve(u)
    BY <1>4 DEF StartSolve, clockVars, ToSolve, RxInv, RxTypes, SolverInv
  <2> QED
    BY <1>1, <1>4, <2>1 DEF StartSolve, clockVars
<1>5. CASE \E v \in Nodes : SolveSlot(v)
  BY <1>5, AgreeSolve
<1>6. CASE \E m \in inFlight : Receive(m)
  BY <1>6, AgreeReceive
<1>7. CASE Tick
  BY <1>7, AgreeTick
<1>8. ASSUME NEW r \in Nodes, NEW k \in packetBuffer[r], DeletePacketState(r, k)
      PROVE  AgreeInv'
  BY <1>1, <1>8 DEF DeletePacketState, clockVars, ToSolve
<1>9. ASSUME NEW r \in Nodes, DeleteSlotState(r)
      PROVE  AgreeInv'
  <2>1. /\ forgotten' = forgotten \cup {r}
        /\ UNCHANGED <<slot, phase, inRange, heard, states, delivered, solvingAsked, active>>
        /\ slotBuffer' = [slotBuffer EXCEPT ![r] = {e \in @ : ~SlotStateDue(e)}]
        /\ slotBuffer \in [Nodes -> SUBSET [slot : Nat, key : Keys]]
    BY <1>9 DEF DeleteSlotState, clockVars, RxInv, RxTypes
  <2>2. \A u \in Live' : ReceiverKept(u) /\ ToSolve(u)' = ToSolve(u)
    BY <2>1 DEF Live, ReceiverKept, ToSolve
  <2> QED
    BY <2>1, <2>2, AgreeKept
<1> QED
  BY <1>2, <1>3, <1>4, <1>5, <1>6, <1>7, <1>8, <1>9 DEF Next

LEMMA AgreeInvInit == Init => AgreeInv
<1> SUFFICES ASSUME Init PROVE AgreeInv
  OBVIOUS
<1>1. /\ phase = "boundary"
      /\ \A r \in Nodes : heard[r] = {} /\ slotBuffer[r] = {} /\ delivered[r] = <<>>
  BY DEF Init
<1>2. \A r \in Nodes : Strong(r) = {} /\ Past(r) = {} /\ StrongHeld(r) = {}
  BY <1>1 DEF Strong, Past, StrongHeld
<1>3. \A r \in Nodes : FreshInv(r)
  BY <1>2 DEF FreshInv
<1>4. \A r \in Nodes :
        PastView(r) = [packets |-> [k \in {} |-> 0], held |-> {}, delivered |-> <<>>]
  <2>1. StrongKeys({}) = {}
    BY DEF StrongKeys
  <2>2. \A r \in Nodes : [k \in {} |-> Gist(states[r][k])] = [k \in {} |-> 0]
    OBVIOUS
  <2> QED
    BY <1>1, <1>2, <2>1, <2>2 DEF PastView
<1> QED
  BY <1>1, <1>3, <1>4 DEF AgreeInv, PairInv, Live

\* What CsaSolver makes of a slot depends on the strong signals alone: nodes that
\* heard the same ones deliver the same packets in the same order, for every order
\* in which fragments come in and the solvers run, while the copies of all packets
\* lie within the timeout, and until one of the two loses a slot.
THEOREM ReceiversDoAgree == Spec => []ReceiversAgree
<1> DEFINE I == Inv /\ (Timely => AgreeInv)
<1>1. Init => I
  BY InvInit, AgreeInvInit
<1>2. I /\ [Next]_vars => I'
  <2>1. [Next]_vars => air \subseteq air'
    BY DEF Next, vars, clockVars, Traffic, Enqueue, Dequeue, StartSend, EndSend, StartSolve,
       SolveSlot, Receive, DeletePacketState, DeleteSlotState, Tick
  <2>2. [Next]_vars /\ Timely' => Timely
    BY <2>1 DEF Timely, WithinTimeout
  <2> QED
    BY <2>2, InvStep, AgreeInvStep DEF Inv
<1>3. I => ReceiversAgree
  <2> SUFFICES ASSUME Inv, AgreeInv, phase = "boundary", NEW r \in Live, NEW q \in Live,
                      Strong(r) = Strong(q)
               PROVE  delivered[r] = delivered[q]
    BY DEF ReceiversAgree, Timely, Live
  <2>1. Past(r) = Past(q)
    BY DEF Past
  <2>2. PastView(r) = PastView(q)
    BY <2>1 DEF AgreeInv, PairInv
  <2> QED
    BY <2>2 DEF PastView
<1> QED
  BY <1>1, <1>2, <1>3, PTL DEF Spec

=============================================================================
