------------------------- MODULE CsaSlotTimingProofs -------------------------
(***************************************************************************)
(* The slot of the simulation script is long enough, for every packet size *)
(* and every data rate up to 27 Mbps.                                      *)
(*                                                                         *)
(* SlotFits is the arithmetic: what slotDuration() adds for the header     *)
(* pays for the header, the bytes of the stack, the rounding up of the     *)
(* fragment and both truncations of MicroSeconds, and leaves more than the *)
(* propagation delay and the two microseconds of the solver.               *)
(***************************************************************************)
EXTENDS CsaSlotTiming, Integers, TLAPS

-----------------------------------------------------------------------------
(* Products and quotients *)

LEMMA MulMono ==
  ASSUME NEW c \in Nat, NEW x \in Int, NEW y \in Int, x <= y
  PROVE  c * x <= c * y
OBVIOUS

LEMMA MulCancel ==
  ASSUME NEW c \in Nat, c > 0, NEW x \in Int, NEW y \in Int, c * x <= c * y
  PROVE  x <= y
<1> SUFFICES ASSUME y + 1 <= x PROVE FALSE
  OBVIOUS
<1>1. c * (y + 1) <= c * x
  BY MulMono
<1>2. c * (y + 1) = c * y + c
  OBVIOUS
<1> QED
  BY <1>1, <1>2

LEMMA DivFacts ==
  ASSUME NEW x \in Nat, NEW y \in Nat, y > 0
  PROVE  /\ x \div y \in Nat /\ x % y \in Nat
         /\ x % y < y /\ x = y * (x \div y) + (x % y)
OBVIOUS

LEMMA DivUnique ==
  ASSUME NEW k \in Nat, NEW y \in Nat, NEW r \in Nat, r < y
  PROVE  (k * y + r) \div y = k /\ (k * y + r) % y = r
OBVIOUS

LEMMA CeilDivFacts ==
  ASSUME NEW x \in Nat, NEW y \in Nat, y > 0
  PROVE  /\ CeilDiv(x, y) \in Nat /\ y * CeilDiv(x, y) <= x + y - 1
         /\ x > 0 => CeilDiv(x, y) > 0
<1>1. x + y - 1 \in Nat
  OBVIOUS
<1> DEFINE n == x + y - 1
           c == n \div y
<1>2. c = CeilDiv(x, y) /\ c \in Nat /\ n % y \in Nat /\ n % y < y
      /\ n = y * c + (n % y)
  BY <1>1, DivFacts DEF CeilDiv
<1>3. ASSUME c = 0, x > 0 PROVE FALSE
  <2>1. n = n % y
    BY <1>2, <1>3
  <2>2. QED
    BY <1>2, <1>3, <2>1
<1>4. y * c <= n
  <2> HIDE DEF c
  <2> QED
    BY <1>1, <1>2
<1> QED
  BY <1>2, <1>3, <1>4

-----------------------------------------------------------------------------
(* The arithmetic of slotDuration() *)

\* s parts of g bytes hold b bytes of payload; so do S parts but for a rest.
LEMMA FewerParts ==
  ASSUME NEW S \in Nat, NEW s \in Nat, S <= s, NEW g \in Nat, NEW b \in Nat,
         s * g <= b + s - 1
  PROVE  S * g <= b + S
<1>1. CASE g = 0
  BY <1>1
<1>2. CASE g > 0
  <2>1. (g - 1) * S <= (g - 1) * s
    BY <1>2, MulMono
  <2>2. (g - 1) * S = S * g - S /\ (g - 1) * s = s * g - s
    OBVIOUS
  <2>3. S * g \in Nat /\ s * g \in Nat
    OBVIOUS
  <2> QED
    BY <2>1, <2>2, <2>3
<1> QED
  BY <1>1, <1>2

\* The inequality, over the products in it.
LEMMA Budget ==
  ASSUME NEW S \in Nat, S >= 2, NEW B \in Nat, NEW b \in Nat, 8 * b <= B,
         NEW Sg \in Nat, Sg <= b + 28 + S,
         NEW P \in Nat, P <= 270 * S,
         NEW Px \in Nat, Px <= 80000 * Sg + 4480000 * S + P,
         NEW Pq \in Nat, 10 * B < Pq + P,
         NEW Pr \in Nat, 6801 * S <= Pr + P
  PROVE  Px + 2 * P <= 1000 * (Pq + Pr)
<1>1. Px + 2 * P <= 10000 * B + 2240000 + 4560000 * S + 3 * P
  OBVIOUS
<1>2. 1000 * (Pq + Pr) >= 10000 * B + 6801000 * S - 2000 * P
  OBVIOUS
<1>3. 2003 * P <= 540810 * S
  OBVIOUS
<1> QED
  BY <1>1, <1>2, <1>3

\* What is known of a fragment's sizes: the rate R, S fragments for a packet of
\* B bits and b bytes, its h bytes of header and g of payload, its x ns on air,
\* and the microseconds q and r of slotDuration() for payload and header.
Sizes(R, S, B, b, h, g, x, q, r) ==
  /\ R \in 1..270 /\ S \in Nat /\ S >= 2 /\ B \in Nat
  /\ b \in Nat /\ 8 * b <= B /\ h \in 0..56
  /\ g \in Nat /\ S * g <= b + 28 + S
  /\ x \in Nat /\ R * x <= (g + h) * 80000 + R - 1
  /\ q \in Nat /\ 10 * B < (S * R) * (q + 1)
  /\ r \in Nat /\ 6800 < R * (r + 1)

LEMMA SlotFits ==
  ASSUME NEW R, NEW S, NEW B, NEW b, NEW h, NEW g, NEW x, NEW q, NEW r,
         Sizes(R, S, B, b, h, g, x, q, r)
  PROVE  x + 2 <= 1000 * (q + r)
<1> USE DEF Sizes
<1> DEFINE P == S * R
<1>1. P \in Nat /\ P > 0 /\ P <= 270 * S
  <2>1. S * R <= S * 270
    BY MulMono
  <2>2. S * 1 <= S * R
    BY MulMono
  <2> QED
    BY <2>1, <2>2
<1>2. P * x <= 80000 * (S * g) + 4480000 * S + P
  <2>1. S * (R * x) <= S * ((g + h) * 80000 + R - 1)
    BY MulMono
  <2>2. S * h <= S * 56
    BY MulMono
  <2>3. S * ((g + h) * 80000 + R - 1) = 80000 * (S * g) + 80000 * (S * h) + P - S
    OBVIOUS
  <2>4. S * (R * x) = P * x
    OBVIOUS
  <2>5. S * g \in Nat /\ S * h \in Nat /\ P * x \in Nat
    OBVIOUS
  <2> HIDE DEF P
  <2> QED
    BY <1>1, <2>1, <2>2, <2>3, <2>4, <2>5
<1>3. 6801 * S <= P * r + P
  <2>1. S * 6801 <= S * (R * (r + 1))
    BY MulMono
  <2>2. S * (R * (r + 1)) = P * r + P
    OBVIOUS
  <2> QED
    BY <2>1, <2>2
<1>4. 10 * B < P * q + P
  <2>1. P * (q + 1) = P * q + P
    OBVIOUS
  <2> QED
    BY <2>1
<1>5. S * g \in Nat /\ P * x \in Nat /\ P * q \in Nat /\ P * r \in Nat
  OBVIOUS
<1>6. P * (x + 2) = P * x + 2 * P /\ P * (1000 * (q + r)) = 1000 * (P * q + P * r)
  OBVIOUS
<1> HIDE DEF P
<1>7. P * x + 2 * P <= 1000 * (P * q + P * r)
  BY <1>1, <1>2, <1>3, <1>4, <1>5, Budget
<1>8. P * (x + 2) <= P * (1000 * (q + r))
  BY <1>6, <1>7
<1> QED
  BY <1>1, <1>8, MulCancel

\* A slot is longer than the two microseconds, whatever is sent in it.
LEMMA SlotIsLong ==
  ASSUME rate \in Rates, bits \in Bits
  PROVE  SlotDuration \in Nat /\ 2 * Epsilon < SlotDuration
<1> DEFINE P == FirstS * rate
           q == (bits * 10) \div P
           r == 6800 \div rate
<1>1. rate \in Nat /\ rate > 0 /\ FirstS \in Nat /\ FirstS > 0 /\ bits * 10 \in Nat
  BY TimingAssumption
<1>2. P \in Nat /\ P > 0
  <2>1. FirstS * 1 <= FirstS * rate
    BY <1>1, MulMono
  <2> QED
    BY <1>1, <2>1
<1>3. SlotDuration = 1000 * (q + 3 + r)
  BY DEF SlotDuration
<1> HIDE DEF P
<1>4. q \in Nat /\ r \in Nat
  BY ONLY <1>1, <1>2, DivFacts, 6800 \in Nat
<1> HIDE DEF q, r
<1> QED
  BY <1>3, <1>4 DEF Epsilon

\* With two microseconds for the solver, a fragment of any strategy fits.
LEMMA FragmentFits ==
  ASSUME rate \in Rates, bits \in Bits, NEW k \in Strategies
  PROVE  /\ SlotDuration \in Nat /\ TransmissionDelay(k) \in Nat \ {0}
         /\ TransmissionDelay(k) + 1001 + 2 * Epsilon < SlotDuration
<1> DEFINE b == bits \div 8
           g == FragmentSize(k.s)
           h == HeaderSize(k.n)
           x == TransmissionDelay(k)
           q == (bits * 10) \div (FirstS * rate)
           r == (85 * 8 * 10) \div rate
<1>1. rate \in 1..270 /\ bits \in Nat /\ FirstS \in Nat /\ FirstS >= 2
      /\ k.s \in Nat /\ FirstS <= k.s /\ k.n \in 0..7 /\ StackOverhead \in 0..28
  BY TimingAssumption
<1>2. b \in Nat /\ 8 * b <= bits
  BY <1>1, DivFacts
<1>3. h \in 0..56
  BY <1>1 DEF HeaderSize
<1>4. g \in Nat /\ k.s * g <= b + 28 + k.s - 1
  <2> DEFINE m == b + StackOverhead
  <2>1. g = CeilDiv(m, k.s)
    BY DEF FragmentSize
  <2> HIDE DEF g, b
  <2>2. m \in Nat /\ m <= b + 28 /\ k.s \in Nat /\ k.s > 0
    BY <1>1, <1>2
  <2> HIDE DEF m
  <2>3. CeilDiv(m, k.s) \in Nat /\ k.s * CeilDiv(m, k.s) <= m + k.s - 1
    BY ONLY <2>2, CeilDivFacts
  <2>4. k.s * g \in Nat
    BY <2>1, <2>2, <2>3
  <2> QED
    BY <1>2, <2>1, <2>2, <2>3, <2>4
<1>5. FirstS * g <= b + 28 + FirstS
  <2>1. b + 28 \in Nat
    BY <1>2
  <2> HIDE DEF b, g
  <2> QED
    BY <1>1, <1>4, <2>1, FewerParts
<1>6. x \in Nat /\ x > 0 /\ rate * x <= (g + h) * 80000 + rate - 1
  <2> DEFINE m == (g + h) * 8 * 10000
  <2>1. x = CeilDiv(m, rate)
    BY DEF TransmissionDelay
  <2>2. h > 0
    BY <1>1 DEF HeaderSize
  <2> HIDE DEF g, h, x
  <2>3. m \in Nat /\ m = (g + h) * 80000 /\ m > 0
    BY <1>3, <1>4, <2>2
  <2> HIDE DEF m
  <2>4. m \in Nat /\ rate \in Nat /\ rate > 0
    BY <1>1, <2>3
  <2>5. /\ CeilDiv(m, rate) \in Nat /\ rate * CeilDiv(m, rate) <= m + rate - 1
        /\ m > 0 => CeilDiv(m, rate) > 0
    BY ONLY <2>4, CeilDivFacts
  <2> QED
    BY <1>1, <2>1, <2>3, <2>5
<1>7. q \in Nat /\ 10 * bits < (FirstS * rate) * (q + 1)
  <2> DEFINE P == FirstS * rate
  <2>1. P \in Nat /\ P > 0
    <3>1. FirstS * 1 <= FirstS * rate
      BY <1>1, MulMono
    <3> QED
      BY <1>1, <3>1
  <2> DEFINE m == bits * 10
  <2>2. m \in Nat /\ q = m \div P /\ 10 * bits = m
    BY <1>1
  <2> HIDE DEF P, q, m
  <2>3. /\ m \div P \in Nat /\ m % P \in Nat /\ m % P < P
        /\ m = P * (m \div P) + (m % P)
    BY ONLY <2>1, <2>2, DivFacts
  <2>4. P * (q + 1) = P * q + P /\ P * q \in Nat
    BY <2>1, <2>2, <2>3
  <2>5. 10 * bits < P * (q + 1)
    BY ONLY <2>1, <2>2, <2>3, <2>4
  <2> QED
    BY <2>2, <2>3, <2>5 DEF P
<1>8. r \in Nat /\ 6800 < rate * (r + 1)
  <2>1. r = 6800 \div rate
    OBVIOUS
  <2> HIDE DEF r
  <2>2. r \in Nat /\ 6800 % rate < rate /\ 6800 = rate * r + (6800 % rate)
        /\ 6800 % rate \in Nat
    BY <1>1, <2>1, DivFacts
  <2>3. rate * (r + 1) = rate * r + rate /\ rate * r \in Nat
    BY <1>1, <2>2
  <2> QED
    BY <1>1, <2>2, <2>3
<1>9. SlotDuration = 1000 * (q + 3 + r)
  BY DEF SlotDuration
<1> HIDE DEF b, g, h, x, q, r
<1>10. x + 2 <= 1000 * (q + r)
  <2>1. Sizes(rate, FirstS, bits, b, h, g, x, q, r)
    BY <1>1, <1>2, <1>3, <1>4, <1>5, <1>6, <1>7, <1>8 DEF Sizes
  <2> QED
    BY <2>1, SlotFits
<1>11. x = TransmissionDelay(k)
  BY DEF x
<1> QED
  BY <1>6, <1>7, <1>8, <1>9, <1>10, <1>11 DEF Epsilon

-----------------------------------------------------------------------------
(* The events of a fragment *)

Stages == {"enqueued", "woken", "scheduled", "onAir", "atPhy", "received"}

Fragment == [stage : Stages, at : Nat, hdrSlot : Nat, strategy : Strategies,
             prop : PropDelays]

TypeInv ==
  /\ rate \in Rates /\ bits \in Bits
  /\ frag \in [Senders -> Fragment]
  /\ solved \subseteq DOMAIN solveAt /\ DOMAIN solveAt \subseteq Nat

\* What f takes from StartSend to Receive.
Flight(f) == frag[f].prop + TransmissionDelay(frag[f].strategy)

\* When the next event of f, or the last of a received one, is.
OnTime(f) ==
  /\ frag[f].stage = "woken" =>
       frag[f].at = SlotNumber(frag[f].at) * SlotDuration
  /\ frag[f].stage = "scheduled" => frag[f].at = frag[f].hdrSlot * SlotDuration
  /\ frag[f].stage = "onAir" =>
       frag[f].at = frag[f].hdrSlot * SlotDuration + frag[f].prop
  /\ frag[f].stage \in {"atPhy", "received"} =>
       frag[f].at = frag[f].hdrSlot * SlotDuration + Flight(f)

\* The solver of slot x is asked for two microseconds before the slot's end.
BeforeEnd(x) == x * SlotDuration + SlotDuration - 2 * Epsilon

SolveInv == \A x \in DOMAIN solveAt : solveAt[x] = BeforeEnd(x)

\* No event is left that comes before a solver that has run.
OrderInv == \A x \in solved : \A t \in Pending : BeforeEnd(x) <= t

IInv == TypeInv /\ (\A f \in Senders : OnTime(f)) /\ SolveInv /\ OrderInv

LEMMA ShortDelays ==
  ASSUME NEW p \in PropDelays
  PROVE  p \in Nat /\ p <= 1001
<1>1. p \in 0..1001
  BY TimingAssumption
<1> QED
  BY ONLY <1>1

\* A fragment is in the air for less than a slot without the solver's reserve.
LEMMA FlightFits ==
  ASSUME TypeInv, NEW f \in Senders
  PROVE  /\ SlotDuration \in Nat /\ Flight(f) \in Nat \ {0}
         /\ Flight(f) + 2 * Epsilon < SlotDuration
<1> DEFINE x == TransmissionDelay(frag[f].strategy)
           p == frag[f].prop
           d == SlotDuration
<1>1. frag[f] \in Fragment
  BY DEF TypeInv
<1>2. frag[f].strategy \in Strategies /\ p \in PropDelays
  BY <1>1 DEF Fragment
<1>3. rate \in Rates /\ bits \in Bits
  BY DEF TypeInv
<1>4. d \in Nat /\ x \in Nat \ {0} /\ x + 1001 + 2 * Epsilon < d
  BY <1>2, <1>3, FragmentFits
<1>5. Flight(f) = p + x
  BY DEF Flight
<1> HIDE DEF x, d, p
<1>6. p \in Nat /\ p <= 1001
  BY ONLY <1>2, ShortDelays
<1>7. x \in Nat /\ x > 0
  BY ONLY <1>4
<1>8. p + x \in Nat /\ p + x > 0
  BY ONLY <1>6, <1>7
<1>9. p + x + 2 * Epsilon < d
  BY ONLY <1>4, <1>6, <1>7 DEF Epsilon
<1> QED
  BY <1>4, <1>5, <1>8, <1>9 DEF d

\* A fragment that has flown is in its slot, with the solver still to come.
LEMMA FlightSlot ==
  ASSUME TypeInv, NEW f \in Senders, NEW k \in Nat, NEW t \in Nat,
         t = k * SlotDuration + Flight(f)
  PROVE  /\ SlotNumber(t) = k /\ t + NextSlotTime(t) = (k + 1) * SlotDuration
         /\ NextSlotTime(t) > 2 * Epsilon /\ SolveTime(t) = BeforeEnd(k)
         /\ t < BeforeEnd(k)
<1> DEFINE d == SlotDuration
           r == Flight(f)
<1>1. d \in Nat /\ r \in Nat \ {0} /\ r + 2 * Epsilon < d
  BY FlightFits
<1>2. t \div d = k /\ t % d = r /\ t = k * d + r
  <2>1. t = k * d + r
    OBVIOUS
  <2> HIDE DEF d, r
  <2>2. d \in Nat /\ r \in Nat /\ r < d
    BY <1>1 DEF Epsilon
  <2>3. (k * d + r) \div d = k /\ (k * d + r) % d = r
    BY ONLY <2>2, k \in Nat, DivUnique
  <2> QED
    BY <2>1, <2>3
<1>3. SlotNumber(t) = t \div d
  BY DEF SlotNumber
<1>4. NextSlotTime(t) = d - r
  BY <1>1, <1>2 DEF NextSlotTime
<1>5. BeforeEnd(k) = k * d + d - 2 * Epsilon
  BY DEF BeforeEnd
<1>6. SolveTime(t) = t + NextSlotTime(t) - 2 * Epsilon
  BY DEF SolveTime
<1> HIDE DEF d, r
<1>7. k * d \in Nat /\ (k + 1) * d = k * d + d
  BY <1>1
<1>8. t + NextSlotTime(t) = (k + 1) * d
  BY <1>1, <1>2, <1>4, <1>7
<1>9. /\ NextSlotTime(t) > 2 * Epsilon /\ SolveTime(t) = BeforeEnd(k)
      /\ t < BeforeEnd(k)
  BY <1>1, <1>2, <1>4, <1>5, <1>6, <1>7 DEF Epsilon
<1> QED
  BY <1>2, <1>3, <1>8, <1>9 DEF d

\* NextSlotTime leads to a boundary.
LEMMA WakesAtBoundary ==
  ASSUME NEW t \in Nat, SlotDuration \in Nat, SlotDuration > 0
  PROVE  LET u == t + NextSlotTime(t)
         IN  u \in Nat /\ t <= u /\ u = SlotNumber(u) * SlotDuration
<1> DEFINE d == SlotDuration
           m == NextSlotTime(t)
           u == t + m
<1>1. d \in Nat /\ d > 0
  OBVIOUS
<1>2. m = IF t % d = 0 THEN 0 ELSE d - (t % d)
  BY DEF NextSlotTime
<1>3. SlotNumber(u) = u \div d
  BY DEF SlotNumber
<1> HIDE DEF d, m
<1>4. t \div d \in Nat /\ t % d \in Nat /\ t % d < d /\ t = d * (t \div d) + (t % d)
  BY <1>1, DivFacts
<1>5. PICK k \in Nat : u = k * d /\ t <= u
  <2>1. CASE t % d = 0
    BY <1>1, <1>2, <1>4, <2>1
  <2>2. CASE t % d # 0
    <3>1. d * (t \div d) + d = ((t \div d) + 1) * d
      BY <1>1, <1>4
    <3>2. d * (t \div d) \in Nat
      BY <1>1, <1>4
    <3>3. u = d * (t \div d) + d /\ t <= u
      BY <1>1, <1>2, <1>4, <2>2, <3>2
    <3> QED
      BY <1>4, <3>1, <3>3
  <2> QED
    BY <2>1, <2>2
<1>6. k * d \in Nat /\ u \in Nat
  BY <1>1, <1>5
<1>7. u = k * d + 0
  BY <1>5, <1>6
<1>8. u \div d = k
  BY <1>1, <1>7, DivUnique
<1>9. u = SlotNumber(u) * d
  BY <1>3, <1>5, <1>8
<1> QED
  BY <1>5, <1>6, <1>9 DEF d, m

-----------------------------------------------------------------------------
(* One step *)

SameSizes == rate' = rate /\ bits' = bits

LEMMA SizesStay ==
  ASSUME SameSizes
  PROVE  /\ SlotDuration' = SlotDuration
         /\ \A k : TransmissionDelay(k)' = TransmissionDelay(k)
BY DEF SameSizes, SlotDuration, TransmissionDelay, FragmentSize, HeaderSize

\* A step that leaves g alone leaves it on time.
LEMMA OthersOnTime ==
  ASSUME SameSizes, NEW g \in Senders, OnTime(g), frag'[g] = frag[g]
  PROVE  OnTime(g)'
<1>1. SlotDuration' = SlotDuration
      /\ TransmissionDelay(frag[g].strategy)' = TransmissionDelay(frag[g].strategy)
  BY SizesStay DEF SameSizes, SlotDuration, TransmissionDelay, FragmentSize,
                   HeaderSize
<1> QED
  BY <1>1 DEF OnTime, Flight, SlotNumber

\* f goes to stage to, its next event is at t.
Moved(f, to, t) ==
  /\ frag' \in [Senders -> Fragment]
  /\ frag'[f].stage = to /\ frag'[f].at = t
  /\ frag'[f].strategy = frag[f].strategy /\ frag'[f].prop = frag[f].prop
  /\ \A g \in Senders \ {f} : frag'[g] = frag[g]

After(e, to, t) == [e EXCEPT !.stage = to, !.at = t]

LEMMA NewRecord ==
  ASSUME NEW e \in Fragment, NEW to \in Stages, NEW t \in Nat
  PROVE  LET r == After(e, to, t)
         IN  /\ r \in Fragment /\ r.stage = to /\ r.at = t
             /\ r.hdrSlot = e.hdrSlot /\ r.strategy = e.strategy /\ r.prop = e.prop
<1> DEFINE r == After(e, to, t)
<1>0. r = [e EXCEPT !.stage = to, !.at = t]
  BY DEF After
<1> HIDE DEF r
<1>1. r \in Fragment
  <2>1. r = [stage |-> to, at |-> t, hdrSlot |-> e.hdrSlot,
             strategy |-> e.strategy, prop |-> e.prop]
    BY ONLY <1>0, e \in Fragment DEF Fragment
  <2>2. e.hdrSlot \in Nat /\ e.strategy \in Strategies /\ e.prop \in PropDelays
    BY DEF Fragment
  <2> QED
    BY ONLY <2>1, <2>2, to \in Stages, t \in Nat DEF Fragment
<1>2. r.stage = to /\ r.at = t
  BY ONLY <1>0, e \in Fragment DEF Fragment
<1>3. r.hdrSlot = e.hdrSlot /\ r.strategy = e.strategy /\ r.prop = e.prop
  BY ONLY <1>0, e \in Fragment DEF Fragment
<1> QED
  BY <1>1, <1>2, <1>3 DEF r

LEMMA MoveMoves ==
  ASSUME TypeInv, NEW f \in Senders, NEW from, NEW to \in Stages, NEW t \in Nat,
         Move(f, from, to, t)
  PROVE  Moved(f, to, t) /\ frag'[f].hdrSlot = frag[f].hdrSlot
<1>1. frag \in [Senders -> Fragment]
  BY DEF TypeInv
<1>2. frag' = [frag EXCEPT ![f] = [@ EXCEPT !.stage = to, !.at = t]]
  BY <1>1 DEF Move
<1> DEFINE r == After(frag[f], to, t)
<1>3. /\ r \in Fragment /\ r.stage = to /\ r.at = t /\ r.hdrSlot = frag[f].hdrSlot
      /\ r.strategy = frag[f].strategy /\ r.prop = frag[f].prop
  <2>1. frag[f] \in Fragment
    BY <1>1
  <2> QED
    BY ONLY <2>1, to \in Stages, t \in Nat, NewRecord
<1>4. frag'[f] = r /\ \A g \in Senders \ {f} : frag'[g] = frag[g]
  BY <1>1, <1>2 DEF After
<1> HIDE DEF r
<1>5. frag' \in [Senders -> Fragment]
  <2>1. frag' = [frag EXCEPT ![f] = r]
    BY <1>2 DEF r, After
  <2> QED
    BY <1>1, <1>3, <2>1
<1> QED
  BY <1>3, <1>4, <1>5 DEF Moved

\* A step that replaces a pending event by later ones and asks for no solver
\* in the past keeps the order.
LEMMA LaterEvents ==
  ASSUME IInv, SameSizes, solved' = solved, NEW f \in Senders,
         NEW to \in Stages, NEW t \in Nat, Moved(f, to, t),
         frag[f].stage # "received", frag[f].at <= t,
         \A x \in DOMAIN solveAt' \ solved :
           \/ x \in DOMAIN solveAt /\ solveAt'[x] = solveAt[x]
           \/ frag[f].at <= solveAt'[x] /\ solveAt'[x] \in Int
  PROVE  OrderInv'
<1> SUFFICES ASSUME NEW x \in solved, NEW u \in Pending' PROVE BeforeEnd(x)' <= u
  BY DEF OrderInv
<1>1. SlotDuration' = SlotDuration /\ SlotDuration \in Nat
  BY SizesStay, FlightFits DEF IInv
<1>2. BeforeEnd(x)' = BeforeEnd(x)
  BY <1>1 DEF BeforeEnd, Epsilon
<1>3. BeforeEnd(x) \in Int
  <2>1. x \in Nat
    BY DEF IInv, TypeInv
  <2>2. x * SlotDuration \in Nat
    BY <1>1, <2>1
  <2> QED
    BY <1>1, <2>2 DEF BeforeEnd, Epsilon
<1>4. frag[f].at \in Nat /\ BeforeEnd(x) <= frag[f].at
  BY DEF IInv, TypeInv, Fragment, OrderInv, Pending
<1>5. CASE u \in Pending
  BY <1>2, <1>5 DEF IInv, OrderInv
<1>6. CASE u = t
  BY <1>2, <1>3, <1>4, <1>6
<1>7. CASE \E y \in DOMAIN solveAt' \ solved :
             u = solveAt'[y] /\ frag[f].at <= u /\ u \in Int
  BY <1>2, <1>3, <1>4, <1>7
<1>8. u \in Pending \/ u = t
        \/ \E y \in DOMAIN solveAt' \ solved :
             u = solveAt'[y] /\ frag[f].at <= u /\ u \in Int
  <2>1. CASE \E g \in Senders : frag'[g].stage # "received" /\ u = frag'[g].at
    BY <2>1 DEF Pending, Moved
  <2>2. CASE \E y \in DOMAIN solveAt' \ solved : u = solveAt'[y]
    BY <2>2 DEF Pending
  <2> QED
    BY <2>1, <2>2 DEF Pending
<1> QED
  BY <1>5, <1>6, <1>7, <1>8

LEMMA Initially == Init => IInv
<1> SUFFICES ASSUME Init PROVE IInv
  OBVIOUS
<1>1. TypeInv
  <2>1. frag \in [Senders -> Fragment]
    <3> DEFINE E == [stage : {"enqueued"}, at : HandDowns, hdrSlot : {0},
                     strategy : Strategies, prop : PropDelays]
    <3>1. ASSUME NEW r \in E PROVE r \in Fragment
      <4>1. r.stage = "enqueued" /\ r.at \in Nat /\ r.hdrSlot = 0
        <5>1. r.stage = "enqueued" /\ r.at \in HandDowns /\ r.hdrSlot = 0
          OBVIOUS
        <5>2. HandDowns \subseteq Nat
          BY TimingAssumption
        <5> QED
          BY ONLY <5>1, <5>2
      <4>2. r = [stage |-> r.stage, at |-> r.at, hdrSlot |-> r.hdrSlot,
                 strategy |-> r.strategy, prop |-> r.prop]
        OBVIOUS
      <4>3. r.strategy \in Strategies /\ r.prop \in PropDelays
        OBVIOUS
      <4> HIDE DEF E
      <4> QED
        BY ONLY <4>1, <4>2, <4>3 DEF Fragment, Stages
    <3>2. frag \in [Senders -> E]
      BY DEF Init
    <3> HIDE DEF E
    <3> QED
      BY <3>1, <3>2
  <2> QED
    BY <2>1 DEF Init, TypeInv
<1>2. ASSUME NEW f \in Senders PROVE OnTime(f)
  <2>1. frag[f].stage = "enqueued"
    BY DEF Init
  <2> QED
    BY <2>1 DEF OnTime
<1>3. SolveInv /\ OrderInv
  BY DEF Init, SolveInv, OrderInv
<1> QED
  BY <1>1, <1>2, <1>3 DEF IInv

\* A step of f that leaves the solvers alone, but for the times of f.
LEMMA FragmentStep ==
  ASSUME IInv, SameSizes, solveAt' = solveAt, solved' = solved,
         NEW f \in Senders, NEW to \in Stages, NEW t \in Nat, Moved(f, to, t),
         frag[f].stage # "received", frag[f].at <= t, OnTime(f)'
  PROVE  IInv'
<1>1. TypeInv'
  BY DEF IInv, TypeInv, Moved, SameSizes
<1>2. ASSUME NEW g \in Senders PROVE OnTime(g)'
  <2>1. CASE g = f
    BY <2>1
  <2>2. CASE g # f
    <3>1. OnTime(g) /\ frag'[g] = frag[g]
      BY <2>2 DEF IInv, Moved
    <3> QED
      BY <3>1, OthersOnTime
  <2> QED
    BY <2>1, <2>2
<1>3. SolveInv'
  <2>1. SlotDuration' = SlotDuration
    BY SizesStay
  <2> QED
    BY <2>1 DEF IInv, SolveInv, BeforeEnd, Epsilon
<1>4. OrderInv'
  <2>1. \A x \in DOMAIN solveAt' \ solved :
          x \in DOMAIN solveAt /\ solveAt'[x] = solveAt[x]
    OBVIOUS
  <2> QED
    BY <2>1, LaterEvents
<1> QED
  BY <1>1, <1>2, <1>3, <1>4 DEF IInv

\* What a step of f may use.
LEMMA Here ==
  ASSUME IInv, NEW f \in Senders
  PROVE  /\ TypeInv /\ OnTime(f)
         /\ frag[f].at \in Nat /\ frag[f].hdrSlot \in Nat
         /\ frag[f].prop \in Nat /\ TransmissionDelay(frag[f].strategy) \in Nat
         /\ SlotDuration \in Nat /\ SlotDuration > 0
<1>1. TypeInv /\ OnTime(f)
  BY DEF IInv
<1>2. frag[f] \in Fragment /\ rate \in Rates /\ bits \in Bits
  BY <1>1 DEF TypeInv
<1>3. frag[f].at \in Nat /\ frag[f].hdrSlot \in Nat
      /\ frag[f].strategy \in Strategies /\ frag[f].prop \in PropDelays
  BY <1>2 DEF Fragment
<1>4. frag[f].prop \in Nat
  <2> DEFINE p == frag[f].prop
  <2>1. p \in PropDelays
    BY <1>3
  <2> HIDE DEF p
  <2>2. p \in Nat
    BY <2>1, ShortDelays
  <2> QED
    BY <2>2 DEF p
<1>5. TransmissionDelay(frag[f].strategy) \in Nat
  BY <1>2, <1>3, FragmentFits
<1>6. SlotDuration \in Nat /\ SlotDuration > 0
  <2> DEFINE d == SlotDuration
  <2>1. d \in Nat /\ Flight(f) \in Nat /\ Flight(f) + 2 * Epsilon < d
    BY <1>1, FlightFits
  <2> HIDE DEF d
  <2>2. d > 0
    BY <2>1 DEF Epsilon
  <2> QED
    BY <2>1, <2>2 DEF d
<1> QED
  BY <1>1, <1>3, <1>4, <1>5, <1>6

LEMMA WakeUpKeeps ==
  ASSUME IInv, NEW f \in Senders, WakeUp(f)
  PROVE  IInv'
<1> DEFINE t == frag[f].at + NextSlotTime(frag[f].at)
<1>1. t \in Nat /\ frag[f].at <= t /\ t = SlotNumber(t) * SlotDuration
  BY Here, WakesAtBoundary
<1>2. Move(f, "enqueued", "woken", t)
  BY DEF WakeUp
<1>3. SameSizes /\ solveAt' = solveAt /\ solved' = solved
  BY DEF WakeUp, SameSizes
<1> HIDE DEF t
<1>4. frag[f].stage = "enqueued"
  BY <1>2 DEF Move
<1>5. Moved(f, "woken", t)
  BY <1>1, <1>2, Here, MoveMoves DEF Stages
<1>6. OnTime(f)'
  <2>1. frag'[f].stage = "woken" /\ frag'[f].at = t
    BY <1>5 DEF Moved
  <2>2. SlotDuration' = SlotDuration
    BY <1>3, SizesStay
  <2> QED
    BY <1>1, <2>1, <2>2 DEF OnTime, SlotNumber
<1> QED
  BY <1>1, <1>3, <1>4, <1>5, <1>6, FragmentStep DEF Stages

LEMMA SendPacketKeeps ==
  ASSUME IInv, NEW f \in Senders, SendPacket(f)
  PROVE  IInv'
<1>1. PICK gap \in 0..MaxGap :
        frag' = [frag EXCEPT ![f].stage = "scheduled",
                             ![f].hdrSlot = SlotNumber(frag[f].at) + gap,
                             ![f].at = @ + gap * SlotDuration]
  BY DEF SendPacket
<1> DEFINE e == frag[f]
           n == SlotNumber(e.at) + gap
           t == e.at + gap * SlotDuration
           r == [e EXCEPT !.stage = "scheduled", !.hdrSlot = n, !.at = t]
<1>2. SameSizes /\ solveAt' = solveAt /\ solved' = solved /\ e.stage = "woken"
  BY DEF SendPacket, SameSizes
<1>3. frag \in [Senders -> Fragment] /\ e \in Fragment
  BY Here DEF TypeInv
<1>4. frag' = [frag EXCEPT ![f] = r]
  BY <1>1, <1>3
<1>5. n \in Nat /\ t \in Nat /\ e.at <= t /\ t = n * SlotDuration
  <2> DEFINE d == SlotDuration
             a == e.at
             k == SlotNumber(e.at)
  <2>1. d \in Nat /\ d > 0 /\ a \in Nat /\ gap \in Nat
    BY Here, TimingAssumption
  <2>2. a = k * d
    BY <1>2, Here DEF OnTime
  <2>3. k = a \div d
    BY DEF SlotNumber
  <2> HIDE DEF d, a, k
  <2>4. k \in Nat
    BY <2>1, <2>3, DivFacts
  <2>5. gap * d \in Nat /\ k * d + gap * d = (k + gap) * d
    BY <2>1, <2>4
  <2>6. k + gap \in Nat /\ a + gap * d \in Nat /\ a <= a + gap * d
        /\ a + gap * d = (k + gap) * d
    BY <2>1, <2>2, <2>4, <2>5
  <2> QED
    BY <2>6 DEF d, a, k
<1>6. r = [e EXCEPT !.stage = "scheduled", !.hdrSlot = n, !.at = t]
  OBVIOUS
<1> HIDE DEF e, n, t, r
<1>7. /\ r.stage = "scheduled" /\ r.hdrSlot = n /\ r.at = t
      /\ r.strategy = e.strategy /\ r.prop = e.prop
  BY ONLY <1>3, <1>6 DEF Fragment
<1>8. r \in Fragment
  <2>1. r = [stage |-> "scheduled", at |-> t, hdrSlot |-> n,
             strategy |-> e.strategy, prop |-> e.prop]
    BY ONLY <1>3, <1>6 DEF Fragment
  <2>2. e.strategy \in Strategies /\ e.prop \in PropDelays
    BY ONLY <1>3 DEF Fragment
  <2> QED
    BY ONLY <1>5, <2>1, <2>2 DEF Fragment, Stages
<1>9. frag'[f] = r /\ Moved(f, "scheduled", t)
  BY <1>3, <1>4, <1>7, <1>8 DEF Moved, e
<1>10. OnTime(f)'
  <2>1. SlotDuration' = SlotDuration
    BY <1>2, SizesStay
  <2> QED
    BY <1>5, <1>7, <1>9, <2>1 DEF OnTime
<1>11. frag[f].stage # "received" /\ "scheduled" \in Stages /\ frag[f].at <= t
  BY <1>2, <1>5 DEF Stages, e
<1> QED
  BY <1>2, <1>5, <1>9, <1>10, <1>11, FragmentStep

LEMMA StartSendKeeps ==
  ASSUME IInv, NEW f \in Senders, StartSend(f)
  PROVE  IInv'
<1> DEFINE t == frag[f].at + frag[f].prop
<1>1. t \in Nat /\ frag[f].at <= t
  BY Here
<1>2. Move(f, "scheduled", "onAir", t)
  BY DEF StartSend
<1>3. SameSizes /\ solveAt' = solveAt /\ solved' = solved
  BY DEF StartSend, SameSizes
<1>4. frag[f].stage = "scheduled"
  BY <1>2 DEF Move
<1>5. t = frag[f].hdrSlot * SlotDuration + frag[f].prop
  BY <1>4, Here DEF OnTime
<1> HIDE DEF t
<1>6. Moved(f, "onAir", t) /\ frag'[f].hdrSlot = frag[f].hdrSlot
  BY <1>1, <1>2, Here, MoveMoves DEF Stages
<1>7. OnTime(f)'
  <2>1. SlotDuration' = SlotDuration
    BY <1>3, SizesStay
  <2> QED
    BY <1>5, <1>6, <2>1 DEF OnTime, Moved
<1>8. frag[f].stage # "received" /\ "onAir" \in Stages
  BY <1>4 DEF Stages
<1> QED
  BY <1>1, <1>3, <1>6, <1>7, <1>8, FragmentStep

LEMMA PhyReceiveKeeps ==
  ASSUME IInv, NEW f \in Senders, PhyReceive(f)
  PROVE  IInv'
<1> DEFINE x == TransmissionDelay(frag[f].strategy)
           t == frag[f].at + x
<1>1. t \in Nat /\ frag[f].at <= t
  BY Here
<1>2. Move(f, "onAir", "atPhy", t)
  BY DEF PhyReceive
<1>3. SameSizes /\ solveAt' = solveAt /\ solved' = solved
  BY DEF PhyReceive, SameSizes
<1>4. frag[f].stage = "onAir"
  BY <1>2 DEF Move
<1>5. t = frag[f].hdrSlot * SlotDuration + Flight(f)
  <2> DEFINE y == frag[f].hdrSlot * SlotDuration
             p == frag[f].prop
  <2>1. frag[f].at = y + p /\ Flight(f) = p + x
    BY <1>4, Here DEF OnTime, Flight
  <2>2. y \in Nat /\ p \in Nat /\ x \in Nat
    BY Here
  <2>3. t = frag[f].at + x
    OBVIOUS
  <2> HIDE DEF y, p, x, t
  <2>4. t = y + Flight(f)
    BY <2>1, <2>2, <2>3
  <2> QED
    BY <2>4 DEF y
<1> HIDE DEF x, t
<1>6. Moved(f, "atPhy", t) /\ frag'[f].hdrSlot = frag[f].hdrSlot
  BY <1>1, <1>2, Here, MoveMoves DEF Stages
<1>7. OnTime(f)'
  <2>1. SlotDuration' = SlotDuration /\ Flight(f)' = Flight(f)
    BY <1>3, <1>6, SizesStay DEF Flight, Moved, SameSizes, TransmissionDelay,
                                 FragmentSize, HeaderSize
  <2> QED
    BY <1>5, <1>6, <2>1 DEF OnTime, Moved
<1>8. frag[f].stage # "received" /\ "atPhy" \in Stages
  BY <1>4 DEF Stages
<1> QED
  BY <1>1, <1>3, <1>6, <1>7, <1>8, FragmentStep

LEMMA MacReceiveKeeps ==
  ASSUME IInv, NEW f \in Senders, MacReceive(f)
  PROVE  IInv'
<1> DEFINE t == frag[f].at
           k == frag[f].hdrSlot
<1>1. Move(f, "atPhy", "received", t) /\ SameSizes /\ solved' = solved
  BY DEF MacReceive, SameSizes
<1>2. frag[f].stage = "atPhy"
  BY <1>1 DEF Move
<1>3. t \in Nat /\ k \in Nat /\ t = k * SlotDuration + Flight(f)
  BY <1>2, Here DEF OnTime
<1>4. SlotNumber(t) = k /\ SolveTime(t) = BeforeEnd(k) /\ t < BeforeEnd(k)
  BY <1>3, Here, FlightSlot
<1>5. solveAt' = IF k \in DOMAIN solveAt THEN solveAt
                 ELSE [y \in DOMAIN solveAt \cup {k} |->
                         IF y = k THEN BeforeEnd(k) ELSE solveAt[y]]
  BY <1>4 DEF MacReceive
<1>6. Moved(f, "received", t) /\ frag'[f].hdrSlot = k
  BY <1>1, <1>3, Here, MoveMoves DEF Stages
<1> HIDE DEF t, k
<1>7. /\ DOMAIN solveAt' = DOMAIN solveAt \cup {k}
      /\ \A y \in DOMAIN solveAt : solveAt'[y] = solveAt[y]
      /\ k \notin DOMAIN solveAt => solveAt'[k] = BeforeEnd(k)
  BY <1>5
<1>8. TypeInv'
  BY <1>1, <1>3, <1>6, <1>7 DEF IInv, TypeInv, Moved, SameSizes
<1>9. SlotDuration' = SlotDuration /\ \A y : BeforeEnd(y)' = BeforeEnd(y)
  BY <1>1, SizesStay DEF BeforeEnd, Epsilon, SameSizes, SlotDuration
<1>10. ASSUME NEW g \in Senders PROVE OnTime(g)'
  <2>1. CASE g = f
    <3>1. Flight(f)' = Flight(f)
      BY <1>1, <1>6, SizesStay DEF Flight, Moved, SameSizes, TransmissionDelay,
                                   FragmentSize, HeaderSize
    <3> QED
      BY <1>3, <1>6, <1>9, <2>1, <3>1 DEF OnTime, Moved
  <2>2. CASE g # f
    <3>1. OnTime(g) /\ frag'[g] = frag[g]
      BY <1>6, <2>2 DEF IInv, Moved
    <3> QED
      BY <1>1, <3>1, OthersOnTime
  <2> QED
    BY <2>1, <2>2
<1>11. SolveInv'
  <2> SUFFICES ASSUME NEW y \in DOMAIN solveAt' PROVE solveAt'[y] = BeforeEnd(y)'
    BY DEF SolveInv
  <2>1. CASE y \in DOMAIN solveAt
    BY <1>7, <1>9, <2>1 DEF IInv, SolveInv
  <2>2. CASE y = k /\ k \notin DOMAIN solveAt
    BY <1>7, <1>9, <2>2
  <2> QED
    BY <1>7, <2>1, <2>2
<1>12. OrderInv'
  <2>1. BeforeEnd(k) \in Int /\ t <= BeforeEnd(k)
    <3> DEFINE d == SlotDuration
    <3>1. d \in Nat /\ BeforeEnd(k) = k * d + d - 2 * Epsilon
      BY Here DEF BeforeEnd
    <3> HIDE DEF d
    <3>2. k * d \in Nat
      BY <1>3, <3>1
    <3>3. BeforeEnd(k) \in Int
      BY <3>1, <3>2 DEF Epsilon
    <3> QED
      BY <1>3, <1>4, <3>3
  <2>2. \A y \in DOMAIN solveAt' \ solved :
          \/ y \in DOMAIN solveAt /\ solveAt'[y] = solveAt[y]
          \/ frag[f].at <= solveAt'[y] /\ solveAt'[y] \in Int
    BY <1>7, <2>1 DEF t
  <2>3. frag[f].stage # "received" /\ frag[f].at <= t /\ "received" \in Stages
    BY <1>2, <1>3 DEF t, Stages
  <2> QED
    BY <1>1, <1>3, <1>6, <2>2, <2>3, LaterEvents
<1> QED
  BY <1>8, <1>10, <1>11, <1>12 DEF IInv

LEMMA StartSolveKeeps ==
  ASSUME IInv, NEW x \in DOMAIN solveAt, StartSolveAtSlot(x)
  PROVE  IInv'
<1>1. /\ SameSizes /\ frag' = frag /\ solveAt' = solveAt
      /\ solved' = solved \cup {x} /\ Earliest(solveAt[x])
  BY DEF StartSolveAtSlot, SameSizes
<1>2. SlotDuration' = SlotDuration /\ \A y : BeforeEnd(y)' = BeforeEnd(y)
  BY <1>1, SizesStay DEF BeforeEnd, Epsilon, SameSizes, SlotDuration
<1>3. TypeInv' /\ SolveInv'
  BY <1>1, <1>2 DEF IInv, TypeInv, SolveInv, SameSizes
<1>4. ASSUME NEW f \in Senders PROVE OnTime(f)'
  BY <1>1, OthersOnTime DEF IInv
<1>5. OrderInv'
  <2> SUFFICES ASSUME NEW y \in solved \cup {x}, NEW u \in Pending'
               PROVE  BeforeEnd(y)' <= u
    BY <1>1 DEF OrderInv
  <2>1. u \in Pending
    BY <1>1 DEF Pending
  <2>2. CASE y \in solved
    BY <1>2, <2>1, <2>2 DEF IInv, OrderInv
  <2>3. CASE y = x
    BY <1>1, <1>2, <2>1, <2>3 DEF IInv, SolveInv, Earliest
  <2> QED
    BY <2>2, <2>3
<1> QED
  BY <1>3, <1>4, <1>5 DEF IInv

\* The inductive invariant: the times of the events and of the solvers.
THEOREM EventTimes == Spec => []IInv
<1>1. ASSUME IInv, [Next]_vars PROVE IInv'
  <2>1. CASE UNCHANGED vars
    <3>1. SameSizes /\ frag' = frag /\ solveAt' = solveAt /\ solved' = solved
      BY <2>1 DEF vars, SameSizes
    <3>2. ASSUME NEW f \in Senders PROVE OnTime(f)'
      BY <1>1, <3>1, OthersOnTime DEF IInv
    <3>3. Pending' = Pending /\ \A y : BeforeEnd(y)' = BeforeEnd(y)
      BY <3>1, SizesStay DEF Pending, BeforeEnd, Epsilon, SameSizes, SlotDuration
    <3>4. TypeInv' /\ SolveInv' /\ OrderInv'
      BY <1>1, <3>1, <3>3 DEF IInv, TypeInv, SolveInv, OrderInv, SameSizes
    <3> QED
      BY <3>2, <3>4 DEF IInv
  <2>2. ASSUME NEW f \in Senders,
               WakeUp(f) \/ SendPacket(f) \/ StartSend(f) \/ PhyReceive(f)
                 \/ MacReceive(f)
        PROVE  IInv'
    BY <1>1, <2>2, WakeUpKeeps, SendPacketKeeps, StartSendKeeps, PhyReceiveKeeps,
       MacReceiveKeeps
  <2>3. ASSUME NEW x \in DOMAIN solveAt, StartSolveAtSlot(x) PROVE IInv'
    BY <1>1, <2>3, StartSolveKeeps
  <2> QED
    BY <1>1, <2>1, <2>2, <2>3 DEF Next
<1> QED
  BY <1>1, Initially, PTL DEF Spec

-----------------------------------------------------------------------------
(* The two assertions of CsaMac and the order of its events *)

\* A received fragment is in its slot, before the solver.
LEMMA ReceivedInSlot ==
  ASSUME IInv, NEW f \in Received
  PROVE  /\ SlotNumber(frag[f].at) = frag[f].hdrSlot
         /\ NextSlotTime(frag[f].at) > 2 * Epsilon
         /\ frag[f].at < BeforeEnd(frag[f].hdrSlot)
<1>1. f \in Senders /\ frag[f].stage = "received"
  BY DEF Received
<1>2. frag[f].at = frag[f].hdrSlot * SlotDuration + Flight(f)
  BY <1>1, Here DEF OnTime
<1> QED
  BY <1>1, <1>2, Here, FlightSlot

\* "Packet is crossing slots" fails for no packet size and no data rate up to
\* 27 Mbps, if no strategy of the table has fewer fragments than the first.
THEOREM NeverCrossingSlots == Spec => []NotCrossingSlots
<1>1. IInv => NotCrossingSlots
  BY ReceivedInSlot DEF NotCrossingSlots
<1> QED
  BY <1>1, EventTimes, PTL

\* "Late arrival!" does not fail either.
THEOREM NeverLate == Spec => []NoLateArrival
<1>1. IInv => NoLateArrival
  BY ReceivedInSlot DEF NoLateArrival
<1> QED
  BY <1>1, EventTimes, PTL

\* The cascade of a slot is solved when all of its fragments are in, and only
\* in the slot: an event in flight would be one that comes before the solver.
THEOREM SolvesWhenAllAreIn == Spec => []SolverSeesAll
<1>1. ASSUME IInv PROVE SolverSeesAll
  <2> SUFFICES ASSUME NEW x \in solved
               PROVE  /\ \A f \in Senders :
                           frag[f].stage \in {"onAir", "atPhy"} =>
                             frag[f].hdrSlot # x
                      /\ \A f \in Received :
                           frag[f].hdrSlot = x => frag[f].at < solveAt[x]
                      /\ SlotNumber(solveAt[x]) = x
    BY DEF SolverSeesAll
  <2>1. x \in Nat /\ solveAt[x] = BeforeEnd(x)
    BY <1>1 DEF IInv, TypeInv, SolveInv
  <2>2. ASSUME NEW f \in Senders, frag[f].stage \in {"onAir", "atPhy"},
               frag[f].hdrSlot = x
        PROVE  FALSE
    <3> DEFINE t == x * SlotDuration + Flight(f)
    <3>1. Flight(f) \in Nat /\ SlotDuration \in Nat
      BY <1>1, Here, FlightFits
    <3>2. t \in Nat /\ t = x * SlotDuration + Flight(f)
      BY <2>1, <3>1
    <3>3. t < BeforeEnd(x)
      BY <1>1, <2>1, <3>2, Here, FlightSlot
    <3>4. frag[f].at \in Nat /\ frag[f].at <= t
      <4> DEFINE y == x * SlotDuration
                 p == frag[f].prop
                 a == frag[f].at
                 z == TransmissionDelay(frag[f].strategy)
      <4>1. Flight(f) = p + z /\ t = y + Flight(f)
        BY DEF Flight
      <4>2. a = y + p \/ a = y + Flight(f)
        BY <1>1, <2>2, Here DEF OnTime
      <4>3. y \in Nat /\ p \in Nat /\ z \in Nat /\ a \in Nat
        BY <1>1, <2>1, <3>1, Here
      <4> HIDE DEF y, p, a, z, t
      <4>4. a <= t
        BY <4>1, <4>2, <4>3
      <4> QED
        BY <4>3, <4>4 DEF a
    <3> HIDE DEF t
    <3>5. frag[f].at \in Pending
      BY <2>2 DEF Pending
    <3>6. BeforeEnd(x) <= frag[f].at
      BY <1>1, <3>5 DEF IInv, OrderInv
    <3>7. BeforeEnd(x) \in Int
      <4> DEFINE d == SlotDuration
      <4>1. d \in Nat /\ BeforeEnd(x) = x * d + d - 2 * Epsilon
        BY <3>1 DEF BeforeEnd
      <4> HIDE DEF d
      <4>2. x * d \in Nat
        BY <2>1, <4>1
      <4> QED
        BY <4>1, <4>2 DEF Epsilon
    <3> QED
      BY <3>2, <3>3, <3>4, <3>6, <3>7
  <2>3. ASSUME NEW f \in Received, frag[f].hdrSlot = x
        PROVE  frag[f].at < solveAt[x]
    BY <1>1, <2>1, <2>3, ReceivedInSlot
  <2>4. SlotNumber(solveAt[x]) = x
    <3> DEFINE d == SlotDuration
               r == d - 2 * Epsilon
               y == solveAt[x]
    <3>1. d \in Nat /\ 2 * Epsilon < d
      BY <1>1, SlotIsLong DEF IInv, TypeInv
    <3>2. y = x * d + d - 2 * Epsilon /\ SlotNumber(y) = y \div d
      BY <2>1 DEF BeforeEnd, SlotNumber
    <3> HIDE DEF d, y
    <3>3. x * d \in Nat /\ r \in Nat /\ r < d
      BY <2>1, <3>1 DEF Epsilon
    <3>4. y = x * d + r
      BY <3>1, <3>2, <3>3 DEF Epsilon
    <3> HIDE DEF r
    <3>5. (x * d + r) \div d = x
      BY ONLY <2>1, <3>1, <3>3, DivUnique
    <3> QED
      BY <3>2, <3>4, <3>5 DEF y
  <2> QED
    BY <2>2, <2>3, <2>4
<1> QED
  BY <1>1, EventTimes, PTL

=============================================================================
