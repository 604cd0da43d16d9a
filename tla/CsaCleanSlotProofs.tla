------------------------- MODULE CsaCleanSlotProofs -------------------------
(***************************************************************************)
(* The order of removals does not matter, for every set of entries, every  *)
(* power, noise, threshold and efficiency.                                 *)
(*                                                                         *)
(* CleanInv: what has been taken out is in every stable set, because noise *)
(* only grows with what is taken out; at the end it is stable itself.      *)
(***************************************************************************)
EXTENDS CsaCleanSlot, CsaSums

\* Residual as a function.
Residue == [o \in States |-> Residual(o)]

CleanType ==
  /\ power \in [States -> Nat] /\ decoded \in SUBSET States
  /\ efficiency \in 0..100 /\ noise0 \in Nat
  /\ held \in SUBSET States /\ cleaned \in BOOLEAN

Removed == States \ held

CleanInv ==
  /\ CleanType
  /\ noise = NoiseWithout(Removed)
  /\ \A R \in SUBSET States : Stable(R) => Removed \subseteq R
  /\ cleaned => \A o \in held : ~Removable(o)

\* NoiseWithout adds a sum of the laws of which we know.
LEMMA NoiseIsSum ==
  ASSUME CleanType, NEW R \in SUBSET States
  PROVE  NoiseWithout(R) = noise0 + Sum(Residue, R)
<1>1. \A s \in SUBSET R : s # {} => Residue[Pick(s)] = Residual(Pick(s))
  BY PickIn DEF Residue
<1> DEFINE G(f) == [s \in SUBSET R |-> IF s = {} THEN 0
                      ELSE Residual(Pick(s)) + f[s \ {Pick(s)}]]
<1>2. \A f : IsSum(Residue, f, R) <=> f = G(f)
  BY <1>1 DEF IsSum
<1> DEFINE f == CHOOSE g : g = G(g)
<1>3. MapThenSumSet(Residual, R) = f[R]
  BY DEF MapThenSumSet, MapThenFoldSet, Pick
<1>4. PICK g : IsSum(Residue, g, R) /\ Sum(Residue, R) = g[R]
  BY CleanAssumption, FS_Subset, SumIsSum
<1>5. IsSum(Residue, f, R)
  BY <1>2, <1>4
<1>6. f[R] = g[R]
  <2> HIDE DEF f
  <2> QED
    BY <1>4, <1>5, CleanAssumption, FS_Subset, SumUnique
<1> QED
  BY <1>3, <1>4, <1>6 DEF NoiseWithout

LEMMA ResidualType ==
  ASSUME CleanType, NEW o \in States
  PROVE  Residual(o) \in Nat
<1>1. power[o] \in Nat /\ efficiency \in 0..100
  BY DEF CleanType
<1>2. (power[o] \div 100) \in Nat /\ (100 - efficiency) \in Nat
  BY <1>1
<1>3. \A x, y \in Nat : x * y \in Nat
  OBVIOUS
<1>4. (power[o] \div 100) * (100 - efficiency) \in Nat
  BY <1>2, <1>3
<1> QED
  BY <1>1, <1>4 DEF Residual

LEMMA ResidueFacts ==
  ASSUME CleanType, NEW R \in SUBSET States
  PROVE  /\ IsFiniteSet(R) /\ Weights(Residue, R)
         /\ Sum(Residue, R) \in Nat /\ NoiseWithout(R) \in Nat
<1>1. IsFiniteSet(R)
  BY CleanAssumption, FS_Subset
<1>2. Weights(Residue, R)
  BY ResidualType DEF Residue, Weights
<1>3. Sum(Residue, R) \in Nat
  BY <1>1, <1>2, SumType
<1> QED
  BY <1>1, <1>2, <1>3, NoiseIsSum DEF CleanType

LEMMA NoiseGrows ==
  ASSUME CleanType, NEW R \in SUBSET States, NEW Q \in SUBSET R
  PROVE  NoiseWithout(Q) <= NoiseWithout(R)
<1>1. Sum(Residue, Q) <= Sum(Residue, R)
  BY ResidueFacts, SumSubset
<1>2. /\ Sum(Residue, Q) \in Nat /\ Sum(Residue, R) \in Nat /\ noise0 \in Nat
      /\ NoiseWithout(Q) = noise0 + Sum(Residue, Q)
      /\ NoiseWithout(R) = noise0 + Sum(Residue, R)
  BY ResidueFacts, NoiseIsSum DEF CleanType
<1> QED
  BY <1>1, <1>2

LEMMA NoiseOfOneMore ==
  ASSUME CleanType, NEW R \in SUBSET States, NEW o \in States \ R
  PROVE  NoiseWithout(R \cup {o}) = NoiseWithout(R) + Residual(o)
<1>1. Sum(Residue, R \cup {o}) = Residual(o) + Sum(Residue, R)
  <2>1. IsFiniteSet(R) /\ Weights(Residue, R \cup {o})
    BY ResidueFacts
  <2> QED
    BY <2>1, SumAdd DEF Residue
<1>2. /\ NoiseWithout(R \cup {o}) = noise0 + Sum(Residue, R \cup {o})
      /\ NoiseWithout(R) = noise0 + Sum(Residue, R)
  BY NoiseIsSum
<1>3. Sum(Residue, R) \in Nat /\ Residual(o) \in Nat /\ noise0 \in Nat
  BY ResidueFacts, ResidualType DEF CleanType
<1> QED
  BY <1>1, <1>2, <1>3

LEMMA CleanInit == Init => CleanInv
<1> SUFFICES ASSUME Init PROVE CleanInv
  OBVIOUS
<1>1. CleanType
  BY CleanAssumption DEF Init, CleanType
<1>2. Removed = {}
  BY DEF Init, Removed
<1>3. NoiseWithout({}) = noise0
  BY <1>1, NoiseIsSum, SumEmpty DEF CleanType
<1> QED
  BY <1>1, <1>2, <1>3 DEF Init, CleanInv

\* An entry that can be taken out is in every stable set.
LEMMA RemovableIsInStable ==
  ASSUME CleanInv, NEW o \in held, Removable(o),
         NEW R \in SUBSET States, Stable(R)
  PROVE  o \in R
<1> SUFFICES ASSUME o \notin R PROVE FALSE
  OBVIOUS
<1>1. CleanType /\ Removed \in SUBSET R /\ noise = NoiseWithout(Removed)
  BY DEF CleanInv
<1>2. o \in States /\ power[o] > NoiseWithout(R) * Threshold /\ o \notin decoded
  BY <1>1 DEF Stable, CleanType
<1>3. power[o] <= NoiseWithout(Removed) * Threshold
  BY <1>1, <1>2 DEF Removable
<1>4. NoiseWithout(Removed) <= NoiseWithout(R)
  BY <1>1, NoiseGrows
<1>5. /\ NoiseWithout(Removed) \in Nat /\ NoiseWithout(R) \in Nat
      /\ power[o] \in Nat /\ Threshold \in Nat
  BY <1>1, <1>2, ResidueFacts, CleanAssumption DEF CleanType
<1>6. \A x, y, z \in Nat : x <= y => x * z <= y * z
  OBVIOUS
<1>7. NoiseWithout(Removed) * Threshold <= NoiseWithout(R) * Threshold
  BY <1>4, <1>5, <1>6
<1>8. \A x, y \in Nat : x * y \in Nat
  OBVIOUS
<1>9. /\ NoiseWithout(Removed) * Threshold \in Nat
      /\ NoiseWithout(R) * Threshold \in Nat
  BY <1>5, <1>8
<1> QED
  BY ONLY <1>2, <1>3, <1>5, <1>7, <1>9

\* What a stable set is does not change.
LEMMA GivenFixesStable ==
  ASSUME UNCHANGED given
  PROVE  /\ \A R : NoiseWithout(R)' = NoiseWithout(R)
         /\ \A R : Stable(R)' <=> Stable(R)
<1>1. \A R : NoiseWithout(R)' = NoiseWithout(R)
  BY DEF given, NoiseWithout, MapThenSumSet, MapThenFoldSet, Residual
<1> QED
  BY <1>1 DEF given, Stable

LEMMA CleanStep == CleanInv /\ [Next]_vars => CleanInv'
<1> SUFFICES ASSUME CleanInv, [Next]_vars
             PROVE  CleanInv'
  OBVIOUS
<1>1. UNCHANGED given
  BY DEF Next, Remove, Return, vars
<1>2. CASE UNCHANGED <<held, noise>>
  <2>1. UNCHANGED Removed /\ (cleaned' => \A o \in held : ~Removable(o))
    BY <1>2 DEF Next, Remove, Return, vars, CleanInv, Removed
  <2>2. \A o : Removable(o)' <=> Removable(o)
    BY <1>1, <1>2 DEF Removable, given
  <2>3. CleanType'
    BY <1>1, <1>2 DEF CleanInv, CleanType, given, Next, Remove, Return, vars
  <2> QED
    BY <1>2, <2>1, <2>2, <2>3, <1>1, GivenFixesStable DEF CleanInv
<1>3. ASSUME NEW o \in States, Remove(o)
      PROVE  CleanInv'
  <2>1. /\ o \in held /\ Removable(o) /\ held' = held \ {o}
        /\ noise' = noise + Residual(o) /\ cleaned' = cleaned
    BY <1>3 DEF Remove, NoiseAfter
  <2>2. ~cleaned
    BY <2>1 DEF CleanInv
  <2>3. CleanType' /\ CleanType
    BY <1>1, <2>1 DEF CleanInv, CleanType, given
  <2>4. Removed' = Removed \cup {o} /\ o \notin Removed /\ Removed \in SUBSET States
    BY <2>1, <2>3 DEF Removed, CleanType
  <2>5. noise' = NoiseWithout(Removed')
    BY <2>1, <2>3, <2>4, NoiseOfOneMore DEF CleanInv
  <2>6. \A R \in SUBSET States : Stable(R) => Removed' \subseteq R
    BY <2>1, <2>4, RemovableIsInStable DEF CleanInv
  <2> QED
    BY <1>1, <2>1, <2>2, <2>3, <2>5, <2>6, GivenFixesStable DEF CleanInv
<1> QED
  BY <1>2, <1>3 DEF Next, Return, vars

\* Whatever order the addresses of the PacketStates give, CleanSlot ends with the
\* same entries and the same noise.
THEOREM OrderDoesNotMatter == Spec => []CleanIsOrderFree
<1>1. Init => CleanInv
  BY CleanInit
<1>2. CleanInv /\ [Next]_vars => CleanInv'
  BY CleanStep
<1>3. CleanInv => CleanIsOrderFree
  <2> SUFFICES ASSUME CleanInv, cleaned
               PROVE  held = States \ LeastStable /\ noise = NoiseWithout(LeastStable)
    BY DEF CleanIsOrderFree
  <2>1. CleanType /\ noise = NoiseWithout(Removed)
    BY DEF CleanInv
  <2>2. Stable(Removed)
    <3>1. decoded \subseteq Removed
      BY <2>1 DEF CleanInv, Removed, Removable, CleanType
    <3>2. ASSUME NEW o \in States \ Removed
          PROVE  power[o] > noise * Threshold
      <4>1. o \in held /\ ~(power[o] <= noise * Threshold) /\ power[o] \in Nat
        BY <2>1 DEF CleanInv, Removed, Removable, CleanType
      <4>2. noise \in Nat
        BY <2>1, ResidueFacts DEF Removed
      <4>3. \A x, y \in Nat : x * y \in Nat
        OBVIOUS
      <4>4. noise * Threshold \in Nat
        BY <4>2, <4>3, CleanAssumption
      <4> QED
        BY ONLY <4>1, <4>4
    <3> QED
      BY <2>1, <3>1, <3>2 DEF Stable
  <2>3. LeastStable = Removed
    BY <2>2 DEF CleanInv, LeastStable, Removed
  <2>4. held = States \ Removed
    BY <2>1 DEF Removed, CleanType
  <2> QED
    BY <2>1, <2>3, <2>4
<1> QED
  BY <1>1, <1>2, <1>3, PTL DEF Spec

=============================================================================
