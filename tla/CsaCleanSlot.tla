---------------------------- MODULE CsaCleanSlot ----------------------------
(***************************************************************************)
(* CsaSolver::CleanSlot on one slot: it takes out the entries of decoded   *)
(* packets and those the noise drowns, one by one, in the order of the     *)
(* addresses of the PacketStates.  Each removal raises the noise and so    *)
(* may drown another entry.  Does the order matter?                        *)
(*                                                                         *)
(* Powers and noise are linear, in units that make a percent whole.        *)
(***************************************************************************)
EXTENDS Naturals, FiniteSets, FiniteSetsExt

CONSTANTS
  States,       \* the PacketStates in the slot
  Powers,       \* received powers explored
  Noises,       \* noise levels CleanSlot may find, from earlier removals
  Threshold,    \* csaRates[m_dataRate].thresholdDb as a ratio
  Efficiencies  \* values of m_efficiency, in percent

ASSUME CleanAssumption ==
  /\ IsFiniteSet(States) /\ Powers \subseteq Nat /\ Noises \subseteq Nat
  /\ Threshold \in Nat /\ Efficiencies \subseteq 0..100

VARIABLES
  power,       \* SlotState::packets, the power of each entry
  decoded,     \* the packets for which IsDecoded holds
  efficiency,  \* m_efficiency
  noise0,      \* SlotState::noise when CleanSlot is called
  held,        \* the entries still in the slot
  noise,       \* SlotState::noise
  cleaned      \* the recursion has come to its end

given == <<power, decoded, efficiency, noise0>>
vars == <<given, held, noise, cleaned>>

\* What an entry leaves behind as noise when it is taken out.
Residual(o) ==
  IF efficiency = 100 THEN 0
  ELSE IF o \in decoded THEN (power[o] \div 100) * (100 - efficiency)
  ELSE power[o]

\* Mutant: the stronger of noise and residue remains.
NoiseAfterMax(o) == Max({noise, Residual(o)})

NoiseAfter(o) == noise + Residual(o)

Removable(o) == o \in decoded \/ power[o] <= noise * Threshold

Remove(o) ==
  /\ o \in held /\ Removable(o)
  /\ held' = held \ {o}
  /\ noise' = NoiseAfter(o)
  /\ UNCHANGED <<given, cleaned>>

Return ==
  /\ ~cleaned /\ \A o \in held : ~Removable(o)
  /\ cleaned' = TRUE
  /\ UNCHANGED <<given, held, noise>>

Init ==
  /\ power \in [States -> Powers] /\ decoded \in SUBSET States
  /\ efficiency \in Efficiencies /\ noise0 \in Noises
  /\ held = States /\ noise = noise0 /\ cleaned = FALSE

Next == Return \/ \E o \in States : Remove(o)

Spec == Init /\ [][Next]_vars

-----------------------------------------------------------------------------
(* Properties *)

\* The noise after all of R has been taken out.
NoiseWithout(R) == noise0 + MapThenSumSet(Residual, R)

\* Taking out exactly R leaves nothing to take out.
Stable(R) ==
  /\ decoded \subseteq R
  /\ \A o \in States \ R : power[o] > NoiseWithout(R) * Threshold

\* What is in every stable set.
LeastStable == {o \in States : \A R \in SUBSET States : Stable(R) => o \in R}

\* CleanSlot takes out the least set that can be taken out, and its noise,
\* whatever the order: the addresses of the PacketStates do not show in what
\* is decoded.
CleanIsOrderFree ==
  cleaned => held = States \ LeastStable /\ noise = NoiseWithout(LeastStable)

=============================================================================
