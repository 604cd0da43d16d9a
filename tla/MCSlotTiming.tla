---------------------------- MODULE MCSlotTiming ----------------------------
(* Values of the constants of CsaSlotTiming for TLC. *)
EXTENDS CsaSlotTiming, TLC

\* The strategies of the simulation script.
ScriptStrategies == {[n |-> 3, s |-> 2], [n |-> 4, s |-> 2], [n |-> 7, s |-> 2]}

\* csaRates, in tenths of a Mbps.
CsaRates == {30, 45, 60, 90, 120, 180, 240, 270}


\* The two senders are alike.
FragSymmetry == Permutations(Senders)

=============================================================================
