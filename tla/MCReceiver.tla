----------------------------- MODULE MCReceiver -----------------------------
(* Values of the constants of CsaReceiver for TLC, and one scenario. *)
EXTENDS CsaReceiver, TLC

CONSTANTS a, b, c  \* packets, each of a node of its own

ThreePackets == {a, b, c}

PacketSymmetry == Permutations(Packets)

OneOfTwo == {[n |-> 2, s |-> 1]}
TwoOfThree == {[n |-> 3, s |-> 2]}
Mixed == OneOfTwo \cup TwoOfThree

\* Two strategies of the simulation script.
ThreeOrFour == {[n |-> 3, s |-> 2], [n |-> 4, s |-> 2]}

\* a and b have been received once when the copy of a in slot 5 starts a
\* cascade over slots 3 and 4.
Cascade ==
  LET From(slots) == [allSlots |-> slots, s |-> 2, power |-> 10000]
  IN (a :> From(<<2, 3, 4, 5>>)) @@ (b :> From(<<1, 3, 4>>))
       @@ (c :> From(<<4, 6, 7>>))

CascadeSpec == sent = Cascade /\ Init /\ [][Next]_vars

=============================================================================
