------------------------------ MODULE MCNetwork ------------------------------
(* Values of the constants of CsaNetwork for TLC. *)
EXTENDS CsaNetwork, TLC

CONSTANTS
  a, b, c, d,  \* the vehicles
  vo, vi       \* the access categories the script counts

TwoNodes == {a, b}
ThreeNodes == {a, b, c}
FourNodes == {a, b, c, d}

OneOfTwo == {[n |-> 2, s |-> 1]}

\* Also a strategy of the script.
Mixed == OneOfTwo \cup {[n |-> 3, s |-> 2]}

\* All nodes near each other.
Near == {[r \in Nodes |-> Nodes]}

\* Near, or a out of the range of the others.
NearOrFar ==
  Near \cup {[r \in Nodes |-> IF r = a THEN Nodes ELSE Nodes \ {a}]}

\* Near, or d a listener that b's signals reach only weakly.
NearOrWeakB ==
  Near \cup {[r \in Nodes |-> IF r = d THEN Nodes \ {b} ELSE Nodes]}

\* a and c have the same part in NetAgree, where only b and d stand out.
SameTalkers == Permutations({a, c})

\* The two categories are treated alike.
SameTids == Permutations({vo, vi})

\* A node without traffic has no use for a strategy, so it need not vary.
MixedInit ==
  /\ Init
  /\ \A v \in Nodes \ Talkers : strategy[v] = CHOOSE k \in Strategies : TRUE

\* Traffic comes in slot 1, or late for a node that has fallen asleep again.
MixedNext ==
  /\ Next
  /\ slot > 1 =>
       \A v \in Talkers : UNCHANGED txCount[v] \/ (isSleeping[v] /\ seqNo[v] > 0)

\* The bounds of NetMixed.
MixedSpec == MixedInit /\ [][MixedNext]_vars

=============================================================================
