----------------------------- MODULE CsaDecoder -----------------------------
(***************************************************************************)
(* What peeling promises: of what was heard in the slots that are over,    *)
(* only that becomes known which a receiver could find by taking known     *)
(* packets out of slots, one fragment being enough to know a packet.       *)
(*                                                                         *)
(* No buffers, timers, queue of slots or order of arrivals.                *)
(***************************************************************************)
EXTENDS Naturals

VARIABLES
  heard,  \* the packets heard, each with the slot: [slot, pkt]
  now,    \* the last slot that is over
  known   \* the packets decoded

vars == <<heard, now, known>>

Over == {h \in heard : h.slot <= now}
HeardPackets == {h.pkt : h \in heard}

\* One who knows K cannot find another packet: no slot that is over shows
\* exactly one packet outside K.
Closed(K) ==
  \A h \in Over :
    (\A g \in Over : g.slot = h.slot => g.pkt \in K \cup {h.pkt}) => h.pkt \in K

\* Fragments come in, in slots that are not over.
Hear ==
  /\ heard \subseteq heard'
  /\ \A h \in heard' \ heard : h.slot \in Nat /\ h.slot > now
  /\ UNCHANGED <<now, known>>

\* Slots are over.
Close ==
  /\ now' \in Nat /\ now' >= now
  /\ UNCHANGED <<heard, known>>

\* Some packets become known, none that is outside a closed set.
Decode ==
  /\ known \subseteq known'
  /\ known' \ known \subseteq HeardPackets
  /\ \A K \in SUBSET HeardPackets :
       known \subseteq K /\ Closed(K) => known' \subseteq K
  /\ UNCHANGED <<heard, now>>

Init == heard = {} /\ now \in Nat /\ known = {}

Next == Hear \/ Close \/ Decode

Spec == Init /\ [][Next]_vars

\* What is known is in every closed set: peeling alone explains it.
KnownIsDecodable ==
  \A K \in SUBSET HeardPackets : Closed(K) => known \subseteq K

=============================================================================
