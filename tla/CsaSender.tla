------------------------------ MODULE CsaSender ------------------------------
(***************************************************************************)
(* What a CSA node promises as a sender, without timers, flags and event   *)
(* order: packets leave one at a time, in the order they came in, each as  *)
(* a number of copies in slots that nothing else of the node uses.         *)
(***************************************************************************)
EXTENDS Naturals, Sequences, FiniteSets

CONSTANTS
  Packets,  \* the packets that may be handed down
  Copies    \* how many copies a packet may be sent as

VARIABLES
  waiting,  \* the packets accepted, in order
  booked,   \* the copies still to be sent of the packet that is being sent
  sent      \* the copies sent

vars == <<waiting, booked, sent>>

InSystem ==
  {waiting[i] : i \in DOMAIN waiting} \cup {b.pkt : b \in booked \cup sent}

\* A packet comes in.  That one is refused is a stuttering step.
Accept(p) ==
  /\ p \notin InSystem
  /\ waiting' = Append(waiting, p)
  /\ UNCHANGED <<booked, sent>>

\* The next packet gets its slots, all of them later than those used so far.
Begin ==
  /\ booked = {} /\ waiting # <<>>
  /\ waiting' = Tail(waiting)
  /\ Cardinality(booked') \in Copies
  /\ \A b \in booked' : b.pkt = Head(waiting)
  /\ \A b, c \in booked' : b.slot = c.slot => b = c
  /\ \A b \in booked', a \in sent : a.slot < b.slot
  /\ UNCHANGED sent

\* The earliest copy is sent.
Put(b) ==
  /\ \A c \in booked : b.slot <= c.slot
  /\ booked' = booked \ {b}
  /\ sent' = sent \cup {b}
  /\ UNCHANGED waiting

Init == waiting = <<>> /\ booked = {} /\ sent = {}

Next ==
  \/ \E p \in Packets : Accept(p)
  \/ Begin
  \/ \E b \in booked : Put(b)

Spec == Init /\ [][Next]_vars

=============================================================================
