------------------------------- MODULE MCWire -------------------------------
(* Values of the constants of CsaWire for TLC. *)
EXTENDS CsaWire

\* Two strategies of the script.
ThreeOrFour == {[n |-> 3, s |-> 2], [n |-> 4, s |-> 2]}

\* Slots on both sides of the boundaries of the bytes they are written in.
ByteBoundaries ==
  {<<0, 255, 256>>, <<65535, 65536, 16777216>>,
   <<0, 254, 256, 511>>, <<65535, 65536, 16777215, 16777216>>}

=============================================================================
