-------------------------- MODULE CsaDecoderProofs --------------------------
(***************************************************************************)
(* The abstract decoder is sound.  CsaReceiverProofs instantiates this     *)
(* module with the state of the receiver.                                  *)
(***************************************************************************)
EXTENDS CsaDecoder, TLAPS

TypeInv ==
  /\ now \in Nat
  /\ \A h \in heard : h.slot \in Nat
  /\ known \subseteq HeardPackets

LEMMA HearKeeps ==
  ASSUME TypeInv, KnownIsDecodable, Hear
  PROVE  TypeInv' /\ KnownIsDecodable'
<1>1. TypeInv'
  BY DEF TypeInv, Hear, HeardPackets
<1>2. Over' = Over
  BY DEF TypeInv, Hear, Over
<1>3. ASSUME NEW K \in SUBSET HeardPackets', Closed(K)'
      PROVE  known' \subseteq K
  <2>1. Closed(K \cap HeardPackets)
    BY <1>2, <1>3 DEF Closed, HeardPackets, Over
  <2>2. known \subseteq K
    BY <2>1 DEF KnownIsDecodable
  <2> QED
    BY <2>2 DEF Hear
<1> QED
  BY <1>1, <1>3 DEF KnownIsDecodable

LEMMA CloseKeeps ==
  ASSUME TypeInv, KnownIsDecodable, Close
  PROVE  TypeInv' /\ KnownIsDecodable'
<1>1. TypeInv'
  BY DEF TypeInv, Close, HeardPackets
<1>2. Over = {h \in Over' : h.slot <= now}
  BY DEF TypeInv, Close, Over
<1>3. ASSUME NEW K \in SUBSET HeardPackets', Closed(K)'
      PROVE  known' \subseteq K
  <2>1. Closed(K)
    BY <1>2, <1>3 DEF Closed
  <2>2. HeardPackets' = HeardPackets /\ known' = known
    BY DEF HeardPackets, Close
  <2> QED
    BY <2>1, <2>2 DEF KnownIsDecodable
<1> QED
  BY <1>1, <1>3 DEF KnownIsDecodable

LEMMA DecodeKeeps ==
  ASSUME TypeInv, KnownIsDecodable, Decode
  PROVE  TypeInv' /\ KnownIsDecodable'
<1>1. HeardPackets' = HeardPackets /\ Over' = Over
  BY DEF Decode, HeardPackets, Over
<1>2. TypeInv'
  BY <1>1 DEF TypeInv, Decode
<1>3. \A K : Closed(K)' <=> Closed(K)
  BY <1>1 DEF Closed
<1>4. \A K \in SUBSET HeardPackets : Closed(K) => known' \subseteq K
  BY DEF Decode, KnownIsDecodable
<1> QED
  BY <1>1, <1>2, <1>3, <1>4 DEF KnownIsDecodable

\* The abstract decoder is sound: what it knows follows from what it heard.
THEOREM DecoderIsSound == Spec => []KnownIsDecodable
<1>1. Init => TypeInv /\ KnownIsDecodable
  BY DEF Init, TypeInv, KnownIsDecodable
<1>2. TypeInv /\ KnownIsDecodable /\ [Next]_vars => (TypeInv /\ KnownIsDecodable)'
  <2> SUFFICES ASSUME TypeInv, KnownIsDecodable, [Next]_vars
               PROVE  TypeInv' /\ KnownIsDecodable'
    OBVIOUS
  <2>1. CASE UNCHANGED vars
    BY <2>1 DEF vars, TypeInv, KnownIsDecodable, HeardPackets, Closed, Over
  <2> QED
    BY <2>1, HearKeeps, CloseKeeps, DecodeKeeps DEF Next
<1> QED
  BY <1>1, <1>2, PTL DEF Spec

=============================================================================
