------------------------------ MODULE CsaSums ------------------------------
(***************************************************************************)
(* Induction without operator parameters, and the sums of the community    *)
(* modules over finite sets: statistics, noise and payload are such sums.  *)
(*                                                                         *)
(* The folds are recursive functions; that they exist and do not depend on *)
(* the order of the elements is proved here for sums of naturals.          *)
(***************************************************************************)
EXTENDS FiniteSetsExt, FiniteSetTheorems, TLAPS

-----------------------------------------------------------------------------
(* Induction *)

Less == {ss \in Nat \X Nat : ss[1] < ss[2]}

\* Every non-empty set of naturals has a least element.
LEMMA LeastExists ==
  ASSUME NEW T \in SUBSET Nat, T # {}
  PROVE  \E x \in T : \A y \in T : x <= y
<1>1. IsWellFoundedOn(Less, Nat)
  BY NatLessThanWellFounded DEF OpToRel, Less
<1>2. PICK x \in T : \A y \in T : ~(<<y, x>> \in Less)
  BY <1>1, WFMin
<1>3. \A y \in T : ~(y < x)
  BY <1>2 DEF Less
<1> QED
  BY <1>3

\* Min is the least element.
LEMMA MinIsLeast ==
  ASSUME NEW T \in SUBSET Nat, T # {}
  PROVE  Min(T) \in T /\ \A y \in T : Min(T) <= y
  BY LeastExists DEF Min

\* Induction over the naturals, for a set.
LEMMA NatSetInduction ==
  ASSUME NEW T, 0 \in T, \A n \in Nat : n \in T => n + 1 \in T
  PROVE  Nat \subseteq T
<1> SUFFICES ASSUME Nat \ T # {} PROVE FALSE
  OBVIOUS
<1>1. PICK x \in Nat \ T : \A y \in Nat \ T : x <= y
  BY LeastExists
<1>2. x # 0 /\ x - 1 \in Nat /\ ~(x <= x - 1) /\ (x - 1) + 1 = x
  OBVIOUS
<1>3. x - 1 \in T
  BY <1>1, <1>2
<1> QED
  BY <1>2, <1>3

\* Of the subsets of a finite set that lie outside T one is minimal.
LEMMA SubsetInduction ==
  ASSUME NEW S, IsFiniteSet(S), NEW T,
         \A R \in SUBSET S :
           (\A Q \in SUBSET R : Q # R => Q \in T) => R \in T
  PROVE  SUBSET S \subseteq T
<1> SUFFICES ASSUME (SUBSET S) \ T # {} PROVE FALSE
  OBVIOUS
<1> DEFINE U == (SUBSET S) \ T
<1>1. IsWellFoundedOn(StrictSubsetOrdering(S), SUBSET S)
  <2>1. IsWellFoundedOn(StrictSubsetOrdering(S), FiniteSubsetsOf(S))
    BY FS_StrictSubsetOrderingWellFounded
  <2>2. FiniteSubsetsOf(S) = SUBSET S
    BY FS_FiniteSubsetsOfFinite
  <2> QED
    BY <2>1, <2>2
<1>2. PICK R \in U : \A Q \in U : ~(<<Q, R>> \in StrictSubsetOrdering(S))
  <2>1. U \subseteq SUBSET S /\ U # {}
    OBVIOUS
  <2> HIDE DEF U
  <2> QED
    BY <1>1, <2>1, WFMin
<1>3. \A Q \in SUBSET R : Q # R => Q \in T
  BY <1>2 DEF StrictSubsetOrdering
<1> QED
  BY <1>2, <1>3

-----------------------------------------------------------------------------
(* Sums as recursive functions *)

Pick(s) == CHOOSE x \in s : TRUE

\* f is the function by which SumFunctionOnSet computes.
IsSum(w, f, S) ==
  f = [s \in SUBSET S |-> IF s = {} THEN 0 ELSE w[Pick(s)] + f[s \ {Pick(s)}]]

Sum(w, S) == SumFunctionOnSet(w, S)

LEMMA PickIn == \A s : s # {} => Pick(s) \in s
  BY DEF Pick

\* Recursions over two sets agree where both are defined.
LEMMA SumUnique ==
  ASSUME NEW S, IsFiniteSet(S), NEW w, NEW f, IsSum(w, f, S),
         NEW R \in SUBSET S, NEW g, IsSum(w, g, R)
  PROVE  \A s \in SUBSET R : f[s] = g[s]
<1> DEFINE T == {s \in SUBSET R : f[s] = g[s]}
<1>1. ASSUME NEW s \in SUBSET R, \A q \in SUBSET s : q # s => q \in T
      PROVE  s \in T
  <2>1. /\ f[s] = IF s = {} THEN 0 ELSE w[Pick(s)] + f[s \ {Pick(s)}]
        /\ g[s] = IF s = {} THEN 0 ELSE w[Pick(s)] + g[s \ {Pick(s)}]
    BY DEF IsSum
  <2>2. CASE s = {}
    BY <2>1, <2>2
  <2>3. CASE s # {}
    <3>1. s \ {Pick(s)} \in T
      BY <1>1, <2>3, PickIn
    <3> QED
      BY <2>1, <2>3, <3>1
  <2> QED
    BY <2>2, <2>3
<1>2. IsFiniteSet(R)
  BY FS_Subset
<1> HIDE DEF T
<1>3. SUBSET R \subseteq T
  BY <1>1, <1>2, SubsetInduction
<1> QED
  BY <1>3 DEF T

LEMMA SumExists ==
  ASSUME NEW S, IsFiniteSet(S), NEW w
  PROVE  \E f : IsSum(w, f, S)
<1> DEFINE T == {R \in SUBSET S : \E f : IsSum(w, f, R)}
<1>1. ASSUME NEW R \in SUBSET S, \A Q \in SUBSET R : Q # R => Q \in T
      PROVE  R \in T
  <2> DEFINE h(Q) == CHOOSE f : IsSum(w, f, Q)
             below(s) == h(s)[s]
             F == [s \in SUBSET R |->
                     IF s = {} THEN 0 ELSE w[Pick(s)] + below(s \ {Pick(s)})]
  <2>1. \A Q \in SUBSET R : Q # R => IsSum(w, h(Q), Q)
    BY <1>1
  <2>2. ASSUME NEW s \in SUBSET R, s # {}
        PROVE  F[s \ {Pick(s)}] = below(s \ {Pick(s)})
    <3> DEFINE q == s \ {Pick(s)}
    <3>1. q \in SUBSET R /\ q # R
      BY <2>2, PickIn
    <3>2. IsSum(w, h(q), q)
      BY <2>1, <3>1
    <3>3. h(q)[q] = IF q = {} THEN 0 ELSE w[Pick(q)] + h(q)[q \ {Pick(q)}]
      BY <3>2 DEF IsSum
    <3>4. CASE q = {}
      BY <3>1, <3>3, <3>4
    <3>5. CASE q # {}
      <4> DEFINE p == q \ {Pick(q)}
      <4>1. p \in SUBSET q /\ p \in SUBSET R /\ p # R
        BY <3>1, <3>5, PickIn
      <4>2. IsSum(w, h(p), p)
        BY <2>1, <4>1
      <4>3. IsFiniteSet(q)
        BY <3>1, FS_Subset
      <4> HIDE DEF h, p, q
      <4>4. h(q)[p] = h(p)[p]
        BY <3>2, <4>1, <4>2, <4>3, SumUnique
      <4> USE DEF p, q
      <4> QED
        BY <3>1, <3>3, <3>5, <4>4
    <3> QED
      BY <3>4, <3>5
  <2> HIDE DEF h
  <2>3. IsSum(w, F, R)
    BY <2>2 DEF IsSum
  <2> QED
    BY <2>3
<1> HIDE DEF T
<1>2. SUBSET S \subseteq T
  BY <1>1, SubsetInduction
<1> QED
  BY <1>2 DEF T

\* SumFunctionOnSet is computed by such a function.
LEMMA SumIsSum ==
  ASSUME NEW S, IsFiniteSet(S), NEW w
  PROVE  \E f : IsSum(w, f, S) /\ Sum(w, S) = f[S]
<1> DEFINE f == CHOOSE g : IsSum(w, g, S)
<1>1. IsSum(w, f, S)
  BY SumExists
<1>2. Sum(w, S) = f[S]
  BY DEF Sum, SumFunctionOnSet, FoldFunctionOnSet, MapThenFoldSet, IsSum, Pick
<1> QED
  BY <1>1, <1>2

-----------------------------------------------------------------------------
(* Laws of sums *)

LEMMA SumEmpty ==
  ASSUME NEW w
  PROVE  Sum(w, {}) = 0
<1>1. PICK f : IsSum(w, f, {}) /\ Sum(w, {}) = f[{}]
  BY SumIsSum, FS_EmptySet
<1> QED
  BY <1>1 DEF IsSum

LEMMA SumPick ==
  ASSUME NEW S, IsFiniteSet(S), NEW w, S # {}
  PROVE  Sum(w, S) = w[Pick(S)] + Sum(w, S \ {Pick(S)})
<1> DEFINE R == S \ {Pick(S)}
<1>1. R \in SUBSET S /\ IsFiniteSet(R)
  BY FS_Subset
<1>2. PICK f : IsSum(w, f, S) /\ Sum(w, S) = f[S]
  BY SumIsSum
<1>3. PICK g : IsSum(w, g, R) /\ Sum(w, R) = g[R]
  BY <1>1, SumIsSum
<1>4. f[S] = w[Pick(S)] + f[R]
  BY <1>2 DEF IsSum
<1>5. f[R] = g[R]
  <2> HIDE DEF R
  <2> QED
    BY <1>1, <1>2, <1>3, SumUnique
<1> QED
  BY <1>2, <1>3, <1>4, <1>5

Weights(w, S) == \A x \in S : w[x] \in Nat

LEMMA SumType ==
  ASSUME NEW S, IsFiniteSet(S), NEW w, Weights(w, S)
  PROVE  Sum(w, S) \in Nat
<1> DEFINE T == {R \in SUBSET S : Sum(w, R) \in Nat}
<1>1. ASSUME NEW R \in SUBSET S, \A Q \in SUBSET R : Q # R => Q \in T
      PROVE  R \in T
  <2>1. CASE R = {}
    BY <2>1, SumEmpty
  <2>2. CASE R # {}
    <3>1. Pick(R) \in R /\ R \ {Pick(R)} \in T
      BY <1>1, <2>2, PickIn
    <3>2. Sum(w, R) = w[Pick(R)] + Sum(w, R \ {Pick(R)})
      BY <2>2, FS_Subset, SumPick
    <3> QED
      BY <3>1, <3>2 DEF Weights
  <2> QED
    BY <2>1, <2>2
<1> HIDE DEF T
<1>2. SUBSET S \subseteq T
  BY <1>1, SubsetInduction
<1> QED
  BY <1>2 DEF T

\* Any element may be taken out first.
LEMMA SumRemove ==
  ASSUME NEW S, IsFiniteSet(S), NEW w, Weights(w, S), NEW x \in S
  PROVE  Sum(w, S) = w[x] + Sum(w, S \ {x})
<1> DEFINE T == {R \in SUBSET S : \A y \in R : Sum(w, R) = w[y] + Sum(w, R \ {y})}
<1>1. ASSUME NEW R \in SUBSET S, \A Q \in SUBSET R : Q # R => Q \in T
      PROVE  R \in T
  <2> SUFFICES ASSUME NEW y \in R PROVE Sum(w, R) = w[y] + Sum(w, R \ {y})
    OBVIOUS
  <2> DEFINE c == Pick(R)
  <2>1. c \in R
    BY PickIn
  <2>2. Sum(w, R) = w[c] + Sum(w, R \ {c})
    BY FS_Subset, SumPick
  <2> HIDE DEF c
  <2>3. CASE c = y
    BY <2>2, <2>3
  <2>4. CASE c # y
    <3> DEFINE D == (R \ {y}) \ {c}
    <3>1. R \ {c} \in T /\ R \ {y} \in T /\ (R \ {c}) \ {y} = D
      BY <1>1, <2>1
    <3>2. Sum(w, R \ {c}) = w[y] + Sum(w, D)
      BY <2>4, <3>1
    <3>3. Sum(w, R \ {y}) = w[c] + Sum(w, D)
      BY <2>1, <2>4, <3>1
    <3>4. Sum(w, D) \in Nat /\ w[y] \in Nat /\ w[c] \in Nat
      <4>1. IsFiniteSet(D) /\ Weights(w, D)
        BY FS_Subset DEF Weights
      <4> QED
        BY <2>1, <4>1, SumType DEF Weights
    <3> HIDE DEF D
    <3> QED
      BY <2>2, <3>2, <3>3, <3>4
  <2> QED
    BY <2>3, <2>4
<1> HIDE DEF T
<1>2. SUBSET S \subseteq T
  BY <1>1, SubsetInduction
<1> QED
  BY <1>2 DEF T

LEMMA SumAdd ==
  ASSUME NEW S, IsFiniteSet(S), NEW w, NEW x, x \notin S, Weights(w, S \cup {x})
  PROVE  Sum(w, S \cup {x}) = w[x] + Sum(w, S)
<1>1. IsFiniteSet(S \cup {x}) /\ (S \cup {x}) \ {x} = S
  BY FS_AddElement
<1> QED
  BY <1>1, SumRemove

\* What holds of {} and of every set with one element more holds of S: induction
\* in the form the laws below use.
LEMMA AddInduction ==
  ASSUME NEW S, IsFiniteSet(S), NEW T, {} \in T,
         \A R \in SUBSET S : \A x \in S \ R : R \in T => R \cup {x} \in T
  PROVE  SUBSET S \subseteq T
<1>1. ASSUME NEW R \in SUBSET S, \A Q \in SUBSET R : Q # R => Q \in T
      PROVE  R \in T
  <2>1. CASE R # {}
    <3>1. PICK x \in R : TRUE
      BY <2>1
    <3>2. /\ R \ {x} \in T /\ x \in S \ (R \ {x}) /\ R \ {x} \in SUBSET S
          /\ (R \ {x}) \cup {x} = R
      BY <1>1
    <3> QED
      BY <3>2
  <2> QED
    BY <2>1
<1> QED
  BY <1>1, SubsetInduction

\* Weights of w do not exceed those of v.
LEMMA SumMonotonic ==
  ASSUME NEW S, IsFiniteSet(S), NEW w, NEW v, Weights(w, S), Weights(v, S),
         \A x \in S : w[x] <= v[x]
  PROVE  Sum(w, S) <= Sum(v, S)
<1> DEFINE T == {R \in SUBSET S : Sum(w, R) <= Sum(v, R)}
<1>1. {} \in T
  BY SumEmpty
<1>2. ASSUME NEW R \in SUBSET S, NEW x \in S \ R, R \in T
      PROVE  R \cup {x} \in T
  <2>1. IsFiniteSet(R) /\ Weights(w, R \cup {x}) /\ Weights(v, R \cup {x})
        /\ Weights(w, R) /\ Weights(v, R)
    BY FS_Subset DEF Weights
  <2>2. Sum(w, R \cup {x}) = w[x] + Sum(w, R) /\ Sum(v, R \cup {x}) = v[x] + Sum(v, R)
    BY <2>1, SumAdd
  <2>3. Sum(w, R) \in Nat /\ Sum(v, R) \in Nat
    BY <2>1, SumType
  <2>4. w[x] \in Nat /\ v[x] \in Nat /\ w[x] <= v[x]
    BY DEF Weights
  <2> QED
    BY <1>2, <2>2, <2>3, <2>4
<1> HIDE DEF T
<1>3. SUBSET S \subseteq T
  BY <1>1, <1>2, AddInduction
<1> QED
  BY <1>3 DEF T

LEMMA SumSame ==
  ASSUME NEW S, IsFiniteSet(S), NEW w, NEW v, Weights(w, S),
         \A x \in S : w[x] = v[x]
  PROVE  Sum(w, S) = Sum(v, S)
<1>1. Weights(v, S) /\ (\A x \in S : w[x] <= v[x]) /\ \A x \in S : v[x] <= w[x]
  BY DEF Weights
<1>2. Sum(w, S) <= Sum(v, S) /\ Sum(v, S) <= Sum(w, S)
  BY <1>1, SumMonotonic
<1> QED
  BY <1>1, <1>2, SumType

\* One more in one place is one more in the sum.
LEMMA SumIncrement ==
  ASSUME NEW S, IsFiniteSet(S), NEW w, NEW v, Weights(w, S), NEW x \in S,
         v[x] = w[x] + 1, \A y \in S \ {x} : v[y] = w[y]
  PROVE  Sum(v, S) = Sum(w, S) + 1
<1>1. IsFiniteSet(S \ {x}) /\ Weights(w, S \ {x}) /\ Weights(v, S)
  BY FS_Subset DEF Weights
<1>2. Sum(v, S \ {x}) = Sum(w, S \ {x})
  BY <1>1, SumSame
<1>3. Sum(w, S) = w[x] + Sum(w, S \ {x}) /\ Sum(v, S) = v[x] + Sum(v, S \ {x})
  BY <1>1, SumRemove
<1>4. w[x] \in Nat /\ Sum(w, S \ {x}) \in Nat
  BY <1>1, SumType DEF Weights
<1> QED
  BY <1>2, <1>3, <1>4

\* The sum over a part is at most the sum.
LEMMA SumSubset ==
  ASSUME NEW S, IsFiniteSet(S), NEW w, Weights(w, S), NEW R \in SUBSET S
  PROVE  Sum(w, R) <= Sum(w, S)
<1> DEFINE D == S \ R
           T == {Q \in SUBSET D : Sum(w, R) <= Sum(w, R \cup Q)}
<1>1. Sum(w, R) \in Nat
  BY FS_Subset, SumType DEF Weights
<1>2. {} \in T
  <2>1. R \cup {} = R
    OBVIOUS
  <2> QED
    BY <1>1, <2>1
<1>3. ASSUME NEW Q \in SUBSET D, NEW x \in D \ Q, Q \in T
      PROVE  Q \cup {x} \in T
  <2> DEFINE P == R \cup Q
  <2>1. /\ R \cup (Q \cup {x}) = P \cup {x} /\ x \notin P /\ IsFiniteSet(P)
        /\ Weights(w, P \cup {x}) /\ Weights(w, P) /\ w[x] \in Nat
    BY FS_Subset DEF Weights
  <2> HIDE DEF P
  <2>2. Sum(w, P \cup {x}) = w[x] + Sum(w, P) /\ Sum(w, P) \in Nat
    BY <2>1, SumAdd, SumType
  <2>3. Sum(w, R) <= Sum(w, P)
    BY <1>3 DEF P
  <2>4. Sum(w, R) <= Sum(w, P \cup {x})
    BY <1>1, <2>1, <2>2, <2>3
  <2> QED
    BY <2>1, <2>4
<1>4. IsFiniteSet(D)
  BY FS_Subset
<1>5. D \in T
  <2> HIDE DEF D, T
  <2>1. SUBSET D \subseteq T
    BY <1>2, <1>3, <1>4, AddInduction
  <2> QED
    BY <2>1
<1>6. R \cup D = S
  OBVIOUS
<1> QED
  BY <1>5, <1>6

\* A sum of equal terms.
LEMMA SumConstant ==
  ASSUME NEW S, IsFiniteSet(S), NEW w, NEW c \in Nat, \A x \in S : w[x] = c
  PROVE  Sum(w, S) = Cardinality(S) * c
<1> DEFINE T == {R \in SUBSET S : Sum(w, R) = Cardinality(R) * c}
<1>1. {} \in T
  BY SumEmpty, FS_EmptySet
<1>2. ASSUME NEW R \in SUBSET S, NEW x \in S \ R, R \in T
      PROVE  R \cup {x} \in T
  <2>1. /\ IsFiniteSet(R) /\ Cardinality(R) \in Nat
        /\ Cardinality(R \cup {x}) = Cardinality(R) + 1
    BY FS_Subset, FS_CardinalityType, FS_AddElement
  <2>2. Sum(w, R \cup {x}) = c + Sum(w, R)
    <3>1. Weights(w, R \cup {x}) /\ w[x] = c
      BY DEF Weights
    <3>2. IsFiniteSet(R) /\ x \notin R
      BY <2>1
    <3> QED
      BY <3>1, <3>2, SumAdd
  <2>3. Sum(w, R) = Cardinality(R) * c
    BY <1>2
  <2>4. \A n \in Nat : c + n * c = (n + 1) * c
    OBVIOUS
  <2> QED
    BY <2>1, <2>2, <2>3, <2>4
<1> HIDE DEF T
<1>3. SUBSET S \subseteq T
  BY <1>1, <1>2, AddInduction
<1>4. S \in T
  BY <1>3
<1> QED
  BY <1>4 DEF T

\* The sum over two disjoint sets.
LEMMA SumUnion ==
  ASSUME NEW S, IsFiniteSet(S), NEW R, IsFiniteSet(R), S \cap R = {}, NEW w,
         Weights(w, S \cup R)
  PROVE  Sum(w, S \cup R) = Sum(w, S) + Sum(w, R)
<1> DEFINE T == {Q \in SUBSET R : Sum(w, S \cup Q) = Sum(w, S) + Sum(w, Q)}
<1>1. Weights(w, S) /\ Sum(w, S) \in Nat
  BY SumType DEF Weights
<1>2. {} \in T
  <2>1. S \cup {} = S
    OBVIOUS
  <2> QED
    BY <1>1, <2>1, SumEmpty
<1>3. ASSUME NEW Q \in SUBSET R, NEW x \in R \ Q, Q \in T
      PROVE  Q \cup {x} \in T
  <2> DEFINE P == S \cup Q
  <2>1. /\ S \cup (Q \cup {x}) = P \cup {x} /\ x \notin P /\ x \notin Q
        /\ IsFiniteSet(Q) /\ IsFiniteSet(P)
        /\ Weights(w, P \cup {x}) /\ Weights(w, P) /\ w[x] \in Nat
        /\ Weights(w, Q \cup {x}) /\ Weights(w, Q)
    BY FS_Subset, FS_Union DEF Weights
  <2> HIDE DEF P
  <2>2. /\ Sum(w, P \cup {x}) = w[x] + Sum(w, P) /\ Sum(w, P) \in Nat
        /\ Sum(w, Q \cup {x}) = w[x] + Sum(w, Q) /\ Sum(w, Q) \in Nat
    BY <2>1, SumAdd, SumType
  <2>3. Sum(w, P) = Sum(w, S) + Sum(w, Q)
    BY <1>3 DEF P
  <2>4. Sum(w, P \cup {x}) = Sum(w, S) + Sum(w, Q \cup {x})
    BY <1>1, <2>1, <2>2, <2>3
  <2> QED
    BY <2>1, <2>4
<1> HIDE DEF T
<1>4. SUBSET R \subseteq T
  <2>1. \A Q \in SUBSET R : \A x \in R \ Q : Q \in T => Q \cup {x} \in T
    BY <1>3
  <2>2. \A D, Z : /\ IsFiniteSet(D) /\ {} \in Z
                  /\ \A Q \in SUBSET D : \A x \in D \ Q : Q \in Z => Q \cup {x} \in Z
                  => SUBSET D \subseteq Z
    BY AddInduction
  <2> QED
    BY <1>2, <2>1, <2>2
<1>5. R \in T
  BY <1>4
<1> QED
  BY <1>5 DEF T

\* A sum of terms that do not exceed c.
LEMMA SumBounded ==
  ASSUME NEW S, IsFiniteSet(S), NEW w, Weights(w, S), NEW c \in Nat,
         \A x \in S : w[x] <= c
  PROVE  Sum(w, S) <= Cardinality(S) * c
<1> DEFINE v == [x \in S |-> c]
<1>1. Weights(v, S) /\ \A x \in S : w[x] <= v[x] /\ v[x] = c
  BY DEF Weights
<1> HIDE DEF v
<1>2. Sum(w, S) <= Sum(v, S)
  BY <1>1, SumMonotonic
<1>3. Sum(v, S) = Cardinality(S) * c
  BY <1>1, SumConstant
<1> QED
  BY <1>2, <1>3

\* A sum over rows, each of which is at most k times its bound.
LEMMA SumOfRows ==
  ASSUME NEW S, IsFiniteSet(S), NEW Row, NEW w, NEW b, NEW k \in Nat,
         Weights(b, S),
         \A x \in S : IsFiniteSet(Row[x]) /\ Weights(w, Row[x]),
         \A x \in S : Sum(w, Row[x]) <= b[x] * k,
         \A x, y \in S : x # y => Row[x] \cap Row[y] = {}
  PROVE  Sum(w, UNION {Row[x] : x \in S}) <= Sum(b, S) * k
<1> DEFINE Rows(R) == UNION {Row[x] : x \in R}
           T == {R \in SUBSET S :
                   IsFiniteSet(Rows(R)) /\ Sum(w, Rows(R)) <= Sum(b, R) * k}
<1>1. {} \in T
  <2>1. Rows({}) = {} /\ 0 * k = 0
    OBVIOUS
  <2> HIDE DEF Rows
  <2> QED
    BY <2>1, SumEmpty, FS_EmptySet
<1>2. ASSUME NEW R \in SUBSET S, NEW x \in S \ R, R \in T
      PROVE  R \cup {x} \in T
  <2> DEFINE P == Rows(R)  Q == Row[x]
  <2>1. /\ Rows(R \cup {x}) = P \cup Q /\ P \cap Q = {}
        /\ IsFiniteSet(P) /\ IsFiniteSet(Q) /\ Sum(w, P) <= Sum(b, R) * k
    BY <1>2
  <2>2. Weights(w, P \cup Q) /\ Weights(w, P) /\ Weights(w, Q)
    BY DEF Weights
  <2>3. /\ IsFiniteSet(R) /\ Weights(b, R) /\ Weights(b, R \cup {x}) /\ b[x] \in Nat
        /\ Sum(w, Q) <= b[x] * k
    BY FS_Subset DEF Weights
  <2> HIDE DEF P, Q, Rows
  <2>4. Sum(w, P \cup Q) = Sum(w, P) + Sum(w, Q) /\ IsFiniteSet(P \cup Q)
    BY <2>1, <2>2, SumUnion, FS_Union
  <2>5. Sum(b, R \cup {x}) = b[x] + Sum(b, R)
    BY <2>3, SumAdd
  <2>6. Sum(w, P) \in Nat /\ Sum(w, Q) \in Nat /\ Sum(b, R) \in Nat
    BY <2>1, <2>2, <2>3, SumType
  <2>7. \A m, n, p, q \in Nat : p <= m * k /\ q <= n * k => p + q <= (n + m) * k
    <3>1. \A m, n \in Nat : (n + m) * k = m * k + n * k /\ m * k \in Nat /\ n * k \in Nat
      OBVIOUS
    <3> QED
      BY <3>1
  <2>8. Sum(w, P) + Sum(w, Q) <= (b[x] + Sum(b, R)) * k
    BY <2>1, <2>3, <2>6, <2>7
  <2> QED
    BY <2>1, <2>4, <2>5, <2>8
<1> HIDE DEF T
<1>3. SUBSET S \subseteq T
  BY <1>1, <1>2, AddInduction
<1>4. S \in T
  BY <1>3
<1> QED
  BY <1>4 DEF T

=============================================================================
