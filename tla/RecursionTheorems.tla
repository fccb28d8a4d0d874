------------------------- MODULE RecursionTheorems -------------------------
(***************************************************************************)
(* Induction and recursion along a well-founded relation, in terms of sets *)
(* and functions: what is to be proved of every element of S is a set U,   *)
(* and what a recursive function computes at x from its other values is    *)
(* a function B of the pair <<f, x>>.                                      *)
(***************************************************************************)
EXTENDS WellFoundedInduction, FiniteSetTheorems, TLAPS

\* The smaller natural number of two.
Smaller == {p \in Nat \X Nat : p[1] < p[2]}

LEMMA SmallerIsWellFounded == IsWellFoundedOn(Smaller, Nat)
BY NatLessThanWellFounded, Zenon DEF OpToRel, Smaller

\* Induction: a set that contains x whenever it contains all below x.
LEMMA InductionOnSet ==
  ASSUME NEW S, NEW R, IsWellFoundedOn(R, S), NEW U,
         \A x \in S : (\A y \in S : <<y, x>> \in R => y \in U) => x \in U
  PROVE  S \subseteq U
<1>1. SUFFICES ASSUME S \ U # {} PROVE FALSE
  OBVIOUS
<1>2. PICK x \in S \ U : \A y \in S \ U : ~(<<y, x>> \in R)
  <2> DEFINE T == S \ U
  <2>1. T \subseteq S /\ T # {}
    BY <1>1
  <2> HIDE DEF T
  <2>2. \E x \in T : \A y \in T : ~(<<y, x>> \in R)
    BY <2>1, WFMin
  <2> QED
    BY <2>2 DEF T
<1> QED
  BY <1>2

\* Induction along the natural numbers.
LEMMA InductionOnNat ==
  ASSUME NEW U, 0 \in U, \A n \in Nat : n \in U => n + 1 \in U
  PROVE  Nat \subseteq U
<1>1. ASSUME NEW x \in Nat, \A y \in Nat : <<y, x>> \in Smaller => y \in U
      PROVE  x \in U
  <2>1. CASE x = 0
    BY <2>1
  <2>2. CASE x # 0
    <3>1. x - 1 \in Nat /\ x - 1 < x /\ (x - 1) + 1 = x
      BY <2>2
    <3>2. <<x - 1, x>> \in Smaller
      BY <3>1 DEF Smaller
    <3> QED
      BY <1>1, <3>1, <3>2
  <2> QED
    BY <2>1, <2>2
<1> QED
  BY <1>1, SmallerIsWellFounded, InductionOnSet

\* A non-empty set of natural numbers has a least element.
LEMMA LeastNatural ==
  ASSUME NEW T \in SUBSET Nat, T # {}
  PROVE  \E n \in T : \A m \in T : n <= m
<1>1. PICK n \in T : \A m \in T : ~(<<m, n>> \in Smaller)
  BY SmallerIsWellFounded, WFMin
<1>2. ASSUME NEW m \in T PROVE n <= m
  <2>1. m \in Nat /\ n \in Nat /\ ~(<<m, n>> \in Smaller)
    BY <1>1
  <2> QED
    BY <2>1 DEF Smaller
<1> QED
  BY <1>2

\* Two measures in lexicographic order.
Lexically(S, m, n) ==
  {p \in S \X S : \/ m[p[1]] < m[p[2]]
                  \/ m[p[1]] = m[p[2]] /\ n[p[1]] < n[p[2]]}

\* Whatever decreases one of two measures, the first one never growing,
\* comes to an end.
LEMMA MeasuresAreWellFounded ==
  ASSUME NEW S, NEW m \in [S -> Nat], NEW n \in [S -> Nat]
  PROVE  IsWellFoundedOn(Lexically(S, m, n), S)
<1>1. ASSUME NEW T \in SUBSET S, T # {}
      PROVE  \E x \in T : \A y \in T : ~(<<y, x>> \in Lexically(S, m, n))
  <2>1. PICK least \in {m[x] : x \in T} : \A k \in {m[x] : x \in T} : least <= k
    <3>1. {m[x] : x \in T} \in SUBSET Nat /\ {m[x] : x \in T} # {}
      BY <1>1
    <3> QED
      BY <3>1, LeastNatural
  <2> DEFINE First == {x \in T : m[x] = least}
  <2>2. PICK next \in {n[x] : x \in First} : \A k \in {n[x] : x \in First} : next <= k
    <3>1. {n[x] : x \in First} \in SUBSET Nat /\ {n[x] : x \in First} # {}
      BY <1>1, <2>1
    <3> QED
      BY <3>1, LeastNatural
  <2>3. PICK x \in First : n[x] = next
    BY <2>2
  <2>4. ASSUME NEW y \in T, <<y, x>> \in Lexically(S, m, n)
        PROVE  FALSE
    <3>1. m[y] < m[x] \/ (m[y] = m[x] /\ n[y] < n[x])
      BY <2>4 DEF Lexically
    <3>2. m[x] = least /\ least <= m[y] /\ m[y] \in Nat /\ m[x] \in Nat
      BY <1>1, <2>1, <2>3
    <3>3. m[y] = m[x]
      BY <3>1, <3>2
    <3>4. y \in First
      BY <3>2, <3>3
    <3>5. n[x] <= n[y] /\ n[x] \in Nat /\ n[y] \in Nat
      BY <1>1, <2>2, <2>3, <3>4
    <3> QED
      BY <3>1, <3>3, <3>5, <3>2
  <2> QED
    BY <2>3, <2>4
<1> QED
  BY <1>1, MinWF

(***************************************************************************)
(* What f[x] is to be, from x and the values of f below x, is B[f, x].     *)
(* Local says that only the values below x count.                          *)
(***************************************************************************)
Local(R, S, T, B) ==
  \A f, g \in [S -> T] : \A x \in S :
    (\A y \in S : <<y, x>> \in R => f[y] = g[y]) => B[<<f, x>>] = B[<<g, x>>]

\* f is as it is to be at x and below.
GoodTo(R, S, B, f, x) ==
  \A y \in S : (y = x \/ <<y, x>> \in R) => f[y] = B[<<f, y>>]

Chain(R, S) == \A x, y, z \in S : <<x, y>> \in R /\ <<y, z>> \in R => <<x, z>> \in R

\* Two such functions agree.
LEMMA RecursionIsUnique ==
  ASSUME NEW S, NEW R, IsWellFoundedOn(R, S), Chain(R, S), NEW T,
         NEW B, Local(R, S, T, B),
         NEW f \in [S -> T], NEW g \in [S -> T], NEW x \in S,
         GoodTo(R, S, B, f, x), GoodTo(R, S, B, g, x)
  PROVE  f[x] = g[x]
<1> DEFINE U == {z \in S : z = x \/ <<z, x>> \in R => f[z] = g[z]}
<1>1. ASSUME NEW z \in S, \A y \in S : <<y, z>> \in R => y \in U
      PROVE  z \in U
  <2>1. SUFFICES ASSUME z = x \/ <<z, x>> \in R PROVE f[z] = g[z]
    OBVIOUS
  <2>2. \A y \in S : <<y, z>> \in R => f[y] = g[y]
    BY <1>1, <2>1 DEF Chain
  <2>3. B[<<f, z>>] = B[<<g, z>>]
    BY <2>2 DEF Local
  <2> QED
    BY <2>1, <2>3 DEF GoodTo
<1>2. S \subseteq U
  <2> HIDE DEF U
  <2> QED
    BY <1>1, InductionOnSet
<1> QED
  BY <1>2

\* B says how to compute a function from S to T along R.
Recursion(S, R, T, B) ==
  /\ IsWellFoundedOn(R, S) /\ Chain(R, S)
  /\ T # {}
  /\ \A f \in [S -> T] : \A x \in S : B[<<f, x>>] \in T
  /\ Local(R, S, T, B)

\* Then there is such a function.
LEMMA RecursionExists ==
  ASSUME NEW S, NEW R, NEW T, NEW B, Recursion(S, R, T, B)
  PROVE  \E f \in [S -> T] : \A x \in S : f[x] = B[<<f, x>>]
<1> USE DEF Recursion
<1> DEFINE Upto(x) == CHOOSE f \in [S -> T] : GoodTo(R, S, B, f, x)
           U == {x \in S : \E f \in [S -> T] : GoodTo(R, S, B, f, x)}
           Joined == [y \in S |-> IF y \in U THEN Upto(y)[y] ELSE CHOOSE t \in T : TRUE]
<1>1. \A x \in U : Upto(x) \in [S -> T] /\ GoodTo(R, S, B, Upto(x), x)
  OBVIOUS
<1>2. Joined \in [S -> T]
  <2>1. (CHOOSE t \in T : TRUE) \in T
    OBVIOUS
  <2>2. \A y \in U : Upto(y)[y] \in T
    BY <1>1
  <2> HIDE DEF Upto, U
  <2> QED
    BY <2>1, <2>2
<1>3. \A x \in U, y \in S : <<y, x>> \in R => y \in U /\ Upto(x)[y] = Joined[y]
  <2> SUFFICES ASSUME NEW x \in U, NEW y \in S, <<y, x>> \in R
               PROVE  y \in U /\ Upto(x)[y] = Joined[y]
    OBVIOUS
  <2>1. GoodTo(R, S, B, Upto(x), y)
    BY <1>1 DEF GoodTo, Chain
  <2>2. y \in U
    BY <1>1, <2>1
  <2>3. Upto(x)[y] = Upto(y)[y]
    BY <1>1, <2>1, <2>2, RecursionIsUnique
  <2> QED
    BY <2>2, <2>3
<1>4. \A x \in U : Joined[x] = B[<<Joined, x>>]
  <2> SUFFICES ASSUME NEW x \in U PROVE Joined[x] = B[<<Joined, x>>]
    OBVIOUS
  <2>1. Joined[x] = Upto(x)[x] /\ x \in S
    OBVIOUS
  <2>2. Upto(x)[x] = B[<<Upto(x), x>>]
    BY <1>1, <2>1 DEF GoodTo
  <2>3. B[<<Upto(x), x>>] = B[<<Joined, x>>]
    <3>1. \A y \in S : <<y, x>> \in R => Upto(x)[y] = Joined[y]
      BY <1>3
    <3>2. Upto(x) \in [S -> T]
      BY <1>1
    <3> HIDE DEF Upto, Joined, U
    <3> QED
      BY <1>2, <2>1, <3>1, <3>2 DEF Local
  <2> QED
    BY <2>1, <2>2, <2>3
<1>5. ASSUME NEW x \in S, \A y \in S : <<y, x>> \in R => y \in U
      PROVE  x \in U
  <2> DEFINE f == [Joined EXCEPT ![x] = B[<<Joined, x>>]]
  <2> HIDE DEF Joined, U
  <2>1. f \in [S -> T] /\ f[x] = B[<<Joined, x>>] /\ \A y \in S : y # x => f[y] = Joined[y]
    BY <1>2
  <2>2. ~(<<x, x>> \in R)
    BY WellFoundedIsIrreflexive
  <2> HIDE DEF f
  <2>3. ASSUME NEW y \in S, y = x \/ <<y, x>> \in R
        PROVE  f[y] = B[<<f, y>>]
    <3>1. \A z \in S : <<z, y>> \in R => z # x
      BY <2>2, <2>3 DEF Chain
    <3>2. \A z \in S : <<z, y>> \in R => f[z] = Joined[z]
      BY <2>1, <3>1
    <3>3. B[<<f, y>>] = B[<<Joined, y>>]
      BY <1>2, <2>1, <3>2 DEF Local
    <3>4. f[y] = B[<<Joined, y>>]
      BY <1>4, <1>5, <2>1, <2>3, <2>2
    <3> QED
      BY <3>3, <3>4
  <2>4. GoodTo(R, S, B, f, x)
    BY <2>3 DEF GoodTo
  <2> QED
    BY <2>1, <2>4 DEF U
<1>6. S \subseteq U
  <2> HIDE DEF U
  <2> QED
    BY <1>5, InductionOnSet
<1> HIDE DEF Joined
<1> QED
  BY <1>2, <1>4, <1>6
=============================================================================
