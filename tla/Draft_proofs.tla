---------------------------- MODULE Draft_proofs ----------------------------
(***************************************************************************)
(* Proofs about Draft, in this order:                                      *)
(*   - the search of receipt_diagnostics is a well-founded recursion, and  *)
(*     meets exactly what lies below its root (SearchExact);               *)
(*   - Support and the work list of prerequisite_receipts come to the      *)
(*     least closed set above their roots;                                 *)
(*   - what validate_contract's checks give the report;                    *)
(*   - what a report without a blocker vouches for (PermittedSupported);   *)
(*   - what an edit of facts does to the next report (WiringUntouched,     *)
(*     SettlingHelps, IndependentStays).                                   *)
(* A walk along the evidence is a recursive function: that one exists is   *)
(* proved (RecursionTheorems), and what it computes is proved by           *)
(* induction on a set of its arguments.                                    *)
(***************************************************************************)
EXTENDS Draft, RecursionTheorems
(***************************************************************************)
(* The search along issuers' evidence.  K are the receipts, evidence the   *)
(* list of references that stands behind each.                             *)
(***************************************************************************)

\* The result of a call.
Results(K) == [seen : SUBSET K, cycles : SUBSET K]

\* How much a call may still put on its path, and how long its list is.
Depth(K) == [c \in Calls(K) |-> Cardinality(K \ c.active)]
Length(K) == [c \in Calls(K) |-> Len(c.refs)]
Lower(K) == Lexically(Calls(K), Depth(K), Length(K))

Deeper(evidence, c) ==
  [refs |-> evidence[Head(c.refs)], active |-> c.active \cup {Head(c.refs)},
   seen |-> c.seen \cup {Head(c.refs)}]
Onward(c, seen) == [c EXCEPT !.refs = Tail(c.refs), !.seen = seen]

\* What the first reference of a call comes to.
Here(evidence, visit, c) ==
  IF Head(c.refs) \in c.active THEN [seen |-> c.seen, cycles |-> {Head(c.refs)}]
  ELSE IF Head(c.refs) \in c.seen THEN [seen |-> c.seen, cycles |-> {}]
  ELSE visit[Deeper(evidence, c)]

Both(here, rest) == [seen |-> rest.seen, cycles |-> here.cycles \cup rest.cycles]

LEMMA VisitUnfolds ==
  ASSUME NEW evidence, NEW visit, NEW c
  PROVE  Visit(evidence, visit, c) =
           IF c.refs = <<>> THEN [seen |-> c.seen, cycles |-> {}]
           ELSE Both(Here(evidence, visit, c),
                     visit[Onward(c, Here(evidence, visit, c).seen)])
BY DEF Visit, Here, Both, Deeper, Onward

\* The calls a call makes are calls, and lower ones.
LEMMA DeeperIsLower ==
  ASSUME NEW K, IsFiniteSet(K), NEW evidence \in [K -> Seq(K)],
         NEW c \in Calls(K), c.refs # <<>>, Head(c.refs) \notin c.active
  PROVE  Deeper(evidence, c) \in Calls(K) /\ <<Deeper(evidence, c), c>> \in Lower(K)
<1> DEFINE r == Head(c.refs)
           e == Deeper(evidence, c)
<1>1. r \in K /\ c.active \in SUBSET K /\ c.seen \in SUBSET K
  BY DEF Calls
<1>2. e \in Calls(K) /\ e.active = c.active \cup {r}
  BY <1>1 DEF Calls, Deeper
<1>3. Cardinality(K \ e.active) = Cardinality(K \ c.active) - 1
  <2> DEFINE left == K \ c.active
  <2>1. IsFiniteSet(left)
    BY <1>1, FS_Subset
  <2>2. r \in left
    BY <1>1
  <2>3. K \ e.active = left \ {r}
    BY <1>2
  <2> HIDE DEF left, r, e
  <2>4. Cardinality(left \ {r}) = Cardinality(left) - 1
    BY <2>1, <2>2, FS_RemoveElement
  <2> QED
    BY <2>3, <2>4 DEF left
<1>4. Cardinality(K \ c.active) \in Nat
  BY <1>1, FS_Subset, FS_CardinalityType
<1> HIDE DEF e, r
<1>5. Depth(K)[e] < Depth(K)[c]
  <2>1. Depth(K)[e] = Cardinality(K \ e.active) /\ Depth(K)[c] = Cardinality(K \ c.active)
    BY <1>2 DEF Depth
  <2> QED
    BY <1>3, <1>4, <2>1
<1> QED
  BY <1>2, <1>5 DEF Lower, Lexically, e

LEMMA OnwardIsLower ==
  ASSUME NEW K, NEW c \in Calls(K), c.refs # <<>>, NEW seen \in SUBSET K
  PROVE  Onward(c, seen) \in Calls(K) /\ <<Onward(c, seen), c>> \in Lower(K)
<1> DEFINE e == Onward(c, seen)
<1>1. c.refs \in Seq(K) /\ Tail(c.refs) \in Seq(K) /\ Len(Tail(c.refs)) < Len(c.refs)
  BY DEF Calls
<1>2. e \in Calls(K) /\ e.active = c.active /\ e.refs = Tail(c.refs)
  BY <1>1 DEF Calls, Onward
<1> HIDE DEF e
<1>3. Depth(K)[e] = Depth(K)[c] /\ Length(K)[e] < Length(K)[c]
  BY <1>1, <1>2 DEF Depth, Length
<1> QED
  BY <1>2, <1>3 DEF Lower, Lexically, e

LEMMA LowerIsWellFounded ==
  ASSUME NEW K, IsFiniteSet(K)
  PROVE  IsWellFoundedOn(Lower(K), Calls(K)) /\ Chain(Lower(K), Calls(K))
<1>1. Depth(K) \in [Calls(K) -> Nat]
  <2>1. \A c \in Calls(K) : Cardinality(K \ c.active) \in Nat
    <3> SUFFICES ASSUME NEW c \in Calls(K) PROVE Cardinality(K \ c.active) \in Nat
      OBVIOUS
    <3>1. K \ c.active \in SUBSET K
      OBVIOUS
    <3> QED
      BY <3>1, FS_Subset, FS_CardinalityType
  <2> QED
    BY <2>1 DEF Depth
<1>2. Length(K) \in [Calls(K) -> Nat]
  BY DEF Length, Calls
<1>3. Chain(Lower(K), Calls(K))
  <2> SUFFICES ASSUME NEW x \in Calls(K), NEW y \in Calls(K), NEW z \in Calls(K),
                      <<x, y>> \in Lower(K), <<y, z>> \in Lower(K)
               PROVE  <<x, z>> \in Lower(K)
    BY DEF Chain
  <2>1. /\ Depth(K)[x] \in Nat /\ Depth(K)[y] \in Nat /\ Depth(K)[z] \in Nat
        /\ Length(K)[x] \in Nat /\ Length(K)[y] \in Nat /\ Length(K)[z] \in Nat
    BY <1>1, <1>2
  <2> QED
    BY <2>1 DEF Lower, Lexically
<1> QED
  BY <1>1, <1>2, <1>3, MeasuresAreWellFounded DEF Lower

\* The search is defined: there is a function that satisfies its recursion.
LEMMA SearchIsDefined ==
  ASSUME NEW K, IsFiniteSet(K), NEW evidence \in [K -> Seq(K)]
  PROVE  \E visit : visit = [c \in Calls(K) |-> Visit(evidence, visit, c)]
<1> DEFINE S == Calls(K)
           T == Results(K)
           B == [p \in [S -> T] \X S |-> Visit(evidence, p[1], p[2])]
<1>1. \A f \in [S -> T], c \in S : B[<<f, c>>] = Visit(evidence, f, c)
  OBVIOUS
<1>2. ASSUME NEW f \in [S -> T], NEW c \in S, c.refs # <<>>
      PROVE  Here(evidence, f, c) \in T
  <2>1. Head(c.refs) \in K /\ c.seen \in SUBSET K
    BY <1>2 DEF Calls
  <2>2. CASE Head(c.refs) \in c.active
    BY <2>1, <2>2 DEF Here, Results
  <2>3. CASE Head(c.refs) \notin c.active /\ Head(c.refs) \in c.seen
    BY <2>1, <2>3 DEF Here, Results
  <2>4. CASE Head(c.refs) \notin c.active /\ Head(c.refs) \notin c.seen
    <3>1. Deeper(evidence, c) \in S
      BY <1>2, <2>4, DeeperIsLower
    <3> HIDE DEF S, T
    <3>2. f[Deeper(evidence, c)] \in T
      BY <1>2, <3>1
    <3> QED
      BY <3>2, <2>4 DEF Here
  <2> QED
    BY <2>2, <2>3, <2>4
<1>3. ASSUME NEW f \in [S -> T], NEW c \in S PROVE Visit(evidence, f, c) \in T
  <2>1. CASE c.refs = <<>>
    BY <2>1, VisitUnfolds DEF Calls, Results
  <2>2. CASE c.refs # <<>>
    <3> DEFINE here == Here(evidence, f, c)
               rest == f[Onward(c, here.seen)]
    <3>1. here \in T
      BY <1>2, <2>2
    <3> HIDE DEF here
    <3>2. Onward(c, here.seen) \in S
      BY <2>2, <3>1, OnwardIsLower DEF Results
    <3>3. rest \in T
      BY <1>3, <3>2
    <3> HIDE DEF rest
    <3>4. Both(here, rest) \in T
      BY <3>1, <3>3 DEF Both, Results
    <3>5. Visit(evidence, f, c) = Both(here, rest)
      BY <2>2, VisitUnfolds DEF here, rest
    <3> QED
      BY <3>4, <3>5
  <2> QED
    BY <2>1, <2>2
<1>4. Local(Lower(K), S, T, B)
  <2> SUFFICES ASSUME NEW f \in [S -> T], NEW g \in [S -> T], NEW c \in S,
                      \A y \in S : <<y, c>> \in Lower(K) => f[y] = g[y]
               PROVE  Visit(evidence, f, c) = Visit(evidence, g, c)
    BY <1>1, Zenon DEF Local
  <2>1. CASE c.refs = <<>>
    BY <2>1, VisitUnfolds
  <2>2. CASE c.refs # <<>>
    <3>1. Here(evidence, f, c) = Here(evidence, g, c)
      <4>1. CASE Head(c.refs) \in c.active
        BY <4>1 DEF Here
      <4>2. CASE Head(c.refs) \notin c.active
        <5>1. f[Deeper(evidence, c)] = g[Deeper(evidence, c)]
          BY <2>2, <4>2, DeeperIsLower
        <5> QED
          BY <5>1, <4>2 DEF Here
      <4> QED
        BY <4>1, <4>2
    <3> DEFINE here == Here(evidence, f, c)
    <3>2. here \in T
      BY <1>2, <2>2
    <3>3. here.seen \in SUBSET K
      BY <3>2 DEF Results
    <3>4. f[Onward(c, here.seen)] = g[Onward(c, here.seen)]
      BY <2>2, <3>3, OnwardIsLower
    <3> QED
      BY <2>2, <3>1, <3>4, VisitUnfolds
  <2> QED
    BY <2>1, <2>2
<1>5. T # {}
  <2>1. [seen |-> {}, cycles |-> {}] \in T
    BY DEF Results
  <2> QED
    BY <2>1
<1>6. \A f \in [S -> T] : \A c \in S : B[<<f, c>>] \in T
  BY <1>1, <1>3
<1>7. IsWellFoundedOn(Lower(K), S) /\ Chain(Lower(K), S)
  BY LowerIsWellFounded
<1>8a. Recursion(S, Lower(K), T, B)
  BY <1>4, <1>5, <1>6, <1>7 DEF Recursion
<1> HIDE DEF B, T, S
<1>8. PICK f \in [S -> T] : \A c \in S : f[c] = B[<<f, c>>]
  BY <1>8a, RecursionExists
<1>9. f = [c \in Calls(K) |-> Visit(evidence, f, c)]
  BY <1>1, <1>8 DEF S
<1> QED
  BY <1>9

(***************************************************************************)
(* What the search finds.                                                  *)
(***************************************************************************)

\* With a receipt, all that stands behind it.
ClosedIn(evidence, W) == \A r \in W : Elements(evidence[r]) \subseteq W

ClosedSets(K, evidence) == {W \in SUBSET K : ClosedIn(evidence, W)}

\* r is among what stands, at any depth, behind r.
Circular(K, evidence, r) ==
  \A W \in ClosedSets(K, evidence) : Elements(evidence[r]) \subseteq W => r \in W

\* Closed, and nothing in it is circular.
Grounded(K, evidence, W) ==
  ClosedIn(evidence, W) /\ \A r \in W : ~Circular(K, evidence, r)

\* What is true of the result of a call.
Typical(K, c, res) ==
  res \in Results(K) /\ c.seen \subseteq res.seen

\* It meets all it is asked for, and what stands behind what it meets.
MeetsAll(evidence, c, res) ==
  c.active \subseteq c.seen =>
    /\ Elements(c.refs) \subseteq res.seen
    /\ \A r \in res.seen \ c.seen : Elements(evidence[r]) \subseteq res.seen

\* It meets, and reports, nothing else.
MeetsOnly(K, evidence, c, res) ==
  \A W \in ClosedSets(K, evidence) : Elements(c.refs) \subseteq W =>
    res.seen \subseteq c.seen \cup W /\ res.cycles \subseteq W

\* All on the path have the references of the call behind them.
OnPath(K, evidence, c) ==
  \A a \in c.active : \A W \in ClosedSets(K, evidence) :
    Elements(evidence[a]) \subseteq W => Elements(c.refs) \subseteq W

\* What it reports is circular.
ReportsCircles(K, evidence, c, res) ==
  OnPath(K, evidence, c) => \A r \in res.cycles : Circular(K, evidence, r)

\* When it reports nothing, it did not come back to its path, and what it has
\* done with is grounded.
StaysGrounded(K, evidence, c, res) ==
  res.cycles = {} =>
    /\ Elements(c.refs) \cap c.active = {}
    /\ (c.active \subseteq c.seen /\ Grounded(K, evidence, c.seen \ c.active))
         => Grounded(K, evidence, res.seen \ c.active)

Right(K, evidence, c, res) ==
  /\ Typical(K, c, res)
  /\ MeetsAll(evidence, c, res)
  /\ MeetsOnly(K, evidence, c, res)
  /\ ReportsCircles(K, evidence, c, res)
  /\ StaysGrounded(K, evidence, c, res)

LEMMA ElementsOfEmpty == Elements(<<>>) = {}
BY DEF Elements

LEMMA ElementsInside ==
  ASSUME NEW K, NEW s \in Seq(K)
  PROVE  Elements(s) \in SUBSET K
BY DEF Elements

LEMMA ElementsOfOne ==
  ASSUME NEW K, NEW x \in K
  PROVE  <<x>> \in Seq(K) /\ Elements(<<x>>) = {x}
BY DEF Elements

LEMMA ElementsSplit ==
  ASSUME NEW K, NEW s \in Seq(K), s # <<>>
  PROVE  Elements(s) = {Head(s)} \cup Elements(Tail(s))
<1>1. \A i \in 1 .. Len(Tail(s)) : Tail(s)[i] = s[i + 1]
  OBVIOUS
<1>2. Len(s) \in Nat /\ Len(s) > 0 /\ Len(Tail(s)) = Len(s) - 1 /\ Tail(s) \in Seq(K)
  OBVIOUS
<1>3. DOMAIN s = 1 .. Len(s) /\ DOMAIN Tail(s) = 1 .. Len(Tail(s)) /\ Head(s) = s[1]
  BY <1>2
<1>4. ASSUME NEW i \in DOMAIN s PROVE s[i] \in {Head(s)} \cup Elements(Tail(s))
  <2>1. CASE i = 1
    BY <1>3, <2>1
  <2>2. CASE i # 1
    <3>1. i - 1 \in DOMAIN Tail(s) /\ Tail(s)[i - 1] = s[i]
      BY <1>1, <1>2, <1>3, <2>2
    <3> QED
      BY <3>1 DEF Elements
  <2> QED
    BY <2>1, <2>2
<1>5. ASSUME NEW i \in DOMAIN Tail(s) PROVE Tail(s)[i] \in Elements(s)
  <2>1. i + 1 \in DOMAIN s /\ s[i + 1] = Tail(s)[i]
    BY <1>1, <1>2, <1>3
  <2> QED
    BY <2>1 DEF Elements
<1>6. Head(s) \in Elements(s)
  BY <1>2, <1>3 DEF Elements
<1> QED
  BY <1>4, <1>5, <1>6 DEF Elements

\* The first reference of a call, as a call of its own.
First(c) == [c EXCEPT !.refs = <<Head(c.refs)>>]

LEMMA RightAtEnd ==
  ASSUME NEW K, NEW evidence \in [K -> Seq(K)], NEW c \in Calls(K), c.refs = <<>>
  PROVE  Right(K, evidence, c, [seen |-> c.seen, cycles |-> {}])
<1>1. Elements(c.refs) = {} /\ c.seen \in SUBSET K
  BY ElementsOfEmpty DEF Calls
<1> QED
  BY <1>1 DEF Right, Typical, MeetsAll, MeetsOnly, ReportsCircles, StaysGrounded, Results

LEMMA FirstIsCall ==
  ASSUME NEW K, NEW c \in Calls(K), c.refs # <<>>
  PROVE  /\ First(c) \in Calls(K)
         /\ First(c).active = c.active /\ First(c).seen = c.seen
         /\ Elements(First(c).refs) = {Head(c.refs)} /\ Head(c.refs) \in K
<1>1. Head(c.refs) \in K
  BY DEF Calls
<1>2. <<Head(c.refs)>> \in Seq(K) /\ Elements(<<Head(c.refs)>>) = {Head(c.refs)}
  BY <1>1, ElementsOfOne
<1> QED
  BY <1>1, <1>2 DEF First, Calls

\* It is on the path already, or seen already.
LEMMA RightOnPath ==
  ASSUME NEW K, NEW evidence \in [K -> Seq(K)], NEW c \in Calls(K), c.refs # <<>>,
         Head(c.refs) \in c.active
  PROVE  Right(K, evidence, First(c), [seen |-> c.seen, cycles |-> {Head(c.refs)}])
<1> DEFINE r == Head(c.refs)
           f == First(c)
           res == [seen |-> c.seen, cycles |-> {r}]
<1>1. /\ f.active = c.active /\ f.seen = c.seen /\ Elements(f.refs) = {r} /\ r \in K
      /\ c.seen \in SUBSET K
  BY FirstIsCall DEF Calls
<1>2. res.seen = c.seen /\ res.cycles = {r} /\ res \in Results(K)
  BY <1>1 DEF Results
<1> HIDE DEF r, f, res
<1>3. ReportsCircles(K, evidence, f, res)
  BY <1>1, <1>2 DEF ReportsCircles, OnPath, Circular, r
<1> QED
  BY <1>1, <1>2, <1>3 DEF Right, Typical, MeetsAll, MeetsOnly, StaysGrounded, f, res, r

LEMMA RightWhenSeen ==
  ASSUME NEW K, NEW evidence \in [K -> Seq(K)], NEW c \in Calls(K), c.refs # <<>>,
         Head(c.refs) \notin c.active, Head(c.refs) \in c.seen
  PROVE  Right(K, evidence, First(c), [seen |-> c.seen, cycles |-> {}])
<1> DEFINE r == Head(c.refs)
           f == First(c)
           res == [seen |-> c.seen, cycles |-> {}]
<1>1. /\ f.active = c.active /\ f.seen = c.seen /\ Elements(f.refs) = {r} /\ r \in K
      /\ c.seen \in SUBSET K
  BY FirstIsCall DEF Calls
<1>2. res.seen = c.seen /\ res.cycles = {} /\ res \in Results(K)
  BY <1>1 DEF Results
<1> HIDE DEF r, f, res
<1> QED
  BY <1>1, <1>2
     DEF Right, Typical, MeetsAll, MeetsOnly, ReportsCircles, StaysGrounded, f, res, r

\* It is new: the search goes deeper.
LEMMA RightDeeper ==
  ASSUME NEW K, NEW evidence \in [K -> Seq(K)], NEW c \in Calls(K), c.refs # <<>>,
         Head(c.refs) \notin c.active, Head(c.refs) \notin c.seen,
         NEW res, Right(K, evidence, Deeper(evidence, c), res)
  PROVE  Right(K, evidence, First(c), res)
<1> DEFINE r == Head(c.refs)
           f == First(c)
           e == Deeper(evidence, c)
<1>1. /\ f.active = c.active /\ f.seen = c.seen /\ Elements(f.refs) = {r} /\ r \in K
      /\ c.seen \in SUBSET K /\ c.active \in SUBSET K
  BY FirstIsCall DEF Calls
<1>2. /\ e.active = c.active \cup {r} /\ e.seen = c.seen \cup {r} /\ e.refs = evidence[r]
  BY DEF Deeper
<1>3. r \notin c.active /\ r \notin c.seen
  OBVIOUS
<1>4. /\ Typical(K, e, res) /\ MeetsAll(evidence, e, res) /\ MeetsOnly(K, evidence, e, res)
      /\ ReportsCircles(K, evidence, e, res) /\ StaysGrounded(K, evidence, e, res)
  BY DEF Right
<1> HIDE DEF r, f, e
<1>5. Typical(K, f, res)
  BY <1>1, <1>2, <1>4 DEF Typical
<1>6. MeetsAll(evidence, f, res)
  BY <1>1, <1>2, <1>4 DEF MeetsAll, Typical
<1>7. ASSUME NEW W \in ClosedSets(K, evidence), r \in W
      PROVE  Elements(evidence[r]) \subseteq W
  BY <1>7 DEF ClosedSets, ClosedIn
<1>8. MeetsOnly(K, evidence, f, res)
  BY <1>1, <1>2, <1>4, <1>7 DEF MeetsOnly
<1>9. ReportsCircles(K, evidence, f, res)
  <2> SUFFICES ASSUME OnPath(K, evidence, f)
               PROVE  \A x \in res.cycles : Circular(K, evidence, x)
    BY DEF ReportsCircles
  <2>1. OnPath(K, evidence, e)
    BY <1>1, <1>2, <1>7 DEF OnPath
  <2> QED
    BY <1>4, <2>1 DEF ReportsCircles
<1>10. StaysGrounded(K, evidence, f, res)
  <2> SUFFICES ASSUME res.cycles = {}
               PROVE  /\ {r} \cap c.active = {}
                      /\ (c.active \subseteq c.seen /\ Grounded(K, evidence, c.seen \ c.active))
                           => Grounded(K, evidence, res.seen \ c.active)
    BY <1>1 DEF StaysGrounded
  <2>1. Elements(evidence[r]) \cap (c.active \cup {r}) = {}
    BY <1>2, <1>4 DEF StaysGrounded
  <2> SUFFICES ASSUME c.active \subseteq c.seen, Grounded(K, evidence, c.seen \ c.active)
               PROVE  Grounded(K, evidence, res.seen \ c.active)
    BY <1>3
  <2> DEFINE done == res.seen \ (c.active \cup {r})
  <2>2. Grounded(K, evidence, done)
    <3>1. e.seen \ e.active = c.seen \ c.active
      BY <1>2, <1>3
    <3> QED
      BY <1>2, <1>4, <3>1 DEF StaysGrounded
  <2>3. Elements(evidence[r]) \subseteq done
    BY <1>2, <1>4, <2>1 DEF MeetsAll
  <2>4. done \in ClosedSets(K, evidence)
    BY <1>4, <2>2 DEF ClosedSets, Grounded, Typical, Results
  <2>5. ~Circular(K, evidence, r)
    BY <2>3, <2>4 DEF Circular
  <2>6. res.seen \ c.active = done \cup {r}
    BY <1>2, <1>3, <1>4 DEF Typical
  <2> HIDE DEF done
  <2>7. ClosedIn(evidence, done \cup {r})
    BY <2>2, <2>3 DEF ClosedIn, Grounded
  <2> QED
    BY <2>2, <2>5, <2>6, <2>7 DEF Grounded
<1> QED
  BY <1>5, <1>6, <1>8, <1>9, <1>10 DEF Right, f

\* The first reference, and then the others.
LEMMA RightThenRight ==
  ASSUME NEW K, NEW evidence \in [K -> Seq(K)], NEW c \in Calls(K), c.refs # <<>>,
         NEW here, Right(K, evidence, First(c), here),
         NEW rest, Right(K, evidence, Onward(c, here.seen), rest)
  PROVE  Right(K, evidence, c, Both(here, rest))
<1> DEFINE r == Head(c.refs)
           f == First(c)
           o == Onward(c, here.seen)
           res == Both(here, rest)
<1>1. /\ f.active = c.active /\ f.seen = c.seen /\ Elements(f.refs) = {r} /\ r \in K
  BY FirstIsCall
<1>2. o.active = c.active /\ o.seen = here.seen /\ o.refs = Tail(c.refs)
  BY DEF Onward, Calls
<1>3. Elements(c.refs) = {r} \cup Elements(o.refs)
  <2>1. c.refs \in Seq(K)
    BY DEF Calls
  <2> QED
    BY <1>2, <2>1, ElementsSplit
<1>4. res.seen = rest.seen /\ res.cycles = here.cycles \cup rest.cycles
  BY DEF Both
<1>5. /\ Typical(K, f, here) /\ MeetsAll(evidence, f, here) /\ MeetsOnly(K, evidence, f, here)
      /\ ReportsCircles(K, evidence, f, here) /\ StaysGrounded(K, evidence, f, here)
  BY DEF Right
<1>6. /\ Typical(K, o, rest) /\ MeetsAll(evidence, o, rest) /\ MeetsOnly(K, evidence, o, rest)
      /\ ReportsCircles(K, evidence, o, rest) /\ StaysGrounded(K, evidence, o, rest)
  BY DEF Right
<1>7. Typical(K, c, res)
  BY <1>1, <1>2, <1>5, <1>6 DEF Typical, Results, Both
<1> HIDE DEF r, f, o, res
<1>8. MeetsAll(evidence, c, res)
  <2> SUFFICES ASSUME c.active \subseteq c.seen
               PROVE  /\ Elements(c.refs) \subseteq res.seen
                      /\ \A x \in res.seen \ c.seen : Elements(evidence[x]) \subseteq res.seen
    BY DEF MeetsAll
  <2>1. /\ r \in here.seen
        /\ \A x \in here.seen \ c.seen : Elements(evidence[x]) \subseteq here.seen
        /\ c.seen \subseteq here.seen
    BY <1>1, <1>5 DEF MeetsAll, Typical
  <2>2. /\ Elements(o.refs) \subseteq rest.seen
        /\ \A x \in rest.seen \ here.seen : Elements(evidence[x]) \subseteq rest.seen
        /\ here.seen \subseteq rest.seen
    BY <1>2, <1>6, <2>1 DEF MeetsAll, Typical
  <2> QED
    BY <1>3, <1>4, <2>1, <2>2
<1>9. MeetsOnly(K, evidence, c, res)
  BY <1>1, <1>2, <1>3, <1>4, <1>5, <1>6 DEF MeetsOnly
<1>10. ReportsCircles(K, evidence, c, res)
  BY <1>1, <1>2, <1>3, <1>4, <1>5, <1>6 DEF ReportsCircles, OnPath
<1>11. StaysGrounded(K, evidence, c, res)
  <2> SUFFICES ASSUME res.cycles = {}
               PROVE  /\ Elements(c.refs) \cap c.active = {}
                      /\ (c.active \subseteq c.seen /\ Grounded(K, evidence, c.seen \ c.active))
                           => Grounded(K, evidence, res.seen \ c.active)
    BY DEF StaysGrounded
  <2>1. here.cycles = {} /\ rest.cycles = {}
    BY <1>4
  <2>2. /\ {r} \cap c.active = {}
        /\ (c.active \subseteq c.seen /\ Grounded(K, evidence, c.seen \ c.active))
             => Grounded(K, evidence, here.seen \ c.active)
    BY <1>1, <1>5, <2>1 DEF StaysGrounded
  <2>3. /\ Elements(o.refs) \cap c.active = {}
        /\ (c.active \subseteq here.seen /\ Grounded(K, evidence, here.seen \ c.active))
             => Grounded(K, evidence, rest.seen \ c.active)
    BY <1>2, <1>6, <2>1 DEF StaysGrounded
  <2>4. c.seen \subseteq here.seen
    BY <1>1, <1>5 DEF Typical
  <2> QED
    BY <1>3, <1>4, <2>2, <2>3, <2>4
<1> QED
  BY <1>7, <1>8, <1>9, <1>10, <1>11 DEF Right, res

\* Every call returns the right result.
LEMMA SearchIsRight ==
  ASSUME NEW K, IsFiniteSet(K), NEW evidence \in [K -> Seq(K)],
         NEW visit, visit = [c \in Calls(K) |-> Visit(evidence, visit, c)],
         NEW c \in Calls(K)
  PROVE  Right(K, evidence, c, visit[c])
<1> DEFINE U == {x \in Calls(K) : Right(K, evidence, x, visit[x])}
<1>1. ASSUME NEW x \in Calls(K), \A y \in Calls(K) : <<y, x>> \in Lower(K) => y \in U
      PROVE  x \in U
  <2>1. visit[x] = Visit(evidence, visit, x)
    OBVIOUS
  <2>2. CASE x.refs = <<>>
    BY <2>1, <2>2, RightAtEnd, VisitUnfolds
  <2>3. CASE x.refs # <<>>
    <3> DEFINE here == Here(evidence, visit, x)
    <3>1. Right(K, evidence, First(x), here)
      <4>1. CASE Head(x.refs) \in x.active
        BY <2>3, <4>1, RightOnPath DEF Here
      <4>2. CASE Head(x.refs) \notin x.active /\ Head(x.refs) \in x.seen
        BY <2>3, <4>2, RightWhenSeen DEF Here
      <4>3. CASE Head(x.refs) \notin x.active /\ Head(x.refs) \notin x.seen
        <5>1. Deeper(evidence, x) \in U
          BY <1>1, <2>3, <4>3, DeeperIsLower
        <5>2. here = visit[Deeper(evidence, x)]
          BY <4>3 DEF Here
        <5> HIDE DEF here
        <5>3. Right(K, evidence, Deeper(evidence, x), here)
          BY <5>1, <5>2
        <5> QED
          BY <2>3, <4>3, <5>3, RightDeeper
      <4> QED
        BY <4>1, <4>2, <4>3
    <3> HIDE DEF here
    <3>2. here.seen \in SUBSET K
      BY <3>1 DEF Right, Typical, Results
    <3>3. Onward(x, here.seen) \in U
      BY <1>1, <2>3, <3>2, OnwardIsLower
    <3>4. Right(K, evidence, Onward(x, here.seen), visit[Onward(x, here.seen)])
      BY <3>3
    <3>5. Right(K, evidence, x, Both(here, visit[Onward(x, here.seen)]))
      BY <2>3, <3>1, <3>4, RightThenRight
    <3>6. visit[x] = Both(here, visit[Onward(x, here.seen)])
      BY <2>1, <2>3, VisitUnfolds DEF here
    <3> QED
      BY <3>5, <3>6
  <2> QED
    BY <2>2, <2>3
<1>2. Calls(K) \subseteq U
  <2> HIDE DEF U
  <2>1. IsWellFoundedOn(Lower(K), Calls(K))
    BY LowerIsWellFounded
  <2> QED
    BY <1>1, <2>1, InductionOnSet
<1> QED
  BY <1>2

(***************************************************************************)
(* Both other walks along the evidence, by a fixed number of steps and by  *)
(* a work list, come to the least closed set above what they start from.   *)
(***************************************************************************)

Least(K, evidence, roots, W) ==
  /\ W \in SUBSET K /\ roots \subseteq W /\ ClosedIn(evidence, W)
  /\ \A V \in ClosedSets(K, evidence) : roots \subseteq V => W \subseteq V

Grow(evidence, W) == W \cup UNION {Elements(evidence[r]) : r \in W}

LEMMA LeastIsUnique ==
  ASSUME NEW K, NEW evidence, NEW roots, NEW V, NEW W,
         Least(K, evidence, roots, V), Least(K, evidence, roots, W)
  PROVE  V = W
BY DEF Least, ClosedSets

LEMMA GrowFacts ==
  ASSUME NEW K, NEW evidence \in [K -> Seq(K)], NEW W \in SUBSET K
  PROVE  /\ Grow(evidence, W) \in SUBSET K /\ W \subseteq Grow(evidence, W)
         /\ ClosedIn(evidence, W) <=> Grow(evidence, W) = W
         /\ \A V \in ClosedSets(K, evidence) : W \subseteq V => Grow(evidence, W) \subseteq V
<1>1. \A r \in K : Elements(evidence[r]) \in SUBSET K
  BY ElementsInside
<1>2. Grow(evidence, W) \in SUBSET K /\ W \subseteq Grow(evidence, W)
  BY <1>1 DEF Grow
<1>3. ClosedIn(evidence, W) <=> Grow(evidence, W) = W
  BY DEF Grow, ClosedIn
<1>4. \A V \in ClosedSets(K, evidence) : W \subseteq V => Grow(evidence, W) \subseteq V
  BY DEF Grow, ClosedIn, ClosedSets
<1> QED
  BY <1>2, <1>3, <1>4

StepsOf(evidence, roots, N, steps) ==
  [n \in 0 .. N |-> IF n = 0 THEN roots
                    ELSE steps[n - 1] \cup UNION {Elements(evidence[r]) : r \in steps[n - 1]}]

\* Support's recursion has a solution.
LEMMA StepsAreDefined ==
  ASSUME NEW K, NEW evidence \in [K -> Seq(K)], NEW roots \in SUBSET K, NEW N \in Nat
  PROVE  \E steps : steps = StepsOf(evidence, roots, N, steps)
<1> DEFINE S == 0 .. N
           T == SUBSET K
           B == [p \in [S -> T] \X S |-> IF p[2] = 0 THEN roots ELSE Grow(evidence, p[1][p[2] - 1])]
<1>1. \A f \in [S -> T], n \in S : B[<<f, n>>] = IF n = 0 THEN roots ELSE Grow(evidence, f[n - 1])
  OBVIOUS
<1>2. \A n \in S : n # 0 => n - 1 \in S /\ <<n - 1, n>> \in Smaller
  BY DEF Smaller
<1>3. \A f \in [S -> T] : \A n \in S : B[<<f, n>>] \in T
  <2> SUFFICES ASSUME NEW f \in [S -> T], NEW n \in S PROVE B[<<f, n>>] \in T
    OBVIOUS
  <2> HIDE DEF B
  <2>1. CASE n = 0
    BY <1>1, <2>1
  <2>2. CASE n # 0
    <3>1. f[n - 1] \in SUBSET K
      BY <1>2, <2>2
    <3>2. Grow(evidence, f[n - 1]) \in T
      BY <3>1, GrowFacts
    <3> QED
      BY <1>1, <2>2, <3>2
  <2> QED
    BY <2>1, <2>2
<1>4. Local(Smaller, S, T, B)
  <2> HIDE DEF B, T, S
  <2> SUFFICES ASSUME NEW f \in [S -> T], NEW g \in [S -> T], NEW n \in S,
                      \A y \in S : <<y, n>> \in Smaller => f[y] = g[y]
               PROVE  B[<<f, n>>] = B[<<g, n>>]
    BY Zenon DEF Local
  <2>1. n # 0 => f[n - 1] = g[n - 1]
    BY <1>2
  <2> QED
    BY <1>1, <2>1
<1>5. IsWellFoundedOn(Smaller, S) /\ Chain(Smaller, S)
  <2>1. S \subseteq Nat
    OBVIOUS
  <2>2. IsWellFoundedOn(Smaller, S)
    <3> HIDE DEF S
    <3> QED
      BY <2>1, SmallerIsWellFounded, IsWellFoundedOnSubset
  <2> QED
    BY <2>2 DEF Chain, Smaller
<1> HIDE DEF B
<1>6. Recursion(S, Smaller, T, B)
  BY <1>3, <1>4, <1>5 DEF Recursion
<1>7. PICK f \in [S -> T] : \A n \in S : f[n] = B[<<f, n>>]
  BY <1>6, RecursionExists
<1>8. f = StepsOf(evidence, roots, N, f)
  <2>1. \A n \in S : f[n] = IF n = 0 THEN roots ELSE Grow(evidence, f[n - 1])
    BY <1>1, <1>7
  <2> HIDE DEF T
  <2> QED
    BY <1>7, <2>1 DEF Grow, StepsOf
<1> QED
  BY <1>8

\* As many steps as there are receipts are enough.
LEMMA StepsAreEnough ==
  ASSUME NEW K, IsFiniteSet(K), NEW evidence \in [K -> Seq(K)], NEW roots \in SUBSET K,
         NEW steps, steps = StepsOf(evidence, roots, Cardinality(K), steps)
  PROVE  Least(K, evidence, roots, steps[Cardinality(K)])
<1> DEFINE N == Cardinality(K)
           Fits(n) == /\ steps[n] \in SUBSET K /\ roots \subseteq steps[n]
                      /\ \A V \in ClosedSets(K, evidence) : roots \subseteq V => steps[n] \subseteq V
                      /\ ClosedIn(evidence, steps[n]) \/ Cardinality(steps[n]) >= n
           U == {n \in Nat : n <= N => Fits(n)}
<1>1. N \in Nat
  BY FS_CardinalityType
<1>2. steps[0] = roots
  BY <1>1 DEF StepsOf
<1>3. ASSUME NEW n \in Nat, n + 1 <= N PROVE steps[n + 1] = Grow(evidence, steps[n])
  BY <1>1, <1>3 DEF Grow, StepsOf
<1>4. \A W \in SUBSET K : IsFiniteSet(W) /\ Cardinality(W) \in Nat /\ Cardinality(W) <= N
  BY FS_Subset, FS_CardinalityType
<1>5. 0 \in U
  BY <1>2, <1>4
<1>6. ASSUME NEW n \in Nat, n \in U PROVE n + 1 \in U
  <2> SUFFICES ASSUME n + 1 <= N PROVE Fits(n + 1)
    <3> HIDE DEF Fits, N
    <3> QED
      BY DEF U
  <2>0. n <= N /\ Fits(n)
    <3>1. n <= N
      BY <1>1
    <3> HIDE DEF Fits, N
    <3> QED
      BY <3>1, <1>6 DEF U
  <2> DEFINE W == steps[n]
             X == steps[n + 1]
  <2>1. n <= N /\ Fits(n) /\ X = Grow(evidence, W)
    BY <1>3, <2>0
  <2>1a. W \in SUBSET K /\ X = Grow(evidence, W)
    BY <2>1
  <2> HIDE DEF W, X
  <2>2. /\ W \in SUBSET K /\ X \in SUBSET K /\ W \subseteq X
        /\ ClosedIn(evidence, W) <=> X = W
        /\ \A V \in ClosedSets(K, evidence) : W \subseteq V => X \subseteq V
    BY <2>1a, GrowFacts
  <2>3. ClosedIn(evidence, X) \/ Cardinality(X) >= n + 1
    <3>1. CASE ClosedIn(evidence, W)
      BY <2>2, <3>1
    <3>2. CASE ~ClosedIn(evidence, W)
      <4>1. Cardinality(W) >= n
        BY <2>1, <3>2 DEF W
      <4>2. W # X /\ IsFiniteSet(X) /\ Cardinality(W) \in Nat /\ Cardinality(X) \in Nat
        BY <1>4, <2>2, <3>2
      <4>3. Cardinality(W) < Cardinality(X)
        BY <2>2, <4>2, FS_Subset
      <4> QED
        BY <4>1, <4>2, <4>3
    <3> QED
      BY <3>1, <3>2
  <2>4. roots \subseteq X /\ \A V \in ClosedSets(K, evidence) : roots \subseteq V => X \subseteq V
    BY <2>1, <2>2 DEF W
  <2> QED
    BY <2>2, <2>3, <2>4 DEF X
<1>7. Fits(N)
  <2> HIDE DEF U
  <2>1. Nat \subseteq U
    BY <1>5, <1>6, InductionOnNat
  <2>2. N <= N
    BY <1>1
  <2> HIDE DEF Fits, N
  <2> QED
    BY <1>1, <2>1, <2>2 DEF U
<1>8. ClosedIn(evidence, steps[N])
  <2> DEFINE W == steps[N]
  <2>1. W \in SUBSET K /\ (ClosedIn(evidence, W) \/ Cardinality(W) >= N)
    BY <1>7
  <2> HIDE DEF W
  <2>2. CASE Cardinality(W) >= N
    <3>1. Cardinality(W) = N
      BY <1>1, <1>4, <2>1, <2>2
    <3>2. W = K
      BY <2>1, <3>1, FS_Subset
    <3>3. \A r \in K : Elements(evidence[r]) \in SUBSET K
      BY ElementsInside
    <3> QED
      BY <3>2, <3>3 DEF ClosedIn, W
  <2> QED
    BY <2>1, <2>2 DEF W
<1> QED
  BY <1>7, <1>8 DEF Least

\* What a document of a valid contract, or any finite one, looks like here.
Traceable(d) ==
  /\ IsFiniteSet(DOMAIN d.receipts)
  /\ IssuerEvidence(d) \in [DOMAIN d.receipts -> Seq(DOMAIN d.receipts)]

LEMMA SupportIsLeast ==
  ASSUME NEW d, Traceable(d), NEW roots \in SUBSET DOMAIN d.receipts
  PROVE  Least(DOMAIN d.receipts, IssuerEvidence(d), roots, Support(d, roots))
<1> DEFINE K == DOMAIN d.receipts
           evidence == IssuerEvidence(d)
           N == Cardinality(K)
           steps == CHOOSE steps : steps = StepsOf(evidence, roots, N, steps)
<1>1. evidence \in [K -> Seq(K)] /\ IsFiniteSet(K) /\ N \in Nat /\ roots \in SUBSET K
  BY FS_CardinalityType DEF Traceable
<1>2. Support(d, roots) = steps[N]
  BY Zenon DEF Support, StepsOf
<1>3. \E f : f = StepsOf(evidence, roots, N, f)
  <2> HIDE DEF K, evidence, N
  <2> QED
    BY <1>1, StepsAreDefined
<1>4. steps = StepsOf(evidence, roots, N, steps)
  BY <1>3, Zenon
<1> HIDE DEF K, evidence, steps
<1>5. Least(K, evidence, roots, steps[N])
  BY <1>1, <1>4, StepsAreEnough
<1> QED
  BY <1>2, <1>5 DEF K, evidence

\* The work list: what is found, until nothing is added.
GrownOf(evidence, grown) ==
  [found \in SUBSET DOMAIN evidence |->
     LET more == found \cup UNION {Elements(evidence[r]) : r \in found}
     IN  IF more = found THEN found ELSE grown[more]]

Unfound(K) == [W \in SUBSET K |-> Cardinality(K \ W)]
Fewer(K) == Lexically(SUBSET K, Unfound(K), Unfound(K))

LEMMA FewerIsWellFounded ==
  ASSUME NEW K, IsFiniteSet(K)
  PROVE  /\ IsWellFoundedOn(Fewer(K), SUBSET K) /\ Chain(Fewer(K), SUBSET K)
         /\ \A V, W \in SUBSET K : V \subseteq W /\ V # W => <<W, V>> \in Fewer(K)
<1>1. \A W \in SUBSET K : IsFiniteSet(K \ W) /\ Cardinality(K \ W) \in Nat
  <2> SUFFICES ASSUME NEW W \in SUBSET K PROVE IsFiniteSet(K \ W) /\ Cardinality(K \ W) \in Nat
    OBVIOUS
  <2>1. K \ W \in SUBSET K
    OBVIOUS
  <2> QED
    BY <2>1, FS_Subset, FS_CardinalityType
<1>2. Unfound(K) \in [SUBSET K -> Nat]
  BY <1>1 DEF Unfound
<1>3. Chain(Fewer(K), SUBSET K)
  <2> SUFFICES ASSUME NEW x \in SUBSET K, NEW y \in SUBSET K, NEW z \in SUBSET K,
                      <<x, y>> \in Fewer(K), <<y, z>> \in Fewer(K)
               PROVE  <<x, z>> \in Fewer(K)
    BY DEF Chain
  <2>1. Unfound(K)[x] \in Nat /\ Unfound(K)[y] \in Nat /\ Unfound(K)[z] \in Nat
    BY <1>2
  <2>2. /\ x \in SUBSET K /\ y \in SUBSET K /\ z \in SUBSET K
        /\ Unfound(K)[x] < Unfound(K)[y] /\ Unfound(K)[y] < Unfound(K)[z]
    BY DEF Fewer, Lexically
  <2>3. Unfound(K)[x] < Unfound(K)[z]
    BY <2>1, <2>2
  <2> QED
    BY <2>2, <2>3 DEF Fewer, Lexically
<1>4. ASSUME NEW V \in SUBSET K, NEW W \in SUBSET K, V \subseteq W, V # W
      PROVE  <<W, V>> \in Fewer(K)
  <2> DEFINE X == K \ W
             Y == K \ V
  <2>1. X \subseteq Y /\ X # Y /\ IsFiniteSet(Y) /\ Cardinality(X) \in Nat /\ Cardinality(Y) \in Nat
    BY <1>1, <1>4
  <2> HIDE DEF X, Y
  <2>2. Cardinality(X) < Cardinality(Y)
    BY <2>1, FS_Subset
  <2>3. Unfound(K)[W] = Cardinality(X) /\ Unfound(K)[V] = Cardinality(Y)
    BY DEF Unfound, X, Y
  <2> QED
    BY <2>2, <2>3 DEF Fewer, Lexically
<1> QED
  BY <1>2, <1>3, <1>4, MeasuresAreWellFounded DEF Fewer

LEMMA GrownIsDefined ==
  ASSUME NEW K, IsFiniteSet(K), NEW evidence \in [K -> Seq(K)]
  PROVE  \E grown : grown = GrownOf(evidence, grown)
<1> DEFINE S == SUBSET K
           B == [p \in [S -> S] \X S |-> IF Grow(evidence, p[2]) = p[2] THEN p[2]
                                         ELSE p[1][Grow(evidence, p[2])]]
<1>1. \A f \in [S -> S], W \in S :
        B[<<f, W>>] = IF Grow(evidence, W) = W THEN W ELSE f[Grow(evidence, W)]
  OBVIOUS
<1>2. \A W \in S : Grow(evidence, W) \in S /\ W \subseteq Grow(evidence, W)
  BY GrowFacts
<1>3. \A W \in S : Grow(evidence, W) # W => <<Grow(evidence, W), W>> \in Fewer(K)
  BY <1>2, FewerIsWellFounded
<1>4. IsWellFoundedOn(Fewer(K), S) /\ Chain(Fewer(K), S) /\ S # {}
  BY FewerIsWellFounded
<1> HIDE DEF B, S
<1>5. \A f \in [S -> S] : \A W \in S : B[<<f, W>>] \in S
  BY <1>1, <1>2
<1>6. Local(Fewer(K), S, S, B)
  <2> SUFFICES ASSUME NEW f \in [S -> S], NEW g \in [S -> S], NEW W \in S,
                      \A y \in S : <<y, W>> \in Fewer(K) => f[y] = g[y]
               PROVE  B[<<f, W>>] = B[<<g, W>>]
    BY Zenon DEF Local
  <2>1. Grow(evidence, W) # W => f[Grow(evidence, W)] = g[Grow(evidence, W)]
    BY <1>2, <1>3
  <2> QED
    BY <1>1, <2>1
<1>7. Recursion(S, Fewer(K), S, B)
  BY <1>4, <1>5, <1>6 DEF Recursion
<1>8. PICK f \in [S -> S] : \A W \in S : f[W] = B[<<f, W>>]
  BY <1>7, RecursionExists
<1>9. f = GrownOf(evidence, f)
  <2>1. \A W \in S : f[W] = IF Grow(evidence, W) = W THEN W ELSE f[Grow(evidence, W)]
    BY <1>1, <1>8
  <2>2. S = SUBSET DOMAIN evidence
    BY DEF S
  <2> QED
    BY <1>8, <2>1, <2>2 DEF Grow, GrownOf
<1> QED
  BY <1>9

LEMMA GrownIsLeast ==
  ASSUME NEW K, IsFiniteSet(K), NEW evidence \in [K -> Seq(K)], NEW named \in SUBSET K
  PROVE  Least(K, evidence, named, Grown(evidence, named))
<1> DEFINE grown == CHOOSE grown : grown = GrownOf(evidence, grown)
           U == {W \in SUBSET K : Least(K, evidence, W, grown[W])}
<1>1. Grown(evidence, named) = grown[named]
  BY Zenon DEF Grown, GrownOf
<1>2. \E g : g = GrownOf(evidence, g)
  BY GrownIsDefined
<1>3. grown = GrownOf(evidence, grown)
  BY <1>2, Zenon
<1> HIDE DEF grown
<1>4. \A W \in SUBSET K :
        grown[W] = IF Grow(evidence, W) = W THEN W ELSE grown[Grow(evidence, W)]
  <2>1. SUBSET DOMAIN evidence = SUBSET K
    OBVIOUS
  <2> QED
    BY <1>3, <2>1 DEF GrownOf, Grow
<1>5. ASSUME NEW W \in SUBSET K, \A V \in SUBSET K : <<V, W>> \in Fewer(K) => V \in U
      PROVE  W \in U
  <2> DEFINE X == Grow(evidence, W)
  <2>1. /\ X \in SUBSET K /\ W \subseteq X
        /\ ClosedIn(evidence, W) <=> X = W
        /\ \A V \in ClosedSets(K, evidence) : W \subseteq V => X \subseteq V
    BY GrowFacts
  <2> HIDE DEF X
  <2>2. CASE X = W
    <3>1. grown[W] = W
      BY <1>4, <2>2 DEF X
    <3> QED
      BY <2>1, <2>2, <3>1 DEF Least
  <2>3. CASE X # W
    <3>1. grown[W] = grown[X]
      BY <1>4, <2>3 DEF X
    <3>2. <<X, W>> \in Fewer(K)
      BY <2>1, <2>3, FewerIsWellFounded
    <3>3. Least(K, evidence, X, grown[X])
      BY <1>5, <2>1, <3>2
    <3> QED
      BY <2>1, <3>1, <3>3 DEF Least
  <2> QED
    BY <2>2, <2>3
<1>6. SUBSET K \subseteq U
  <2> HIDE DEF U
  <2>1. IsWellFoundedOn(Fewer(K), SUBSET K)
    BY FewerIsWellFounded
  <2> QED
    BY <1>5, <2>1, InductionOnSet
<1> QED
  BY <1>1, <1>6

\* The work list of prerequisite_receipts and the steps of Support end with
\* the same receipts.
LEMMA PrerequisitesAreSupport ==
  ASSUME NEW d, Traceable(d), NEW o, NamedReceipts(d, o) \in SUBSET DOMAIN d.receipts
  PROVE  PrerequisiteReceipts(d, o) = Support(d, NamedReceipts(d, o))
<1>1. Least(DOMAIN d.receipts, IssuerEvidence(d), NamedReceipts(d, o), PrerequisiteReceipts(d, o))
  BY GrownIsLeast DEF PrerequisiteReceipts, Traceable
<1>2. Least(DOMAIN d.receipts, IssuerEvidence(d), NamedReceipts(d, o), Support(d, NamedReceipts(d, o)))
  BY SupportIsLeast
<1> QED
  BY <1>1, <1>2, LeastIsUnique

(***************************************************************************)
(* The search of receipt_diagnostics against the steps of Support.         *)
(***************************************************************************)

LEMMA RestsIsCircular ==
  ASSUME NEW d, Traceable(d), NEW r \in DOMAIN d.receipts
  PROVE  RestsOnItself(d, r) <=> Circular(DOMAIN d.receipts, IssuerEvidence(d), r)
<1> DEFINE K == DOMAIN d.receipts
           evidence == IssuerEvidence(d)
           roots == Elements(evidence[r])
           W == Support(d, roots)
<1>1. roots \in SUBSET K
  BY ElementsInside DEF Traceable
<1>2. Least(K, evidence, roots, W)
  BY <1>1, SupportIsLeast
<1>3. RestsOnItself(d, r) <=> r \in W
  BY DEF RestsOnItself
<1> HIDE DEF K, evidence, W
<1> QED
  BY <1>2, <1>3 DEF Least, Circular, ClosedSets, K, evidence

\* From a receipt the search meets what the receipt rests on, and reports
\* cycles exactly when one of those rests on itself.
LEMMA SearchMeetsSupport ==
  ASSUME NEW d, Traceable(d), NEW r \in DOMAIN d.receipts
  PROVE  LET found == EvidenceSearch(IssuerEvidence(d), r) IN
         /\ found.seen = Support(d, {r})
         /\ found.cycles \subseteq Support(d, {r})
         /\ found.cycles # {} <=> \E x \in Support(d, {r}) : RestsOnItself(d, x)
<1> DEFINE K == DOMAIN d.receipts
           evidence == IssuerEvidence(d)
           found == EvidenceSearch(evidence, r)
           W == Support(d, {r})
           c == [refs |-> <<r>>, active |-> {}, seen |-> {}]
           visit == CHOOSE visit : visit = [x \in Calls(K) |-> Visit(evidence, visit, x)]
<1>1. evidence \in [K -> Seq(K)] /\ IsFiniteSet(K) /\ DOMAIN evidence = K /\ r \in K
  BY DEF Traceable
<1>2. found = visit[c]
  <2>1. EvidenceSearch(evidence, r) =
          (CHOOSE f : f = [x \in Calls(DOMAIN evidence) |-> Visit(evidence, f, x)])[c]
    BY Zenon DEF EvidenceSearch
  <2> QED
    BY <1>1, <2>1, Zenon
<1>3. \E f : f = [x \in Calls(K) |-> Visit(evidence, f, x)]
  <2> HIDE DEF K, evidence
  <2> QED
    BY <1>1, SearchIsDefined
<1>4. visit = [x \in Calls(K) |-> Visit(evidence, visit, x)]
  BY <1>3, Zenon
<1>5. c \in Calls(K) /\ Elements(<<r>>) = {r} /\ c.refs = <<r>> /\ c.active = {} /\ c.seen = {}
  BY <1>1, ElementsOfOne DEF Calls
<1>6. Least(K, evidence, {r}, W)
  BY <1>1, SupportIsLeast
<1>7. \A x \in K : RestsOnItself(d, x) <=> Circular(K, evidence, x)
  BY RestsIsCircular, DOMAIN d.receipts = K
<1> HIDE DEF K, evidence, found, W, c, visit
<1>8. Right(K, evidence, c, found)
  BY <1>1, <1>2, <1>4, <1>5, SearchIsRight
<1>9. /\ found.seen \in SUBSET K /\ r \in found.seen
      /\ ClosedIn(evidence, found.seen)
  BY <1>5, <1>8 DEF Right, Typical, Results, MeetsAll, ClosedIn
<1>10. found.seen \subseteq W /\ found.cycles \subseteq W /\ W \subseteq K
  BY <1>5, <1>6, <1>8 DEF Right, MeetsOnly, Least, ClosedSets
<1>11. W \subseteq found.seen
  BY <1>6, <1>9 DEF Least, ClosedSets
<1>12. \A x \in found.cycles : Circular(K, evidence, x)
  BY <1>5, <1>8 DEF Right, ReportsCircles, OnPath
<1>13. found.cycles = {} => \A x \in W : ~Circular(K, evidence, x)
  <2> SUFFICES ASSUME found.cycles = {} PROVE \A x \in W : ~Circular(K, evidence, x)
    OBVIOUS
  <2>1. StaysGrounded(K, evidence, c, found)
    BY <1>8 DEF Right
  <2>2. Grounded(K, evidence, {})
    BY DEF Grounded, ClosedIn
  <2>3. Grounded(K, evidence, found.seen)
    BY <1>5, <2>1, <2>2 DEF StaysGrounded
  <2> QED
    BY <1>11, <2>3 DEF Grounded
<1>14. found.seen = W
  BY <1>10, <1>11
<1>15. found.cycles # {} <=> \E x \in W : RestsOnItself(d, x)
  BY <1>7, <1>10, <1>12, <1>13
<1> QED
  BY <1>10, <1>14, <1>15 DEF found, W, evidence

(***************************************************************************)
(* What the validator's checks give.                                       *)
(***************************************************************************)

LEMMA ValidIsTraceable ==
  ASSUME NEW d, ValidContract(d)
  PROVE  Traceable(d)
<1>1. ShapeOK(d) /\ ReferencesOK(d) /\ ReceiptsOK(d)
  BY DEF ValidContract
<1>2. IsFiniteSet(DOMAIN d.receipts)
  BY <1>1 DEF ShapeOK
<1>3. \A r \in DOMAIN d.receipts : d.receipts[r].issuerAuthorityRef \in DOMAIN d.authorities
  BY <1>1 DEF ReceiptsOK
<1>4. \A a \in DOMAIN d.authorities : d.authorities[a].evidenceRefs \in Seq(DOMAIN d.receipts)
  BY <1>1 DEF ReferencesOK
<1> QED
  BY <1>2, <1>3, <1>4 DEF Traceable, IssuerEvidence

LEMMA NamedAuthoritiesAreKnown ==
  ASSUME NEW d, ValidContract(d), NEW o \in DOMAIN d.operations
  PROVE  /\ NamedAuthorities(d, o) \subseteq DOMAIN d.authorities
         /\ \A q \in d.operations[o].credentialRequirements :
              q.requiredAuthorityRef \in d.operations[o].requiredAuthorityRefs
         /\ d.operations[o].invocationBinding # None =>
              d.operations[o].invocationBinding.authorityRef \in d.operations[o].requiredAuthorityRefs
<1>1. PrivacyOK(d) /\ OperationRefsOK(d)
  BY DEF ValidContract
<1>2. /\ d.operations[o].requiredAuthorityRefs \subseteq DOMAIN d.authorities
      /\ BindingOK(d, d.operations[o])
      /\ CredentialRequirementsOK(d, d.operations[o])
  BY <1>1 DEF OperationRefsOK
<1>3. \A q \in d.operations[o].credentialRequirements :
        q.requiredAuthorityRef \in d.operations[o].requiredAuthorityRefs
  BY <1>2 DEF CredentialRequirementsOK
<1>4. d.operations[o].invocationBinding # None =>
        d.operations[o].invocationBinding.authorityRef \in d.operations[o].requiredAuthorityRefs
  BY <1>2 DEF BindingOK
<1>5. \A p \in DOMAIN d.privacyEgress :
        d.privacyEgress[p].requiredAuthorityRefs \subseteq DOMAIN d.authorities
  BY <1>1 DEF PrivacyOK
<1> QED
  BY <1>2, <1>3, <1>4, <1>5 DEF NamedAuthorities, Applicable

\* The receipts an operation's exclusions name as current.
ExclusionReceipts(d, o) ==
  UNION {{x.attemptBinding.receiptRef} \cup {x.phases[p].receiptRef : p \in CurrentPhases} :
           x \in {Boundary(d, o).sharedExclusions[e] : e \in DOMAIN Boundary(d, o).sharedExclusions}}

LEMMA ExclusionReceiptsAreKnown ==
  ASSUME NEW d, ValidContract(d), NEW o \in Bounded(d)
  PROVE  ExclusionReceipts(d, o) \subseteq DOMAIN d.receipts
<1>1. EvidenceOK(d)
  BY DEF ValidContract
<1>2. ASSUME NEW e \in DOMAIN Boundary(d, o).sharedExclusions
      PROVE  LET x == Boundary(d, o).sharedExclusions[e] IN
             /\ x.attemptBinding.receiptRef \in DOMAIN d.receipts
             /\ \A p \in CurrentPhases : x.phases[p].receiptRef \in DOMAIN d.receipts
  <2> DEFINE x == Boundary(d, o).sharedExclusions[e]
  <2>1. AttemptEvidenceOK(d, x) /\ \A p \in Elements(Phases) : PhaseEvidenceOK(d, e, x, p)
    BY <1>1 DEF EvidenceOK
  <2>2. CurrentPhases \subseteq Elements(Phases)
    BY DEF CurrentPhases, Elements, Phases
  <2> HIDE DEF x
  <2>3. x.attemptBinding.receiptRef \in DOMAIN d.receipts
    BY <2>1 DEF AttemptEvidenceOK, AnchorEvidenceOK
  <2>4. \A p \in CurrentPhases : x.phases[p].receiptRef \in DOMAIN d.receipts
    BY <2>1, <2>2 DEF PhaseEvidenceOK
  <2> QED
    BY <2>3, <2>4 DEF x
<1> QED
  BY <1>2 DEF ExclusionReceipts

\* The parts of what an operation names.
CredentialReceipts(d, o) ==
  UNION {d.credentials[q.credentialRef].evidenceRefs : q \in d.operations[o].credentialRequirements}
AuthorityReceipts(d, o) ==
  UNION {Elements(d.authorities[a].evidenceRefs) : a \in NamedAuthorities(d, o)}
CleanupReceipts(d, o) ==
  UNION {d.cleanupRules[c].custodyPrerequisiteReceiptRefs :
           c \in {x \in DOMAIN d.cleanupRules : o \in d.cleanupRules[x].operationRefs}}
GateReceipts(d, o) == UNION {d.gates[g].requiredReceiptRefs : g \in GatesOf(d, o)}

LEMMA NamedByParts ==
  ASSUME NEW d, NEW o
  PROVE  NamedReceipts(d, o) =
           d.operations[o].requiredReceiptRefs
           \cup (IF d.operations[o].executionClass # "runtime" THEN {} ELSE GateReceipts(d, o))
           \cup CredentialReceipts(d, o) \cup AuthorityReceipts(d, o)
           \cup (IF d.operations[o].kind # "cleanup" THEN {} ELSE CleanupReceipts(d, o))
           \cup (IF o \notin Bounded(d) THEN {} ELSE ExclusionReceipts(d, o))
BY Zenon DEF NamedReceipts, CredentialReceipts, AuthorityReceipts, CleanupReceipts, GateReceipts,
   ExclusionReceipts

LEMMA PartsAreKnown ==
  ASSUME NEW d, ValidContract(d), NEW o \in DOMAIN d.operations
  PROVE  /\ d.operations[o].requiredReceiptRefs \subseteq DOMAIN d.receipts
         /\ GateReceipts(d, o) \subseteq DOMAIN d.receipts
         /\ CredentialReceipts(d, o) \subseteq DOMAIN d.receipts
         /\ AuthorityReceipts(d, o) \subseteq DOMAIN d.receipts
         /\ CleanupReceipts(d, o) \subseteq DOMAIN d.receipts
<1>1. ReferencesOK(d) /\ CleanupOK(d) /\ OperationRefsOK(d)
  BY DEF ValidContract
<1>2. /\ d.operations[o].requiredReceiptRefs \cup d.operations[o].producedReceiptRefs
           \subseteq DOMAIN d.receipts
      /\ CredentialRequirementsOK(d, d.operations[o])
  BY <1>1 DEF OperationRefsOK
<1>3. GateReceipts(d, o) \subseteq DOMAIN d.receipts
  BY <1>1 DEF ReferencesOK, GateReceipts, GatesOf
<1>4. CredentialReceipts(d, o) \subseteq DOMAIN d.receipts
  BY <1>1, <1>2 DEF ReferencesOK, CredentialReceipts, CredentialRequirementsOK
<1>5. AuthorityReceipts(d, o) \subseteq DOMAIN d.receipts
  <2>1. \A a \in DOMAIN d.authorities : d.authorities[a].evidenceRefs \in Seq(DOMAIN d.receipts)
    BY <1>1 DEF ReferencesOK
  <2>2. \A a \in DOMAIN d.authorities :
          Elements(d.authorities[a].evidenceRefs) \in SUBSET DOMAIN d.receipts
    BY <2>1, ElementsInside
  <2>3. NamedAuthorities(d, o) \subseteq DOMAIN d.authorities
    BY NamedAuthoritiesAreKnown
  <2> QED
    BY <2>2, <2>3 DEF AuthorityReceipts
<1>6. CleanupReceipts(d, o) \subseteq DOMAIN d.receipts
  BY <1>1 DEF CleanupOK, CleanupReceipts
<1> QED
  BY <1>2, <1>3, <1>4, <1>5, <1>6

LEMMA NamedAreKnown ==
  ASSUME NEW d, ValidContract(d), NEW o \in DOMAIN d.operations
  PROVE  /\ NamedReceipts(d, o) \in SUBSET DOMAIN d.receipts
         /\ NamedReceipts(d, o) \cup GateReceipts(d, o) \in SUBSET DOMAIN d.receipts
BY NamedByParts, PartsAreKnown, ExclusionReceiptsAreKnown

LEMMA NamedArePrerequisites ==
  ASSUME NEW d, ValidContract(d), NEW o \in DOMAIN d.operations
  PROVE  /\ NamedReceipts(d, o) \subseteq PrerequisiteReceipts(d, o)
         /\ PrerequisiteReceipts(d, o) \subseteq DOMAIN d.receipts
<1>1. Traceable(d)
  BY ValidIsTraceable
<1>2. Least(DOMAIN d.receipts, IssuerEvidence(d), NamedReceipts(d, o), PrerequisiteReceipts(d, o))
  BY <1>1, NamedAreKnown, GrownIsLeast DEF PrerequisiteReceipts, Traceable
<1> QED
  BY <1>2 DEF Least

\* A root is awaited with all it rests on.
LEMMA AwaitedHoldsSupport ==
  ASSUME NEW d, ValidContract(d), NEW o \in DOMAIN d.operations
  PROVE  /\ NamedReceipts(d, o) \cup GateReceipts(d, o) \subseteq Awaited(d, o)
         /\ \A r \in NamedReceipts(d, o) \cup GateReceipts(d, o) : Support(d, {r}) \subseteq Awaited(d, o)
         /\ \A r \in Awaited(d, o) :
              \E root \in NamedReceipts(d, o) \cup GateReceipts(d, o) : r \in Support(d, {root})
<1> DEFINE K == DOMAIN d.receipts
           evidence == IssuerEvidence(d)
           roots == NamedReceipts(d, o) \cup GateReceipts(d, o)
           W == Awaited(d, o)
           V == UNION {Support(d, {r}) : r \in roots}
<1>1. Traceable(d) /\ roots \in SUBSET K
  BY ValidIsTraceable, NamedAreKnown
<1>2. W = Support(d, roots)
  BY DEF Awaited, GateReceipts
<1>3. Least(K, evidence, roots, W)
  <2> HIDE DEF roots
  <2> QED
    BY <1>1, <1>2, SupportIsLeast
<1>4. \A r \in roots : Least(K, evidence, {r}, Support(d, {r}))
  BY <1>1, SupportIsLeast
<1> HIDE DEF K, evidence, roots, W
<1>5. \A r \in roots : Support(d, {r}) \subseteq W
  BY ZenonT(60), <1>3, <1>4 DEF Least, ClosedSets
<1>6. V \in ClosedSets(K, evidence) /\ roots \subseteq V
  <2>1. \A r \in roots : /\ Support(d, {r}) \in SUBSET K /\ r \in Support(d, {r})
                         /\ ClosedIn(evidence, Support(d, {r}))
    BY <1>4 DEF Least
  <2>2. ASSUME NEW x \in V PROVE Elements(evidence[x]) \subseteq V
    <3>1. PICK r \in roots : x \in Support(d, {r})
      OBVIOUS
    <3>2. Elements(evidence[x]) \subseteq Support(d, {r})
      BY <2>1, <3>1 DEF ClosedIn
    <3> QED
      BY <3>1, <3>2
  <2>3. V \in SUBSET K /\ roots \subseteq V
    BY <2>1
  <2> HIDE DEF V
  <2> QED
    BY <2>2, <2>3 DEF ClosedSets, ClosedIn
<1>7. W \subseteq V
  BY <1>3, <1>6 DEF Least
<1> QED
  BY <1>3, <1>5, <1>7 DEF Least, roots, W

(***************************************************************************)
(* The report and what it vouches for.                                     *)
(***************************************************************************)

\* The report shown is the report on the document and the time shown.
ReportIsCurrent == report = Report(doc, now)

ReportTyped == edits \in 0 .. MaxEdits /\ now \in 0 .. MaxNow

LEMMA ReportStays ==
  ASSUME ReportIsCurrent, [Next]_vars
  PROVE  ReportIsCurrent'
<1>1. CASE Next
  <2>1. CASE \E e \in FieldEdits : EditField(e)
    BY <2>1 DEF EditField, ReportIsCurrent
  <2>2. CASE \E e \in PartEdits : EditPart(e)
    BY <2>2 DEF EditPart, ReportIsCurrent
  <2>3. CASE Reassess
    BY <2>3 DEF Reassess, ReportIsCurrent
  <2> QED
    BY <1>1, <2>1, <2>2, <2>3 DEF Next
<1>2. CASE UNCHANGED vars
  BY <1>2 DEF vars, ReportIsCurrent
<1> QED
  BY <1>1, <1>2

LEMMA CountersStay ==
  ASSUME ReportTyped, [Next]_vars
  PROVE  ReportTyped'
<1> USE BoundsAssumption DEF ReportTyped
<1>1. CASE Next
  <2>1. CASE \E e \in FieldEdits : EditField(e)
    BY <2>1 DEF EditField
  <2>2. CASE \E e \in PartEdits : EditPart(e)
    BY <2>2 DEF EditPart
  <2>3. CASE Reassess
    BY <2>3 DEF Reassess
  <2> QED
    BY <1>1, <2>1, <2>2, <2>3 DEF Next
<1>2. CASE UNCHANGED vars
  BY <1>2 DEF vars
<1> QED
  BY <1>1, <1>2

\* Nothing ever shows an outdated report.
THEOREM Current == Spec => []ReportIsCurrent
<1>1. Init => ReportIsCurrent
  BY DEF Init, ReportIsCurrent
<1> QED
  BY <1>1, ReportStays, PTL DEF Spec

LEMMA Counted == Spec => []ReportTyped
<1>1. Init => ReportTyped
  BY BoundsAssumption DEF Init, ReportTyped
<1> QED
  BY <1>1, CountersStay, PTL DEF Spec

\* What a report that is no refusal says.
LEMMA ReportOf ==
  ASSUME NEW d, NEW t
  PROVE  /\ Report(d, t).valid \in BOOLEAN
         /\ Report(d, t).valid <=> ValidContract(d)
         /\ ValidContract(d) =>
              /\ Report(d, t).blockers = [o \in DOMAIN d.operations |-> Blockers(d, o, t)]
              /\ Report(d, t).disposition =
                   [o \in DOMAIN d.operations |-> Disposition(d.operations[o], Blockers(d, o, t))]
              /\ Report(d, t).integration = IntegrationBlockers(d, t)
<1>1. CASE ~ValidContract(d)
  <2>1. Report(d, t) = [valid |-> FALSE]
    BY <1>1, Zenon DEF Report, Refused
  <2> QED
    BY <1>1, <2>1
<1>2. CASE ValidContract(d)
  <2> DEFINE blockers == [o \in DOMAIN d.operations |-> Blockers(d, o, t)]
             disposition == [o \in DOMAIN d.operations |-> Disposition(d.operations[o], Blockers(d, o, t))]
  <2>1. [o \in DOMAIN blockers |-> Disposition(d.operations[o], blockers[o])] = disposition
    OBVIOUS
  <2>2. Report(d, t) = [valid |-> TRUE, blockers |-> blockers,
                        disposition |-> [o \in DOMAIN blockers |-> Disposition(d.operations[o], blockers[o])],
                        integration |-> IntegrationBlockers(d, t)]
    BY <1>2, Zenon DEF Report
  <2> HIDE DEF blockers, disposition
  <2>3. /\ Report(d, t).valid = TRUE /\ Report(d, t).blockers = blockers
        /\ Report(d, t).disposition = disposition /\ Report(d, t).integration = IntegrationBlockers(d, t)
    BY <2>1, <2>2
  <2> QED
    BY <1>2, <2>3 DEF blockers, disposition
<1> QED
  BY <1>1, <1>2

\* The report's form, and the bounds on edits and time.
THEOREM TypeCorrect == Spec => []TypeOK
<1>1. ReportIsCurrent /\ ReportTyped => TypeOK
  <2> SUFFICES ASSUME ReportIsCurrent, ReportTyped PROVE TypeOK
    OBVIOUS
  <2>1. report.valid \in BOOLEAN /\ (report.valid <=> ValidContract(doc))
    BY ReportOf DEF ReportIsCurrent
  <2>2. report.valid =>
          /\ DOMAIN report.blockers = DOMAIN doc.operations
          /\ DOMAIN report.disposition = DOMAIN doc.operations
          /\ \A x \in report.integration : x[1] \in IntegrationBlockerCodes
    <3> SUFFICES ASSUME ValidContract(doc)
                 PROVE  /\ DOMAIN report.blockers = DOMAIN doc.operations
                        /\ DOMAIN report.disposition = DOMAIN doc.operations
                        /\ \A x \in report.integration : x[1] \in IntegrationBlockerCodes
      BY <2>1
    <3>1. /\ report.blockers = [o \in DOMAIN doc.operations |-> Blockers(doc, o, now)]
          /\ report.disposition =
               [o \in DOMAIN doc.operations |-> Disposition(doc.operations[o], Blockers(doc, o, now))]
          /\ report.integration = IntegrationBlockers(doc, now)
      BY ReportOf DEF ReportIsCurrent
    <3>2. \A x \in IntegrationBlockers(doc, now) : x[1] \in IntegrationBlockerCodes
      BY Zenon DEF IntegrationBlockers
    <3> QED
      BY <3>1, <3>2
  <2> QED
    BY <2>1, <2>2 DEF TypeOK, ReportTyped
<1> QED
  BY <1>1, Current, Counted, PTL

\* The search of receipt_diagnostics finds exactly what rests below a receipt,
\* and a cycle exactly when one can be reached.
THEOREM SearchExact == Spec => []SearchIsExact
<1>1. ReportIsCurrent => SearchIsExact
  <2> SUFFICES ASSUME ReportIsCurrent, report.valid, NEW r \in DOMAIN doc.receipts
               PROVE  /\ EvidenceSearch(IssuerEvidence(doc), r).seen = Support(doc, {r})
                      /\ EvidenceSearch(IssuerEvidence(doc), r).cycles # {}
                           <=> \E x \in Support(doc, {r}) : RestsOnItself(doc, x)
    BY DEF SearchIsExact
  <2>1. Traceable(doc)
    BY ReportOf, ValidIsTraceable DEF ReportIsCurrent
  <2> QED
    BY <2>1, SearchMeetsSupport
<1> QED
  BY <1>1, Current, PTL

\* Without a scope diagnostic, every prerequisite of a runtime operation has an
\* evidence gate that blocks the operation.
LEMMA ScopeGivesGate ==
  ASSUME NEW d, NEW o, d.operations[o].executionClass = "runtime",
         NEW r \in PrerequisiteReceipts(d, o),
         \A x \in ScopeDiagnostics(d, o) : x[1] \notin IntegrationBlockerCodes
  PROVE  \E g \in DOMAIN d.gates : /\ o \in d.gates[g].blocks
                                   /\ r \in d.gates[g].requiredReceiptRefs
<1> DEFINE missing == EvidenceGates(d, r) = {}
           partial == /\ EvidenceGates(d, r) # {}
                      /\ ~\E g \in EvidenceGates(d, r) : CoversScope(d, g, r, o)
<1>1. /\ Diagnose(missing, "EVIDENCE_SCOPE_GATE_MISSING", r) \subseteq ScopeDiagnostics(d, o)
      /\ Diagnose(partial, "EVIDENCE_SCOPE_GATE_INCOMPLETE", r) \subseteq ScopeDiagnostics(d, o)
  <2> DEFINE Of(x) == Diagnose(EvidenceGates(d, x) = {}, "EVIDENCE_SCOPE_GATE_MISSING", x)
                      \cup Diagnose(/\ EvidenceGates(d, x) # {}
                                    /\ ~\E g \in EvidenceGates(d, x) : CoversScope(d, g, x, o),
                                    "EVIDENCE_SCOPE_GATE_INCOMPLETE", x)
  <2>1. ScopeDiagnostics(d, o) = UNION {Of(x) : x \in PrerequisiteReceipts(d, o)}
    BY Zenon DEF ScopeDiagnostics
  <2>2. /\ Diagnose(missing, "EVIDENCE_SCOPE_GATE_MISSING", r) \subseteq Of(r)
        /\ Diagnose(partial, "EVIDENCE_SCOPE_GATE_INCOMPLETE", r) \subseteq Of(r)
    OBVIOUS
  <2>3. Of(r) \in {Of(x) : x \in PrerequisiteReceipts(d, o)}
    OBVIOUS
  <2> HIDE DEF Of, missing, partial
  <2>4. Of(r) \subseteq UNION {Of(x) : x \in PrerequisiteReceipts(d, o)}
    BY <2>3
  <2> QED
    BY <2>1, <2>2, <2>4
<1>2. {"EVIDENCE_SCOPE_GATE_MISSING", "EVIDENCE_SCOPE_GATE_INCOMPLETE"}
        \subseteq IntegrationBlockerCodes
  BY DEF IntegrationBlockerCodes
<1> HIDE DEF missing, partial
<1>3. ~missing
  <2> SUFFICES ASSUME missing PROVE FALSE
    OBVIOUS
  <2>1. <<"EVIDENCE_SCOPE_GATE_MISSING", r>> \in ScopeDiagnostics(d, o)
    BY <1>1 DEF Diagnose
  <2> QED
    BY <1>2, <2>1
<1>4. ~partial
  <2> SUFFICES ASSUME partial PROVE FALSE
    OBVIOUS
  <2>1. <<"EVIDENCE_SCOPE_GATE_INCOMPLETE", r>> \in ScopeDiagnostics(d, o)
    BY <1>1 DEF Diagnose
  <2> QED
    BY <1>2, <2>1
<1>5. PICK g \in EvidenceGates(d, r) : CoversScope(d, g, r, o)
  BY <1>3, <1>4 DEF missing, partial
<1> QED
  BY <1>5 DEF EvidenceGates, CoversScope

\* A contract reported as complete has no runtime operation that waits for a
\* receipt it is itself to produce.
THEOREM NeverWaitsOnItself == Spec => []CompleteNeverWaitsOnItself
<1>1. ReportIsCurrent => CompleteNeverWaitsOnItself
  <2> SUFFICES ASSUME ReportIsCurrent, report.valid, report.integration = {},
                      NEW o \in DOMAIN doc.operations,
                      doc.operations[o].executionClass = "runtime",
                      NEW r \in PrerequisiteReceipts(doc, o),
                      r \in doc.operations[o].producedReceiptRefs
               PROVE  FALSE
    BY DEF CompleteNeverWaitsOnItself
  <2>1. ValidContract(doc) /\ IntegrationBlockers(doc, now) = {}
    BY ReportOf DEF ReportIsCurrent
  <2>2. \A x \in ScopeDiagnostics(doc, o) : x[1] \notin IntegrationBlockerCodes
    <3>1. ScopeDiagnostics(doc, o) \subseteq Blockers(doc, o, now)
      BY DEF Blockers
    <3>2. Blockers(doc, o, now) \subseteq Diagnostics(doc, now)
      BY DEF Diagnostics
    <3> QED
      BY <2>1, <3>1, <3>2 DEF IntegrationBlockers
  <2>3. PICK g \in DOMAIN doc.gates : /\ o \in doc.gates[g].blocks
                                      /\ r \in doc.gates[g].requiredReceiptRefs
    BY <2>2, ScopeGivesGate
  <2>4. GateOutputsOK(doc)
    BY <2>1 DEF ValidContract
  <2> QED
    BY <2>3, <2>4 DEF GateOutputsOK
<1> QED
  BY <1>1, Current, PTL

LEMMA DocumentReserves ==
  ASSUME NEW d, ValidContract(d), NEW o \in Bounded(d),
         NEW e \in DOMAIN Boundary(d, o).sharedExclusions,
         NEW p \in Boundary(d, o).sharedExclusions[e].relevantOperationRefs
  PROVE  LET x == Boundary(d, o).sharedExclusions[e] IN
         /\ p \in Bounded(d) /\ Reserves(d, p, e)
         /\ Boundary(d, p).sharedExclusions[e].attemptBinding = x.attemptBinding
         /\ \A c \in CurrentPhases :
              /\ d.receipts[x.phases[c].receiptRef].issuerOwnerRef
                   # x.attemptBinding.supervisorOwnerRef
              /\ Producers(d, x.phases[c].receiptRef) = {}
<1> DEFINE x == Boundary(d, o).sharedExclusions[e]
           b == Boundary(d, p)
<1>1. OperationsOK(d) /\ ProducersAgree(d) /\ EvidenceOK(d) /\ DirectionsOK(d)
  BY DEF ValidContract
<1>2. /\ p \in Bounded(d) /\ e \in DOMAIN b.sharedExclusions
      /\ b.sharedExclusions[e].attemptBinding = x.attemptBinding
  BY <1>1 DEF ProducersAgree
<1>3. BoundaryOK(d, p)
  BY <1>1, <1>2 DEF OperationsOK, Bounded
<1>4. Reserves(d, p, e)
  <2>1. /\ DOMAIN b.sharedExclusions = FactRefs(b, "sharedExclusionRef")
        /\ FactsOK(d, p, b)
    BY <1>3 DEF BoundaryOK
  <2> HIDE DEF b
  <2>2. PICK i \in DOMAIN b.technicalVisibilityFacts :
          b.technicalVisibilityFacts[i].sharedExclusionRef = e /\ e # None
    BY <1>2, <2>1 DEF FactRefs
  <2>3. FactExclusionOK(p, b, b.technicalVisibilityFacts[i])
    BY <2>1 DEF FactsOK
  <2> QED
    BY <2>2, <2>3 DEF FactExclusionOK, Reserves, b
<1>5. ASSUME NEW c \in CurrentPhases
      PROVE  /\ d.receipts[x.phases[c].receiptRef].issuerOwnerRef
                  # x.attemptBinding.supervisorOwnerRef
             /\ Producers(d, x.phases[c].receiptRef) = {}
  <2>1. c \in Elements(Phases)
    BY DEF CurrentPhases, Elements, Phases
  <2>2. PhaseEvidenceOK(d, e, x, c)
    BY <1>1, <2>1 DEF EvidenceOK
  <2>3. Producers(d, x.phases[c].receiptRef) = {}
    BY <1>1, <2>1 DEF DirectionsOK
  <2> HIDE DEF x
  <2> QED
    BY <2>2, <2>3 DEF PhaseEvidenceOK
<1> QED
  BY <1>2, <1>4, <1>5

\* A reservation one operation claims is one every producer it names declares,
\* acquires before observing, and hands to the same attempt.
THEOREM ReservationsAreShared == Spec => []ReservationIsShared
<1>1. ReportIsCurrent => ReservationIsShared
  <2> SUFFICES ASSUME ReportIsCurrent, report.valid PROVE ReservationIsShared
    BY DEF ReservationIsShared
  <2>1. ValidContract(doc)
    BY ReportOf DEF ReportIsCurrent
  <2> QED
    BY <2>1, DocumentReserves DEF ReservationIsShared
<1> QED
  BY <1>1, Current, PTL

(***************************************************************************)
(* An operation without a blocker.                                         *)
(***************************************************************************)

Decisions(d, o) == {y \in DOMAIN d.ownerDecisions : o \in d.ownerDecisions[y].affectedOperations}
OwnReceipts(d, o) == d.operations[o].requiredReceiptRefs \ GateReceipts(d, o)

\* The kinds of blockers, one by one.
BlockerParts(d, o, t, x) ==
  \/ x \in BoundaryDiagnostics(d, o)
  \/ x \in BindingDiagnostics(d, o)
  \/ x \in ScopeDiagnostics(d, o)
  \/ \E g \in GatesOf(d, o) : x \in GateDiagnostics(d, g, o, t)
  \/ \E q \in d.operations[o].credentialRequirements : x \in CredentialDiagnostics(d, q, o)
  \/ x \in Evidence(d, OwnReceipts(d, o), o)
  \/ \E a \in d.operations[o].requiredAuthorityRefs :
       x \in AuthorityDiagnostics(d, a, o, "AUTHORITY_UNRESOLVED")
  \/ x \in Diagnose(/\ d.assessment.verification # "caller-verified-index"
                    /\ d.operations[o].kind \in {"local-effect", "cleanup"},
                    "ASSESSMENT_UNVERIFIED", o)
  \/ \E r \in Applicable(d.resourceRules, o) : x \in ResourceDiagnostics(d.resourceRules[r], r)
  \/ \E p \in Applicable(d.privacyEgress, o) : x \in PrivacyDiagnostics(d, p, o)
  \/ x \in CleanupDiagnostics(d, o)
  \/ \E y \in Decisions(d, o) : x = <<"OWNER_DECISION_UNRESOLVED", y>>

LEMMA BlockersAreParts ==
  ASSUME NEW d, NEW o, NEW t, NEW x
  PROVE  x \in Blockers(d, o, t) <=> BlockerParts(d, o, t, x)
<1> DEFINE gated == UNION {GateDiagnostics(d, g, o, t) : g \in GatesOf(d, o)}
           secret == UNION {CredentialDiagnostics(d, q, o) : q \in d.operations[o].credentialRequirements}
           ruled == UNION {AuthorityDiagnostics(d, a, o, "AUTHORITY_UNRESOLVED") :
                             a \in d.operations[o].requiredAuthorityRefs}
           sized == UNION {ResourceDiagnostics(d.resourceRules[r], r) :
                             r \in Applicable(d.resourceRules, o)}
           private == UNION {PrivacyDiagnostics(d, p, o) : p \in Applicable(d.privacyEgress, o)}
           decided == {<<"OWNER_DECISION_UNRESOLVED", y>> : y \in Decisions(d, o)}
           assessed == Diagnose(/\ d.assessment.verification # "caller-verified-index"
                                /\ d.operations[o].kind \in {"local-effect", "cleanup"},
                                "ASSESSMENT_UNVERIFIED", o)
<1>1. Blockers(d, o, t) =
        BoundaryDiagnostics(d, o) \cup BindingDiagnostics(d, o) \cup ScopeDiagnostics(d, o)
        \cup gated \cup secret \cup Evidence(d, OwnReceipts(d, o), o) \cup ruled \cup assessed
        \cup sized \cup private \cup CleanupDiagnostics(d, o) \cup decided
  BY Zenon DEF Blockers, OwnReceipts, GateReceipts, Decisions
<1>2. /\ x \in gated <=> \E g \in GatesOf(d, o) : x \in GateDiagnostics(d, g, o, t)
      /\ x \in secret <=> \E q \in d.operations[o].credentialRequirements :
                            x \in CredentialDiagnostics(d, q, o)
      /\ x \in ruled <=> \E a \in d.operations[o].requiredAuthorityRefs :
                           x \in AuthorityDiagnostics(d, a, o, "AUTHORITY_UNRESOLVED")
  OBVIOUS
<1>3. /\ x \in sized <=> \E r \in Applicable(d.resourceRules, o) :
                           x \in ResourceDiagnostics(d.resourceRules[r], r)
      /\ x \in private <=> \E p \in Applicable(d.privacyEgress, o) : x \in PrivacyDiagnostics(d, p, o)
      /\ x \in decided <=> \E y \in Decisions(d, o) : x = <<"OWNER_DECISION_UNRESOLVED", y>>
  OBVIOUS
<1> HIDE DEF gated, secret, ruled, sized, private, decided, assessed
<1>4. x \in Blockers(d, o, t) <=>
        \/ x \in BoundaryDiagnostics(d, o)
        \/ x \in BindingDiagnostics(d, o)
        \/ x \in ScopeDiagnostics(d, o)
        \/ x \in gated \/ x \in secret
        \/ x \in Evidence(d, OwnReceipts(d, o), o)
        \/ x \in ruled \/ x \in assessed \/ x \in sized \/ x \in private
        \/ x \in CleanupDiagnostics(d, o) \/ x \in decided
  BY <1>1
<1> QED
  BY <1>2, <1>3, <1>4 DEF assessed, BlockerParts

LEMMA BlockersByParts ==
  ASSUME NEW d, NEW o, NEW t, NEW x
  PROVE  x \in Blockers(d, o, t) <=>
           \/ x \in BoundaryDiagnostics(d, o)
           \/ x \in BindingDiagnostics(d, o)
           \/ x \in ScopeDiagnostics(d, o)
           \/ \E g \in GatesOf(d, o) : x \in GateDiagnostics(d, g, o, t)
           \/ \E q \in d.operations[o].credentialRequirements : x \in CredentialDiagnostics(d, q, o)
           \/ x \in Evidence(d, OwnReceipts(d, o), o)
           \/ \E a \in d.operations[o].requiredAuthorityRefs :
                x \in AuthorityDiagnostics(d, a, o, "AUTHORITY_UNRESOLVED")
           \/ x \in Diagnose(/\ d.assessment.verification # "caller-verified-index"
                             /\ d.operations[o].kind \in {"local-effect", "cleanup"},
                             "ASSESSMENT_UNVERIFIED", o)
           \/ \E r \in Applicable(d.resourceRules, o) : x \in ResourceDiagnostics(d.resourceRules[r], r)
           \/ \E p \in Applicable(d.privacyEgress, o) : x \in PrivacyDiagnostics(d, p, o)
           \/ x \in CleanupDiagnostics(d, o)
           \/ \E y \in Decisions(d, o) : x = <<"OWNER_DECISION_UNRESOLVED", y>>
<1>1. x \in Blockers(d, o, t) <=> BlockerParts(d, o, t, x)
  BY BlockersAreParts
<1> QED
  BY <1>1 DEF BlockerParts

LEMMA EvidenceByReceipts ==
  ASSUME NEW d, NEW refs, NEW o, NEW x
  PROVE  x \in Evidence(d, refs, o) <=> \E r \in refs : x \in ReceiptDiagnostics(d, r, o)
BY DEF Evidence

LEMMA PrivacyByParts ==
  ASSUME NEW d, NEW p, NEW o, NEW x
  PROVE  x \in PrivacyDiagnostics(d, p, o) <=>
           \/ x \in Diagnose(d.privacyEgress[p].status = "unresolved", "PRIVACY_UNRESOLVED", p)
           \/ x \in Diagnose(d.privacyEgress[p].status = "denied", "PRIVACY_DENIED", p)
           \/ \E a \in d.privacyEgress[p].requiredAuthorityRefs :
                x \in AuthorityDiagnostics(d, a, o, "PRIVACY_AUTHORITY_UNRESOLVED")
<1> DEFINE ruled == UNION {AuthorityDiagnostics(d, a, o, "PRIVACY_AUTHORITY_UNRESOLVED") :
                             a \in d.privacyEgress[p].requiredAuthorityRefs}
<1>1. PrivacyDiagnostics(d, p, o) =
        Diagnose(d.privacyEgress[p].status = "unresolved", "PRIVACY_UNRESOLVED", p)
        \cup Diagnose(d.privacyEgress[p].status = "denied", "PRIVACY_DENIED", p) \cup ruled
  BY Zenon DEF PrivacyDiagnostics
<1>2. x \in ruled <=> \E a \in d.privacyEgress[p].requiredAuthorityRefs :
                        x \in AuthorityDiagnostics(d, a, o, "PRIVACY_AUTHORITY_UNRESOLVED")
  OBVIOUS
<1> HIDE DEF ruled
<1> QED
  BY <1>1, <1>2

CleanupRules(d, o) == {c \in DOMAIN d.cleanupRules : o \in d.cleanupRules[c].operationRefs}

LEMMA CleanupByParts ==
  ASSUME NEW d, NEW o, NEW x
  PROVE  x \in CleanupDiagnostics(d, o) <=>
           /\ d.operations[o].kind = "cleanup"
           /\ \/ x \in Diagnose(CleanupRules(d, o) = {}, "CLEANUP_RULE_MISSING", o)
              \/ \E c \in CleanupRules(d, o) :
                   ~d.cleanupRules[c].regenerable /\ x = <<"CLEANUP_NOT_REGENERABLE", c>>
              \/ \E r \in CleanupReceipts(d, o) :
                   \/ x \in ReceiptDiagnostics(d, r, o)
                   \/ x \in Diagnose(ReceiptDiagnostics(d, r, o) # {}, "CLEANUP_CUSTODY_UNSATISFIED", r)
<1> DEFINE lasting == {<<"CLEANUP_NOT_REGENERABLE", c>> :
                         c \in {z \in CleanupRules(d, o) : ~d.cleanupRules[z].regenerable}}
           Of(r) == ReceiptDiagnostics(d, r, o)
                    \cup Diagnose(ReceiptDiagnostics(d, r, o) # {}, "CLEANUP_CUSTODY_UNSATISFIED", r)
           held == UNION {Of(r) : r \in CleanupReceipts(d, o)}
<1>1. CleanupDiagnostics(d, o) =
        IF d.operations[o].kind # "cleanup" THEN {}
        ELSE Diagnose(CleanupRules(d, o) = {}, "CLEANUP_RULE_MISSING", o) \cup lasting \cup held
  BY Zenon DEF CleanupDiagnostics, CleanupRules, CleanupReceipts
<1>2. x \in lasting <=> \E c \in CleanupRules(d, o) :
                          ~d.cleanupRules[c].regenerable /\ x = <<"CLEANUP_NOT_REGENERABLE", c>>
  OBVIOUS
<1>3. x \in held <=> \E r \in CleanupReceipts(d, o) : x \in Of(r)
  BY Zenon
<1>4. \A r : x \in Of(r) <=>
        \/ x \in ReceiptDiagnostics(d, r, o)
        \/ x \in Diagnose(ReceiptDiagnostics(d, r, o) # {}, "CLEANUP_CUSTODY_UNSATISFIED", r)
  OBVIOUS
<1> HIDE DEF lasting, held, Of
<1> QED
  BY <1>1, <1>2, <1>3, <1>4

\* What the search reports of a receipt is about what the receipt rests on.
LEMMA ReceiptByParts ==
  ASSUME NEW d, NEW root, NEW o, NEW x
  PROVE  x \in ReceiptDiagnostics(d, root, o) <=>
           \/ \E r \in {root} \cup EvidenceSearch(IssuerEvidence(d), root).seen :
                x \in OwnDiagnostics(d, r, o)
           \/ \E r \in EvidenceSearch(IssuerEvidence(d), root).cycles :
                x = <<"EVIDENCE_ISSUER_AUTHORITY_CYCLE", r>>
<1> DEFINE found == EvidenceSearch(IssuerEvidence(d), root)
           own == UNION {OwnDiagnostics(d, r, o) : r \in {root} \cup found.seen}
           round == {<<"EVIDENCE_ISSUER_AUTHORITY_CYCLE", r>> : r \in found.cycles}
<1>1. ReceiptDiagnostics(d, root, o) = own \cup round
  BY Zenon DEF ReceiptDiagnostics
<1> HIDE DEF found
<1>2. x \in own <=> \E r \in {root} \cup found.seen : x \in OwnDiagnostics(d, r, o)
  OBVIOUS
<1>3. x \in round <=> \E r \in found.cycles : x = <<"EVIDENCE_ISSUER_AUTHORITY_CYCLE", r>>
  OBVIOUS
<1> HIDE DEF own, round
<1> QED
  BY <1>1, <1>2, <1>3 DEF found

\* No blocker: nothing is reported of any receipt the operation names.
LEMMA NamedAreClear ==
  ASSUME NEW d, ValidContract(d), NEW o \in DOMAIN d.operations, NEW t, Blockers(d, o, t) = {}
  PROVE  \A r \in NamedReceipts(d, o) \cup GateReceipts(d, o) : ReceiptDiagnostics(d, r, o) = {}
<1>1. \A r \in GateReceipts(d, o) : ReceiptDiagnostics(d, r, o) = {}
  <2> SUFFICES ASSUME NEW r \in GateReceipts(d, o), NEW x \in ReceiptDiagnostics(d, r, o)
               PROVE  FALSE
    OBVIOUS
  <2>1. PICK g \in GatesOf(d, o) : r \in d.gates[g].requiredReceiptRefs
    BY DEF GateReceipts
  <2>2. x \in Evidence(d, d.gates[g].requiredReceiptRefs, o)
    BY <2>1, EvidenceByReceipts
  <2>3. x \in GateDiagnostics(d, g, o, t)
    BY <2>2 DEF GateDiagnostics
  <2> QED
    BY <2>1, <2>3, BlockersByParts
<1>2. \A r \in d.operations[o].requiredReceiptRefs : ReceiptDiagnostics(d, r, o) = {}
  <2> SUFFICES ASSUME NEW r \in OwnReceipts(d, o), NEW x \in ReceiptDiagnostics(d, r, o)
               PROVE  FALSE
    BY <1>1 DEF OwnReceipts
  <2>1. x \in Evidence(d, OwnReceipts(d, o), o)
    BY EvidenceByReceipts
  <2> QED
    BY <2>1, BlockersByParts
<1>3. \A r \in CredentialReceipts(d, o) : ReceiptDiagnostics(d, r, o) = {}
  <2> SUFFICES ASSUME NEW r \in CredentialReceipts(d, o), NEW x \in ReceiptDiagnostics(d, r, o)
               PROVE  FALSE
    OBVIOUS
  <2>1. PICK q \in d.operations[o].credentialRequirements :
          r \in d.credentials[q.credentialRef].evidenceRefs
    BY DEF CredentialReceipts
  <2>2. x \in Evidence(d, d.credentials[q.credentialRef].evidenceRefs, o)
    BY <2>1, EvidenceByReceipts
  <2>3. x \in CredentialDiagnostics(d, q, o)
    BY <2>2 DEF CredentialDiagnostics
  <2> QED
    BY <2>1, <2>3, BlockersByParts
<1>4. ASSUME NEW a, NEW code, NEW r \in Elements(d.authorities[a].evidenceRefs),
             NEW x \in ReceiptDiagnostics(d, r, o)
      PROVE  x \in AuthorityDiagnostics(d, a, o, code)
  <2>1. x \in Evidence(d, Elements(d.authorities[a].evidenceRefs), o)
    BY <1>4, EvidenceByReceipts
  <2> QED
    BY <2>1 DEF AuthorityDiagnostics
<1>5. \A r \in AuthorityReceipts(d, o) : ReceiptDiagnostics(d, r, o) = {}
  <2> SUFFICES ASSUME NEW r \in AuthorityReceipts(d, o), NEW x \in ReceiptDiagnostics(d, r, o)
               PROVE  FALSE
    OBVIOUS
  <2>1. PICK a \in NamedAuthorities(d, o) : r \in Elements(d.authorities[a].evidenceRefs)
    BY DEF AuthorityReceipts
  <2>2. \/ a \in d.operations[o].requiredAuthorityRefs
        \/ \E p \in Applicable(d.privacyEgress, o) : a \in d.privacyEgress[p].requiredAuthorityRefs
    BY NamedAuthoritiesAreKnown DEF NamedAuthorities
  <2>3. CASE a \in d.operations[o].requiredAuthorityRefs
    BY <1>4, <2>1, <2>3, BlockersByParts
  <2>4. CASE \E p \in Applicable(d.privacyEgress, o) : a \in d.privacyEgress[p].requiredAuthorityRefs
    <3>1. PICK p \in Applicable(d.privacyEgress, o) : a \in d.privacyEgress[p].requiredAuthorityRefs
      BY <2>4
    <3>2. x \in AuthorityDiagnostics(d, a, o, "PRIVACY_AUTHORITY_UNRESOLVED")
      BY <1>4, <2>1
    <3>3. x \in PrivacyDiagnostics(d, p, o)
      BY <3>1, <3>2, PrivacyByParts
    <3> QED
      BY <3>1, <3>3, BlockersByParts
  <2> QED
    BY <2>2, <2>3, <2>4
<1>6. d.operations[o].kind = "cleanup" =>
        \A r \in CleanupReceipts(d, o) : ReceiptDiagnostics(d, r, o) = {}
  BY CleanupByParts, BlockersByParts
<1>7. o \in Bounded(d) => \A r \in ExclusionReceipts(d, o) : r \in GateReceipts(d, o)
  <2> SUFFICES ASSUME o \in Bounded(d), NEW r \in ExclusionReceipts(d, o)
               PROVE  r \in GateReceipts(d, o)
    OBVIOUS
  <2>1. d.operations[o].executionClass = "runtime"
    <3>1. OperationsOK(d) /\ StatesOK(d)
      BY DEF ValidContract
    <3>2. d.operations[o].executionClass # "source-only"
      BY <3>1 DEF OperationsOK, BoundaryOK
    <3>3. States["operations"] = [executionClass |-> {"source-only", "runtime"}]
      BY DEF States
    <3>4. "operations" \in DOMAIN States
      BY DEF States
    <3>5. \A field \in DOMAIN States["operations"] :
            d.operations[o][field] \in States["operations"][field]
      BY <3>1, <3>4 DEF StatesOK
    <3>6. d.operations[o]["executionClass"] \in {"source-only", "runtime"}
      BY <3>3, <3>5
    <3> QED
      BY <3>2, <3>6
  <2>2. r \in PrerequisiteReceipts(d, o)
    BY NamedByParts, NamedArePrerequisites
  <2>3. ScopeDiagnostics(d, o) = {}
    BY BlockersByParts
  <2>4. PICK g \in DOMAIN d.gates : o \in d.gates[g].blocks /\ r \in d.gates[g].requiredReceiptRefs
    BY <2>1, <2>2, <2>3, ScopeGivesGate
  <2> QED
    BY <2>4 DEF GateReceipts, GatesOf
<1> QED
  BY <1>1, <1>2, <1>3, <1>5, <1>6, <1>7, NamedByParts

\* Accepted, by whom it has to be and for this operation, and not by itself.
Supported(d, o, r) ==
  /\ d.receipts[r].disposition = "externally-accepted"
  /\ Resolved(d, d.receipts[r].issuerOwnerRef)
  /\ Established(d, d.receipts[r].issuerAuthorityRef)
  /\ o \in d.receipts[r].downstreamConsumers
  /\ ~RestsOnItself(d, r)

LEMMA ClearIsSupported ==
  ASSUME NEW d, ValidContract(d), NEW o, NEW root \in DOMAIN d.receipts,
         ReceiptDiagnostics(d, root, o) = {}
  PROVE  \A r \in Support(d, {root}) : Supported(d, o, r)
<1>1. Traceable(d)
  BY ValidIsTraceable
<1> DEFINE found == EvidenceSearch(IssuerEvidence(d), root)
<1>2. /\ found.seen = Support(d, {root})
      /\ found.cycles # {} <=> \E x \in Support(d, {root}) : RestsOnItself(d, x)
  BY <1>1, SearchMeetsSupport
<1>3. \A r \in found.seen : OwnDiagnostics(d, r, o) = {}
  BY ReceiptByParts
<1>4. found.cycles = {}
  BY ReceiptByParts
<1>5. ASSUME NEW r, OwnDiagnostics(d, r, o) = {}
      PROVE  /\ d.receipts[r].disposition = "externally-accepted"
             /\ Resolved(d, d.receipts[r].issuerOwnerRef)
             /\ Established(d, d.receipts[r].issuerAuthorityRef)
             /\ o \in d.receipts[r].downstreamConsumers
  BY <1>5 DEF OwnDiagnostics, Diagnose
<1> QED
  BY <1>2, <1>3, <1>4, <1>5 DEF Supported

\* An operation without a blocker rests on accepted evidence only, along the
\* whole chain of issuers.
THEOREM PermittedSupported == Spec => []PermittedIsSupported
<1>1. ReportIsCurrent => PermittedIsSupported
  <2> SUFFICES ASSUME ReportIsCurrent, report.valid, NEW o \in DOMAIN report.blockers,
                      report.disposition[o] # "blocked", NEW r \in Awaited(doc, o)
               PROVE  Supported(doc, o, r)
    BY DEF PermittedIsSupported, Supported
  <2>1. ValidContract(doc)
    BY ReportOf DEF ReportIsCurrent
  <2>2. /\ o \in DOMAIN doc.operations
        /\ report.disposition[o] = Disposition(doc.operations[o], Blockers(doc, o, now))
    <3>1. /\ report.blockers = [p \in DOMAIN doc.operations |-> Blockers(doc, p, now)]
          /\ report.disposition =
               [p \in DOMAIN doc.operations |-> Disposition(doc.operations[p], Blockers(doc, p, now))]
      BY <2>1, ReportOf DEF ReportIsCurrent
    <3> QED
      BY <3>1
  <2>3. Blockers(doc, o, now) = {}
    BY <2>2 DEF Disposition
  <2>4. PICK root \in NamedReceipts(doc, o) \cup GateReceipts(doc, o) : r \in Support(doc, {root})
    BY <2>1, <2>2, AwaitedHoldsSupport
  <2>5. ReceiptDiagnostics(doc, root, o) = {} /\ root \in DOMAIN doc.receipts
    BY <2>1, <2>2, <2>3, NamedAreClear, NamedAreKnown
  <2> QED
    BY <2>1, <2>4, <2>5, ClearIsSupported
<1> QED
  BY <1>1, Current, PTL

(***************************************************************************)
(* Two documents that differ in facts only.                                *)
(***************************************************************************)

FactCollections ==
  {"owners", "authorities", "receipts", "gates", "credentials", "privacyEgress", "resourceRules"}

LEMMA FactCollectionsAre == {f[1] : f \in FactFields} = FactCollections
<1>1. FactCollections \subseteq {f[1] : f \in FactFields}
  BY DEF FactFields, FactCollections
<1>2. \A f \in FactFields : f[1] \in FactCollections
  BY DEF FactFields, FactCollections
<1> QED
  BY <1>1, <1>2

LEMMA WiringKeepsParts ==
  ASSUME NEW d, NEW e, ShapeOK(d), ShapeOK(e), Wiring(d) = Wiring(e),
         NEW c \in DOMAIN d, c \notin FactCollections
  PROVE  d[c] = e[c]
<1>1. DOMAIN d = DOMAIN e
  BY DEF ShapeOK
<1>2. Wiring(d)[c] = d[c] /\ Wiring(e)[c] = e[c]
  BY <1>1, FactCollectionsAre DEF Wiring
<1> QED
  BY <1>2

LEMMA WiringKeepsFields ==
  ASSUME NEW d, NEW e, ShapeOK(d), ShapeOK(e), Wiring(d) = Wiring(e),
         NEW c \in FactCollections, c \in DOMAIN Keys
  PROVE  /\ DOMAIN d[c] = DOMAIN e[c]
         /\ \A i \in DOMAIN d[c] : \A f \in Keys[c] : <<c, f>> \notin FactFields =>
              d[c][i][f] = e[c][i][f]
<1> DEFINE Bare(x) == [i \in DOMAIN x[c] |->
                        [f \in DOMAIN x[c][i] |-> IF <<c, f>> \in FactFields THEN None ELSE x[c][i][f]]]
<1>1. c \in DOMAIN d /\ c \in DOMAIN e
  BY DEF ShapeOK
<1>2. Wiring(d)[c] = Bare(d) /\ Wiring(e)[c] = Bare(e)
  BY <1>1, FactCollectionsAre DEF Wiring
<1>3. Bare(d) = Bare(e)
  BY <1>2
<1>4. DOMAIN d[c] = DOMAIN e[c]
  <2>1. DOMAIN Bare(d) = DOMAIN d[c] /\ DOMAIN Bare(e) = DOMAIN e[c]
    OBVIOUS
  <2> HIDE DEF Bare
  <2> QED
    BY <1>3, <2>1
<1>5. ASSUME NEW i \in DOMAIN d[c], NEW f \in Keys[c], <<c, f>> \notin FactFields
      PROVE  d[c][i][f] = e[c][i][f]
  <2>1. DOMAIN d[c][i] = Keys[c] /\ DOMAIN e[c][i] = Keys[c]
    BY <1>4 DEF ShapeOK
  <2>2. Bare(d)[i][f] = d[c][i][f] /\ Bare(e)[i][f] = e[c][i][f]
    BY <1>4, <1>5, <2>1
  <2> HIDE DEF Bare
  <2> QED
    BY <1>3, <2>2
<1> QED
  BY <1>4, <1>5

\* The fields of the wiring that preflight reads, collection by collection.
AlikeParts(d, e) ==
  /\ d.operations = e.operations /\ d.cleanupRules = e.cleanupRules
  /\ d.ownerDecisions = e.ownerDecisions /\ d.interfaceClosure = e.interfaceClosure
  /\ d.assessment = e.assessment /\ d.sources = e.sources
AlikeOwners(d, e) == DOMAIN d.owners = DOMAIN e.owners
AlikeAuthorities(d, e) ==
  /\ DOMAIN d.authorities = DOMAIN e.authorities
  /\ \A a \in DOMAIN d.authorities :
       /\ d.authorities[a].ownerRef = e.authorities[a].ownerRef
       /\ d.authorities[a].authorizedPrincipalRefs = e.authorities[a].authorizedPrincipalRefs
       /\ d.authorities[a].evidenceRefs = e.authorities[a].evidenceRefs
AlikeReceipts(d, e) ==
  /\ DOMAIN d.receipts = DOMAIN e.receipts
  /\ \A r \in DOMAIN d.receipts :
       /\ d.receipts[r].issuerOwnerRef = e.receipts[r].issuerOwnerRef
       /\ d.receipts[r].issuerAuthorityRef = e.receipts[r].issuerAuthorityRef
       /\ d.receipts[r].downstreamConsumers = e.receipts[r].downstreamConsumers
AlikeGates(d, e) ==
  /\ DOMAIN d.gates = DOMAIN e.gates
  /\ \A g \in DOMAIN d.gates :
       /\ d.gates[g].kind = e.gates[g].kind
       /\ d.gates[g].ownerRef = e.gates[g].ownerRef
       /\ d.gates[g].requiredReceiptRefs = e.gates[g].requiredReceiptRefs
       /\ d.gates[g].blocks = e.gates[g].blocks
       /\ d.gates[g].timeBoundary = e.gates[g].timeBoundary
AlikeCredentials(d, e) ==
  /\ DOMAIN d.credentials = DOMAIN e.credentials
  /\ \A c \in DOMAIN d.credentials :
       /\ d.credentials[c].purpose = e.credentials[c].purpose
       /\ d.credentials[c].authorizedConsumers = e.credentials[c].authorizedConsumers
       /\ d.credentials[c].authorizedPrincipalRefs = e.credentials[c].authorizedPrincipalRefs
       /\ d.credentials[c].authorityGrantedRefs = e.credentials[c].authorityGrantedRefs
       /\ d.credentials[c].authorityNotGrantedRefs = e.credentials[c].authorityNotGrantedRefs
       /\ d.credentials[c].evidenceRefs = e.credentials[c].evidenceRefs
AlikeRules(d, e) ==
  /\ DOMAIN d.resourceRules = DOMAIN e.resourceRules
  /\ \A r \in DOMAIN d.resourceRules :
       /\ d.resourceRules[r].observedAvailable = e.resourceRules[r].observedAvailable
       /\ d.resourceRules[r].minimum = e.resourceRules[r].minimum
       /\ d.resourceRules[r].expectedAllocation = e.resourceRules[r].expectedAllocation
       /\ d.resourceRules[r].applicableOperations = e.resourceRules[r].applicableOperations
AlikePrivacy(d, e) ==
  /\ DOMAIN d.privacyEgress = DOMAIN e.privacyEgress
  /\ \A p \in DOMAIN d.privacyEgress :
       /\ d.privacyEgress[p].requiredAuthorityRefs = e.privacyEgress[p].requiredAuthorityRefs
       /\ d.privacyEgress[p].applicableOperations = e.privacyEgress[p].applicableOperations

Alike(d, e) ==
  /\ AlikeParts(d, e) /\ AlikeOwners(d, e) /\ AlikeAuthorities(d, e) /\ AlikeReceipts(d, e)
  /\ AlikeGates(d, e) /\ AlikeCredentials(d, e) /\ AlikeRules(d, e) /\ AlikePrivacy(d, e)

LEMMA SameWiringIsAlike ==
  ASSUME NEW d, NEW e, ValidContract(d), ValidContract(e), Wiring(d) = Wiring(e)
  PROVE  Alike(d, e)
<1>1. ShapeOK(d) /\ ShapeOK(e)
  BY DEF ValidContract
<1>2. \A c \in FactCollections : c \in DOMAIN Keys =>
        /\ DOMAIN d[c] = DOMAIN e[c]
        /\ \A i \in DOMAIN d[c] : \A f \in Keys[c] : <<c, f>> \notin FactFields =>
             d[c][i][f] = e[c][i][f]
  BY <1>1, WiringKeepsFields
<1>3. AlikeParts(d, e)
  <2>1. {"operations", "cleanupRules", "ownerDecisions", "interfaceClosure", "assessment", "sources"}
          \subseteq DOMAIN d
    <3>1. {"operations", "cleanupRules", "ownerDecisions", "sources"} \subseteq DOMAIN Keys
      BY DEF Keys
    <3> QED
      BY <1>1, <3>1 DEF ShapeOK
  <2>2. \A c \in {"operations", "cleanupRules", "ownerDecisions", "interfaceClosure", "assessment",
                  "sources"} : c \notin FactCollections
    BY DEF FactCollections
  <2>3. \A c \in {"operations", "cleanupRules", "ownerDecisions", "interfaceClosure", "assessment",
                  "sources"} : d[c] = e[c]
    BY <1>1, <2>1, <2>2, WiringKeepsParts
  <2> QED
    BY <2>3 DEF AlikeParts
<1>4. AlikeOwners(d, e)
  <2>1. "owners" \in DOMAIN Keys /\ "owners" \in FactCollections
    BY DEF Keys, FactCollections
  <2> QED
    BY <1>2, <2>1 DEF AlikeOwners
<1>5. AlikeAuthorities(d, e)
  <2>1. "authorities" \in DOMAIN Keys /\ "authorities" \in FactCollections
    BY DEF Keys, FactCollections
  <2>2. {"ownerRef", "authorizedPrincipalRefs", "evidenceRefs"} \subseteq Keys["authorities"]
    BY DEF Keys
  <2>3. \A f \in {"ownerRef", "authorizedPrincipalRefs", "evidenceRefs"} :
          <<"authorities", f>> \notin FactFields
    BY DEF FactFields
  <2>4. DOMAIN d["authorities"] = DOMAIN e["authorities"]
    BY <1>2, <2>1
  <2>5. \A i \in DOMAIN d["authorities"] :
          \A f \in {"ownerRef", "authorizedPrincipalRefs", "evidenceRefs"} :
            d["authorities"][i][f] = e["authorities"][i][f]
    BY <1>2, <2>1, <2>2, <2>3
  <2> QED
    BY <2>4, <2>5 DEF AlikeAuthorities
<1>6. AlikeReceipts(d, e)
  <2>1. "receipts" \in DOMAIN Keys /\ "receipts" \in FactCollections
    BY DEF Keys, FactCollections
  <2>2. {"issuerOwnerRef", "issuerAuthorityRef", "downstreamConsumers"} \subseteq Keys["receipts"]
    BY DEF Keys
  <2>3. \A f \in {"issuerOwnerRef", "issuerAuthorityRef", "downstreamConsumers"} :
          <<"receipts", f>> \notin FactFields
    BY DEF FactFields
  <2>4. DOMAIN d["receipts"] = DOMAIN e["receipts"]
    BY <1>2, <2>1
  <2>5. \A i \in DOMAIN d["receipts"] :
          \A f \in {"issuerOwnerRef", "issuerAuthorityRef", "downstreamConsumers"} :
            d["receipts"][i][f] = e["receipts"][i][f]
    BY <1>2, <2>1, <2>2, <2>3
  <2> QED
    BY <2>4, <2>5 DEF AlikeReceipts
<1>7. AlikeGates(d, e)
  <2> DEFINE F == {"kind", "ownerRef", "requiredReceiptRefs", "blocks", "timeBoundary"}
  <2>1. "gates" \in DOMAIN Keys /\ "gates" \in FactCollections
    BY DEF Keys, FactCollections
  <2>2. F \subseteq Keys["gates"]
    BY DEF Keys
  <2>3. \A f \in F : <<"gates", f>> \notin FactFields
    BY DEF FactFields
  <2>4. DOMAIN d["gates"] = DOMAIN e["gates"]
    BY <1>2, <2>1
  <2>5. \A i \in DOMAIN d["gates"] : \A f \in F : d["gates"][i][f] = e["gates"][i][f]
    <3> HIDE DEF F
    <3> QED
      BY <1>2, <2>1, <2>2, <2>3
  <2> QED
    BY <2>4, <2>5 DEF AlikeGates
<1>8. AlikeCredentials(d, e)
  <2> DEFINE F == {"purpose", "authorizedConsumers", "authorizedPrincipalRefs", "authorityGrantedRefs",
                   "authorityNotGrantedRefs", "evidenceRefs"}
  <2>1. "credentials" \in DOMAIN Keys /\ "credentials" \in FactCollections
    BY DEF Keys, FactCollections
  <2>2. F \subseteq Keys["credentials"]
    BY DEF Keys
  <2>3. \A f \in F : <<"credentials", f>> \notin FactFields
    BY DEF FactFields
  <2>4. DOMAIN d["credentials"] = DOMAIN e["credentials"]
    BY <1>2, <2>1
  <2>5. \A i \in DOMAIN d["credentials"] : \A f \in F :
          d["credentials"][i][f] = e["credentials"][i][f]
    <3> HIDE DEF F
    <3> QED
      BY <1>2, <2>1, <2>2, <2>3
  <2> QED
    BY <2>4, <2>5 DEF AlikeCredentials
<1>9. AlikeRules(d, e)
  <2> DEFINE F == {"observedAvailable", "minimum", "expectedAllocation", "applicableOperations"}
  <2>1. "resourceRules" \in DOMAIN Keys /\ "resourceRules" \in FactCollections
    BY DEF Keys, FactCollections
  <2>2. F \subseteq Keys["resourceRules"]
    BY DEF Keys
  <2>3. \A f \in F : <<"resourceRules", f>> \notin FactFields
    BY DEF FactFields
  <2>4. DOMAIN d["resourceRules"] = DOMAIN e["resourceRules"]
    BY <1>2, <2>1
  <2>5. \A i \in DOMAIN d["resourceRules"] : \A f \in F :
          d["resourceRules"][i][f] = e["resourceRules"][i][f]
    <3> HIDE DEF F
    <3> QED
      BY <1>2, <2>1, <2>2, <2>3
  <2> QED
    BY <2>4, <2>5 DEF AlikeRules
<1>10. AlikePrivacy(d, e)
  <2> DEFINE F == {"requiredAuthorityRefs", "applicableOperations"}
  <2>1. "privacyEgress" \in DOMAIN Keys /\ "privacyEgress" \in FactCollections
    BY DEF Keys, FactCollections
  <2>2. F \subseteq Keys["privacyEgress"]
    BY DEF Keys
  <2>3. \A f \in F : <<"privacyEgress", f>> \notin FactFields
    BY DEF FactFields
  <2>4. DOMAIN d["privacyEgress"] = DOMAIN e["privacyEgress"]
    BY <1>2, <2>1
  <2>5. \A i \in DOMAIN d["privacyEgress"] : \A f \in F :
          d["privacyEgress"][i][f] = e["privacyEgress"][i][f]
    <3> HIDE DEF F
    <3> QED
      BY <1>2, <2>1, <2>2, <2>3
  <2> QED
    BY <2>4, <2>5 DEF AlikePrivacy
<1> QED
  BY <1>3, <1>4, <1>5, <1>6, <1>7, <1>8, <1>9, <1>10 DEF Alike

LEMMA AlikeBack ==
  ASSUME NEW d, NEW e, Alike(d, e)
  PROVE  Alike(e, d)
<1>1. AlikeParts(e, d) /\ AlikeOwners(e, d)
  BY DEF Alike, AlikeParts, AlikeOwners
<1>2. AlikeAuthorities(e, d)
  BY DEF Alike, AlikeAuthorities
<1>3. AlikeReceipts(e, d)
  BY DEF Alike, AlikeReceipts
<1>4. AlikeGates(e, d)
  BY DEF Alike, AlikeGates
<1>5. AlikeCredentials(e, d)
  BY DEF Alike, AlikeCredentials
<1>6. AlikeRules(e, d)
  BY DEF Alike, AlikeRules
<1>7. AlikePrivacy(e, d)
  BY DEF Alike, AlikePrivacy
<1> QED
  BY <1>1, <1>2, <1>3, <1>4, <1>5, <1>6, <1>7 DEF Alike

(***************************************************************************)
(* Then the same receipts are named, gathered and asked for.               *)
(***************************************************************************)

LEMMA AlikeEvidence ==
  ASSUME NEW d, NEW e, ValidContract(d), Alike(d, e)
  PROVE  IssuerEvidence(d) = IssuerEvidence(e)
<1>1. AlikeAuthorities(d, e) /\ AlikeReceipts(d, e)
  BY DEF Alike
<1>2. \A r \in DOMAIN d.receipts : d.receipts[r].issuerAuthorityRef \in DOMAIN d.authorities
  BY DEF ValidContract, ReceiptsOK
<1>3. DOMAIN d.receipts = DOMAIN e.receipts
  BY <1>1 DEF AlikeReceipts
<1>4. \A r \in DOMAIN d.receipts :
        d.authorities[d.receipts[r].issuerAuthorityRef].evidenceRefs
          = e.authorities[e.receipts[r].issuerAuthorityRef].evidenceRefs
  BY <1>1, <1>2 DEF AlikeAuthorities, AlikeReceipts
<1> QED
  BY <1>3, <1>4 DEF IssuerEvidence

LEMMA AlikeSupport ==
  ASSUME NEW d, NEW e, ValidContract(d), Alike(d, e), NEW roots
  PROVE  Support(d, roots) = Support(e, roots)
<1>1. IssuerEvidence(d) = IssuerEvidence(e) /\ DOMAIN d.receipts = DOMAIN e.receipts
  BY AlikeEvidence DEF Alike, AlikeReceipts
<1> DEFINE At(x) == (CHOOSE steps : steps = StepsOf(IssuerEvidence(x), roots,
                       Cardinality(DOMAIN x.receipts), steps))[Cardinality(DOMAIN x.receipts)]
<1>2. \A x : Support(x, roots) = At(x)
  BY Zenon DEF Support, StepsOf
<1>3. At(d) = At(e)
  BY <1>1, Zenon
<1> QED
  BY <1>2, <1>3

LEMMA AlikeNames ==
  ASSUME NEW d, NEW e, ValidContract(d), Alike(d, e), NEW o \in DOMAIN d.operations
  PROVE  /\ GatesOf(d, o) = GatesOf(e, o)
         /\ GateReceipts(d, o) = GateReceipts(e, o)
         /\ NamedAuthorities(d, o) = NamedAuthorities(e, o)
         /\ NamedReceipts(d, o) = NamedReceipts(e, o)
<1> USE DEF Alike
<1>1. d.operations = e.operations /\ d.cleanupRules = e.cleanupRules
  BY DEF AlikeParts
<1>2. GatesOf(d, o) = GatesOf(e, o) /\ GatesOf(d, o) \subseteq DOMAIN d.gates
  BY DEF AlikeGates, GatesOf
<1>3. GateReceipts(d, o) = GateReceipts(e, o)
  BY <1>2 DEF AlikeGates, GateReceipts
<1>4. Applicable(d.privacyEgress, o) = Applicable(e.privacyEgress, o)
  BY DEF AlikePrivacy, Applicable
<1>5. NamedAuthorities(d, o) = NamedAuthorities(e, o)
  <2> DEFINE ruled(x) == UNION {x.privacyEgress[p].requiredAuthorityRefs : p \in Applicable(x.privacyEgress, o)}
  <2>1. \A x : NamedAuthorities(x, o) =
          x.operations[o].requiredAuthorityRefs
          \cup {q.requiredAuthorityRef : q \in x.operations[o].credentialRequirements}
          \cup ruled(x)
          \cup (IF x.operations[o].invocationBinding = None THEN {}
                ELSE {x.operations[o].invocationBinding.authorityRef})
    BY Zenon DEF NamedAuthorities
  <2>2. ruled(d) = ruled(e)
    BY <1>4 DEF AlikePrivacy, Applicable
  <2> HIDE DEF ruled
  <2> QED
    BY <1>1, <2>1, <2>2
<1>6. CredentialReceipts(d, o) = CredentialReceipts(e, o)
  <2>1. \A q \in d.operations[o].credentialRequirements : q.credentialRef \in DOMAIN d.credentials
    BY DEF ValidContract, OperationRefsOK, CredentialRequirementsOK
  <2> QED
    BY <1>1, <2>1 DEF AlikeCredentials, CredentialReceipts
<1>7. AuthorityReceipts(d, o) = AuthorityReceipts(e, o)
  <2>1. \A a \in NamedAuthorities(d, o) :
          d.authorities[a].evidenceRefs = e.authorities[a].evidenceRefs
    BY NamedAuthoritiesAreKnown DEF AlikeAuthorities
  <2> QED
    BY <1>5, <2>1 DEF AuthorityReceipts
<1>8. CleanupReceipts(d, o) = CleanupReceipts(e, o)
  BY <1>1 DEF CleanupReceipts
<1>9. Bounded(d) = Bounded(e) /\ ExclusionReceipts(d, o) = ExclusionReceipts(e, o)
  BY <1>1 DEF Bounded, Boundary, ExclusionReceipts
<1>10. NamedReceipts(d, o) = NamedReceipts(e, o)
  BY <1>1, <1>3, <1>6, <1>7, <1>8, <1>9, NamedByParts
<1> QED
  BY <1>2, <1>3, <1>5, <1>10

LEMMA AlikePrerequisites ==
  ASSUME NEW d, NEW e, ValidContract(d), Alike(d, e), NEW o \in DOMAIN d.operations
  PROVE  PrerequisiteReceipts(d, o) = PrerequisiteReceipts(e, o)
BY AlikeEvidence, AlikeNames DEF PrerequisiteReceipts

LEMMA AlikeScope ==
  ASSUME NEW d, NEW e, ValidContract(d), Alike(d, e), NEW o \in DOMAIN d.operations
  PROVE  ScopeDiagnostics(d, o) = ScopeDiagnostics(e, o)
<1>1. d.operations = e.operations
  BY DEF Alike, AlikeParts
<1>2. \A r : EvidenceGates(d, r) = EvidenceGates(e, r) /\ EvidenceGates(d, r) \subseteq DOMAIN d.gates
  BY DEF Alike, AlikeGates, EvidenceGates
<1>3. \A g \in DOMAIN d.gates : d.gates[g].blocks = e.gates[g].blocks
  BY DEF Alike, AlikeGates
<1>4. \A c \in DOMAIN d.operations : PrerequisiteReceipts(d, c) = PrerequisiteReceipts(e, c)
  BY AlikePrerequisites
<1>5. \A g \in DOMAIN d.gates : \A r : CoversScope(d, g, r, o) <=> CoversScope(e, g, r, o)
  BY <1>1, <1>3, <1>4 DEF CoversScope
<1> DEFINE Of(x, r) == Diagnose(EvidenceGates(x, r) = {}, "EVIDENCE_SCOPE_GATE_MISSING", r)
                       \cup Diagnose(/\ EvidenceGates(x, r) # {}
                                     /\ ~\E g \in EvidenceGates(x, r) : CoversScope(x, g, r, o),
                                     "EVIDENCE_SCOPE_GATE_INCOMPLETE", r)
<1>6. \A x : ScopeDiagnostics(x, o) =
        IF x.operations[o].executionClass # "runtime" THEN {}
        ELSE UNION {Of(x, r) : r \in PrerequisiteReceipts(x, o)}
  BY Zenon DEF ScopeDiagnostics
<1>7. \A r : Of(d, r) = Of(e, r)
  BY <1>2, <1>5 DEF Diagnose
<1> HIDE DEF Of
<1> QED
  BY <1>1, <1>4, <1>6, <1>7

(***************************************************************************)
(* When e's facts are no worse than d's, or the diagnosis x is about the   *)
(* wiring, x is a blocker under e only if it is one under d.               *)
(***************************************************************************)

\* Nothing but receipts is worse in e than in d.
NoWorse(d, e) ==
  /\ \A w \in DOMAIN d.owners : Resolved(d, w) => Resolved(e, w)
  /\ \A a \in DOMAIN d.authorities :
       d.authorities[a].status = "established" => e.authorities[a].status = "established"
  /\ \A g \in DOMAIN d.gates :
       /\ e.gates[g].status = "unsatisfied" => d.gates[g].status = "unsatisfied"
       /\ e.gates[g].status = "unresolved" => d.gates[g].status = "unresolved"
  /\ \A c \in DOMAIN d.credentials :
       /\ d.credentials[c].readiness = "present" => e.credentials[c].readiness = "present"
       /\ d.credentials[c].scopeVerification = "verified"
            => e.credentials[c].scopeVerification = "verified"
  /\ \A p \in DOMAIN d.privacyEgress :
       /\ e.privacyEgress[p].status = "unresolved" => d.privacyEgress[p].status = "unresolved"
       /\ e.privacyEgress[p].status = "denied" => d.privacyEgress[p].status = "denied"
  /\ \A r \in DOMAIN d.resourceRules : e.resourceRules[r].status = d.resourceRules[r].status

Roots(d, o) == NamedReceipts(d, o) \cup GateReceipts(d, o)

Follows(d, e, o, t, u, x) ==
  /\ ValidContract(d) /\ ValidContract(e) /\ Alike(d, e)
  /\ \/ /\ x[1] \in IntegrationBlockerCodes
        /\ \A r \in Roots(d, o) :
             x \in ReceiptDiagnostics(e, r, o) => x \in ReceiptDiagnostics(d, r, o)
     \/ /\ NoWorse(d, e) /\ t = u
        /\ \A r \in Roots(d, o) : ReceiptDiagnostics(e, r, o) \subseteq ReceiptDiagnostics(d, r, o)

LEMMA FollowsGives ==
  ASSUME NEW d, NEW e, NEW o, NEW t, NEW u, NEW x, Follows(d, e, o, t, u, x)
  PROVE  /\ ValidContract(d) /\ ValidContract(e) /\ Alike(d, e)
         /\ \A r \in Roots(d, o) :
              x \in ReceiptDiagnostics(e, r, o) => x \in ReceiptDiagnostics(d, r, o)
         /\ x[1] \notin IntegrationBlockerCodes =>
              /\ NoWorse(d, e) /\ t = u
              /\ \A r \in Roots(d, o) :
                   ReceiptDiagnostics(e, r, o) \subseteq ReceiptDiagnostics(d, r, o)
BY DEF Follows

LEMMA EstablishedFollows ==
  ASSUME NEW d, NEW e, ValidContract(d), Alike(d, e), NoWorse(d, e), NEW a \in DOMAIN d.authorities,
         Established(d, a)
  PROVE  Established(e, a)
<1>1. d.authorities[a].ownerRef \in DOMAIN d.owners
  BY DEF ValidContract, AuthoritiesOK
<1>2. d.authorities[a].ownerRef = e.authorities[a].ownerRef
  BY DEF Alike, AlikeAuthorities
<1> QED
  BY <1>1, <1>2 DEF Established, NoWorse

LEMMA EvidenceFollows ==
  ASSUME NEW d, NEW e, NEW o, NEW t, NEW u, NEW x, Follows(d, e, o, t, u, x),
         NEW refs, refs \subseteq Roots(d, o), x \in Evidence(e, refs, o)
  PROVE  x \in Evidence(d, refs, o)
<1>1. PICK r \in refs : x \in ReceiptDiagnostics(e, r, o)
  BY EvidenceByReceipts
<1>2. x \in ReceiptDiagnostics(d, r, o)
  BY <1>1, FollowsGives
<1> QED
  BY <1>1, <1>2, EvidenceByReceipts

LEMMA BoundaryFollows ==
  ASSUME NEW d, NEW e, Alike(d, e), NEW o
  PROVE  BoundaryDiagnostics(d, o) = BoundaryDiagnostics(e, o)
<1>1. d.operations = e.operations
  BY DEF Alike, AlikeParts
<1>2. Bounded(d) = Bounded(e)
  BY <1>1 DEF Bounded, Boundary
<1> QED
  BY <1>1, <1>2, Zenon DEF BoundaryDiagnostics

LEMMA BindingFollows ==
  ASSUME NEW d, NEW e, NEW o \in DOMAIN d.operations, NEW t, NEW u, NEW x,
         Follows(d, e, o, t, u, x), x \in BindingDiagnostics(e, o)
  PROVE  x \in BindingDiagnostics(d, o)
<1> DEFINE bind == d.operations[o].invocationBinding
<1>1. ValidContract(d) /\ Alike(d, e)
  BY FollowsGives
<1>2. d.operations = e.operations
  BY <1>1 DEF Alike, AlikeParts
<1>3. x[1] \notin IntegrationBlockerCodes => NoWorse(d, e)
  BY FollowsGives
<1>4. CASE d.operations[o].executionClass # "runtime" \/ bind = None
  BY <1>2, <1>4 DEF BindingDiagnostics
<1>5. CASE d.operations[o].executionClass = "runtime" /\ bind # None
  <2>1. BindingOK(d, d.operations[o])
    BY <1>1 DEF ValidContract, OperationRefsOK
  <2>2. bind.principalRef \in DOMAIN d.owners /\ bind.authorityRef \in DOMAIN d.authorities
    BY <1>1, <1>5, <2>1, NamedAuthoritiesAreKnown DEF BindingOK, NamedAuthorities
  <2>3. d.authorities[bind.authorityRef].authorizedPrincipalRefs
          = e.authorities[bind.authorityRef].authorizedPrincipalRefs
    BY <1>1, <2>2 DEF Alike, AlikeAuthorities
  <2> DEFINE B(y) == Diagnose(~Resolved(y, bind.principalRef), "INVOCATION_PRINCIPAL_UNRESOLVED",
                              bind.principalRef)
             C(y) == Diagnose(~Established(y, bind.authorityRef), "INVOCATION_AUTHORITY_UNRESOLVED",
                              bind.authorityRef)
             D(y) == Diagnose(bind.principalRef \notin
                                y.authorities[bind.authorityRef].authorizedPrincipalRefs,
                              "INVOCATION_PRINCIPAL_UNAUTHORIZED", bind.authorityRef)
  <2>4. /\ BindingDiagnostics(d, o) = B(d) \cup C(d) \cup D(d)
        /\ BindingDiagnostics(e, o) = B(e) \cup C(e) \cup D(e)
    BY <1>2, <1>5 DEF BindingDiagnostics
  <2>5. /\ "INVOCATION_PRINCIPAL_UNRESOLVED" \notin IntegrationBlockerCodes
        /\ "INVOCATION_AUTHORITY_UNRESOLVED" \notin IntegrationBlockerCodes
    BY DEF IntegrationBlockerCodes
  <2> HIDE DEF bind
  <2>6. CASE x \in B(e)
    <3>1. x[1] = "INVOCATION_PRINCIPAL_UNRESOLVED" => (Resolved(d, bind.principalRef) => Resolved(e, bind.principalRef))
      BY <1>3, <2>2, <2>5 DEF NoWorse
    <3>2. x \in B(d)
      BY <2>6, <3>1 DEF Diagnose
    <3> QED
      BY <2>4, <3>2
  <2>7. CASE x \in C(e)
    <3>1. x[1] = "INVOCATION_AUTHORITY_UNRESOLVED" =>
            (Established(d, bind.authorityRef) => Established(e, bind.authorityRef))
      BY <1>1, <1>3, <2>2, <2>5, EstablishedFollows
    <3>2. x \in C(d)
      BY <2>7, <3>1 DEF Diagnose
    <3> QED
      BY <2>4, <3>2
  <2>8. CASE x \in D(e)
    BY <2>3, <2>4, <2>8 DEF Diagnose
  <2> QED
    BY <2>4, <2>6, <2>7, <2>8
<1> QED
  BY <1>4, <1>5

LEMMA GateFollows ==
  ASSUME NEW d, NEW e, NEW o \in DOMAIN d.operations, NEW t, NEW u, NEW x,
         Follows(d, e, o, t, u, x), NEW g \in GatesOf(d, o), x \in GateDiagnostics(e, g, o, u)
  PROVE  x \in GateDiagnostics(d, g, o, t)
<1> DEFINE gate == d.gates[g]
           B(y) == Diagnose(~Resolved(y, gate.ownerRef), "GATE_OWNER_UNRESOLVED", g)
           C(y) == Diagnose(y.gates[g].status = "unsatisfied", "GATE_UNSATISFIED", g)
           D(y) == Diagnose(y.gates[g].status = "unresolved", "GATE_UNRESOLVED", g)
           E(y) == Evidence(y, gate.requiredReceiptRefs, o)
           T(v) == TimeDiagnostics(gate.timeBoundary, g, v)
<1>1. ValidContract(d) /\ Alike(d, e)
  BY FollowsGives
<1>2. g \in DOMAIN d.gates
  BY DEF GatesOf
<1>3. /\ gate.ownerRef = e.gates[g].ownerRef /\ gate.timeBoundary = e.gates[g].timeBoundary
      /\ gate.requiredReceiptRefs = e.gates[g].requiredReceiptRefs
  BY <1>1, <1>2 DEF Alike, AlikeGates
<1>4. gate.ownerRef \in DOMAIN d.owners
  BY <1>1, <1>2 DEF ValidContract, GatesOK
<1>5. x[1] \notin IntegrationBlockerCodes => NoWorse(d, e) /\ t = u
  BY FollowsGives
<1>6. /\ GateDiagnostics(d, g, o, t) = B(d) \cup C(d) \cup D(d) \cup E(d) \cup T(t)
      /\ GateDiagnostics(e, g, o, u) = B(e) \cup C(e) \cup D(e) \cup E(e) \cup T(u)
  BY <1>3 DEF GateDiagnostics
<1>7. {"GATE_OWNER_UNRESOLVED", "GATE_UNSATISFIED", "GATE_UNRESOLVED", "TIME_CLOCK_UNSUPPORTED",
       "TIME_FORMAT_UNRESOLVED", "TIME_NOT_REACHED", "TIME_RECORDED"} \cap IntegrationBlockerCodes = {}
  BY DEF IntegrationBlockerCodes
<1>8. gate.requiredReceiptRefs \subseteq Roots(d, o)
  BY DEF Roots, GateReceipts
<1> HIDE DEF gate
<1>9. CASE x \in B(e)
  <2>1. x[1] = "GATE_OWNER_UNRESOLVED" => (Resolved(d, gate.ownerRef) => Resolved(e, gate.ownerRef))
    BY <1>4, <1>5, <1>7 DEF NoWorse
  <2>2. x \in B(d)
    BY <1>9, <2>1 DEF Diagnose
  <2> QED
    BY <1>6, <2>2
<1>10. CASE x \in C(e)
  <2>1. x[1] = "GATE_UNSATISFIED" =>
          (e.gates[g].status = "unsatisfied" => d.gates[g].status = "unsatisfied")
    BY <1>2, <1>5, <1>7 DEF NoWorse
  <2>2. x \in C(d)
    BY <1>10, <2>1 DEF Diagnose
  <2> QED
    BY <1>6, <2>2
<1>11. CASE x \in D(e)
  <2>1. x[1] = "GATE_UNRESOLVED" =>
          (e.gates[g].status = "unresolved" => d.gates[g].status = "unresolved")
    BY <1>2, <1>5, <1>7 DEF NoWorse
  <2>2. x \in D(d)
    BY <1>11, <2>1 DEF Diagnose
  <2> QED
    BY <1>6, <2>2
<1>12. CASE x \in E(e)
  <2>1. x \in E(d)
    BY <1>8, <1>12, EvidenceFollows
  <2> QED
    BY <1>6, <2>1
<1>13. CASE x \in T(u)
  <2>1. x[1] \in {"TIME_CLOCK_UNSUPPORTED", "TIME_FORMAT_UNRESOLVED", "TIME_NOT_REACHED",
                  "TIME_RECORDED"}
    BY <1>13 DEF TimeDiagnostics, Diagnose
  <2>2. t = u
    BY <1>5, <1>7, <2>1
  <2> QED
    BY <1>6, <1>13, <2>2
<1> HIDE DEF B, C, D, E, T
<1> QED
  BY <1>6, <1>9, <1>10, <1>11, <1>12, <1>13

LEMMA CredentialFollows ==
  ASSUME NEW d, NEW e, NEW o \in DOMAIN d.operations, NEW t, NEW u, NEW x,
         Follows(d, e, o, t, u, x), NEW q \in d.operations[o].credentialRequirements,
         x \in CredentialDiagnostics(e, q, o)
  PROVE  x \in CredentialDiagnostics(d, q, o)
<1> DEFINE c == q.credentialRef
           known == d.credentials[c]
           bind == d.operations[o].invocationBinding
           A(y) == Diagnose(y.credentials[c].readiness # "present", "CREDENTIAL_NOT_PRESENT", c)
           B(y) == Diagnose(y.credentials[c].scopeVerification # "verified",
                            "CREDENTIAL_SCOPE_UNVERIFIED", c)
           C == Diagnose(known.purpose # q.purpose \/ q.consumer \notin known.authorizedConsumers,
                         "CREDENTIAL_SCOPE_MISMATCH", c)
           D == Diagnose(bind # None /\ bind.principalRef \notin known.authorizedPrincipalRefs,
                         "CREDENTIAL_PRINCIPAL_MISMATCH", c)
           E == Diagnose(\/ q.requiredAuthorityRef \notin known.authorityGrantedRefs
                         \/ q.requiredAuthorityRef \in known.authorityNotGrantedRefs,
                         "CREDENTIAL_AUTHORITY_MISMATCH", c)
           F(y) == Diagnose(~Established(y, q.requiredAuthorityRef), "CREDENTIAL_AUTHORITY_UNRESOLVED", c)
           G(y) == Evidence(y, known.evidenceRefs, o)
<1>1. ValidContract(d) /\ Alike(d, e)
  BY FollowsGives
<1>2. d.operations = e.operations
  BY <1>1 DEF Alike, AlikeParts
<1>3. c \in DOMAIN d.credentials
  BY <1>1 DEF ValidContract, OperationRefsOK, CredentialRequirementsOK
<1>4. /\ known.purpose = e.credentials[c].purpose
      /\ known.authorizedConsumers = e.credentials[c].authorizedConsumers
      /\ known.authorizedPrincipalRefs = e.credentials[c].authorizedPrincipalRefs
      /\ known.authorityGrantedRefs = e.credentials[c].authorityGrantedRefs
      /\ known.authorityNotGrantedRefs = e.credentials[c].authorityNotGrantedRefs
      /\ known.evidenceRefs = e.credentials[c].evidenceRefs
  BY <1>1, <1>3 DEF Alike, AlikeCredentials
<1>5. q.requiredAuthorityRef \in DOMAIN d.authorities
  BY <1>1, NamedAuthoritiesAreKnown DEF NamedAuthorities
<1>6. x[1] \notin IntegrationBlockerCodes => NoWorse(d, e)
  BY FollowsGives
<1>7. /\ CredentialDiagnostics(d, q, o) = A(d) \cup B(d) \cup C \cup D \cup E \cup F(d) \cup G(d)
      /\ CredentialDiagnostics(e, q, o) = A(e) \cup B(e) \cup C \cup D \cup E \cup F(e) \cup G(e)
  BY <1>2, <1>4 DEF CredentialDiagnostics
<1>8. {"CREDENTIAL_NOT_PRESENT", "CREDENTIAL_SCOPE_UNVERIFIED", "CREDENTIAL_AUTHORITY_UNRESOLVED"}
        \cap IntegrationBlockerCodes = {}
  BY DEF IntegrationBlockerCodes
<1>9. known.evidenceRefs \subseteq Roots(d, o)
  BY NamedByParts DEF Roots, CredentialReceipts
<1> HIDE DEF known, C, D, E, c
<1>10. CASE x \in A(e)
  <2>1. x[1] = "CREDENTIAL_NOT_PRESENT" =>
          (d.credentials[c].readiness = "present" => e.credentials[c].readiness = "present")
    BY <1>3, <1>6, <1>8 DEF NoWorse
  <2>2. x \in A(d)
    BY <1>10, <2>1 DEF Diagnose
  <2> QED
    BY <1>7, <2>2
<1>11. CASE x \in B(e)
  <2>1. x[1] = "CREDENTIAL_SCOPE_UNVERIFIED" =>
          (d.credentials[c].scopeVerification = "verified"
             => e.credentials[c].scopeVerification = "verified")
    BY <1>3, <1>6, <1>8 DEF NoWorse
  <2>2. x \in B(d)
    BY <1>11, <2>1 DEF Diagnose
  <2> QED
    BY <1>7, <2>2
<1>12. CASE x \in F(e)
  <2>1. x[1] = "CREDENTIAL_AUTHORITY_UNRESOLVED" =>
          (Established(d, q.requiredAuthorityRef) => Established(e, q.requiredAuthorityRef))
    BY <1>1, <1>5, <1>6, <1>8, EstablishedFollows
  <2>2. x \in F(d)
    BY <1>12, <2>1 DEF Diagnose
  <2> QED
    BY <1>7, <2>2
<1>13. CASE x \in G(e)
  <2>1. x \in G(d)
    BY <1>9, <1>13, EvidenceFollows
  <2> QED
    BY <1>7, <2>1
<1> HIDE DEF A, B, F, G
<1> QED
  BY <1>7, <1>10, <1>11, <1>12, <1>13

LEMMA AuthorityFollows ==
  ASSUME NEW d, NEW e, NEW o \in DOMAIN d.operations, NEW t, NEW u, NEW x,
         Follows(d, e, o, t, u, x), NEW a \in NamedAuthorities(d, o),
         NEW code \in {"AUTHORITY_UNRESOLVED", "PRIVACY_AUTHORITY_UNRESOLVED"},
         x \in AuthorityDiagnostics(e, a, o, code)
  PROVE  x \in AuthorityDiagnostics(d, a, o, code)
<1> DEFINE B(y) == Diagnose(~Established(y, a), code, a)
           C(y) == Evidence(y, Elements(d.authorities[a].evidenceRefs), o)
<1>1. ValidContract(d) /\ Alike(d, e)
  BY FollowsGives
<1>2. a \in DOMAIN d.authorities
  BY <1>1, NamedAuthoritiesAreKnown
<1>3. d.authorities[a].evidenceRefs = e.authorities[a].evidenceRefs
  BY <1>1, <1>2 DEF Alike, AlikeAuthorities
<1>4. /\ AuthorityDiagnostics(d, a, o, code) = B(d) \cup C(d)
      /\ AuthorityDiagnostics(e, a, o, code) = B(e) \cup C(e)
  BY <1>3 DEF AuthorityDiagnostics
<1>5. Elements(d.authorities[a].evidenceRefs) \subseteq Roots(d, o)
  <2>1. Elements(d.authorities[a].evidenceRefs) \subseteq AuthorityReceipts(d, o)
    BY DEF AuthorityReceipts
  <2> QED
    BY <2>1, NamedByParts DEF Roots
<1>6. code \notin IntegrationBlockerCodes
  BY DEF IntegrationBlockerCodes
<1>7. CASE x \in B(e)
  <2>1. x[1] = code => (Established(d, a) => Established(e, a))
    BY <1>1, <1>2, <1>6, FollowsGives, EstablishedFollows
  <2>2. x \in B(d)
    BY <1>7, <2>1 DEF Diagnose
  <2> QED
    BY <1>4, <2>2
<1>8. CASE x \in C(e)
  BY <1>4, <1>5, <1>8, EvidenceFollows
<1> QED
  BY <1>4, <1>7, <1>8

LEMMA ResourceFollows ==
  ASSUME NEW d, NEW e, NEW o \in DOMAIN d.operations, NEW t, NEW u, NEW x,
         Follows(d, e, o, t, u, x), NEW r \in DOMAIN d.resourceRules,
         x \in ResourceDiagnostics(e.resourceRules[r], r)
  PROVE  x \in ResourceDiagnostics(d.resourceRules[r], r)
<1>1. Alike(d, e)
  BY FollowsGives
<1>2. /\ d.resourceRules[r].observedAvailable = e.resourceRules[r].observedAvailable
      /\ d.resourceRules[r].minimum = e.resourceRules[r].minimum
      /\ d.resourceRules[r].expectedAllocation = e.resourceRules[r].expectedAllocation
  BY <1>1 DEF Alike, AlikeRules
<1>3. x[1] \in {"RESOURCE_UNRESOLVED", "RESOURCE_INSUFFICIENT"}
  BY DEF ResourceDiagnostics, Diagnose
<1>4. {"RESOURCE_UNRESOLVED", "RESOURCE_INSUFFICIENT"} \cap IntegrationBlockerCodes = {}
  BY DEF IntegrationBlockerCodes
<1>5. d.resourceRules[r].status = e.resourceRules[r].status
  BY <1>3, <1>4, FollowsGives DEF NoWorse
<1>6. ResourceDiagnostics(d.resourceRules[r], r) = ResourceDiagnostics(e.resourceRules[r], r)
  BY <1>2, <1>5, Zenon DEF ResourceDiagnostics
<1> QED
  BY <1>6

LEMMA PrivacyFollows ==
  ASSUME NEW d, NEW e, NEW o \in DOMAIN d.operations, NEW t, NEW u, NEW x,
         Follows(d, e, o, t, u, x), NEW p \in Applicable(d.privacyEgress, o),
         x \in PrivacyDiagnostics(e, p, o)
  PROVE  x \in PrivacyDiagnostics(d, p, o)
<1>1. Alike(d, e)
  BY FollowsGives
<1>2. p \in DOMAIN d.privacyEgress
  BY DEF Applicable
<1>3. d.privacyEgress[p].requiredAuthorityRefs = e.privacyEgress[p].requiredAuthorityRefs
  BY <1>1, <1>2 DEF Alike, AlikePrivacy
<1>4. {"PRIVACY_UNRESOLVED", "PRIVACY_DENIED"} \cap IntegrationBlockerCodes = {}
  BY DEF IntegrationBlockerCodes
<1>5. x[1] \notin IntegrationBlockerCodes =>
        /\ e.privacyEgress[p].status = "unresolved" => d.privacyEgress[p].status = "unresolved"
        /\ e.privacyEgress[p].status = "denied" => d.privacyEgress[p].status = "denied"
  BY <1>2, FollowsGives DEF NoWorse
<1>6. CASE x \in Diagnose(e.privacyEgress[p].status = "unresolved", "PRIVACY_UNRESOLVED", p)
  <2>1. x \in Diagnose(d.privacyEgress[p].status = "unresolved", "PRIVACY_UNRESOLVED", p)
    BY <1>4, <1>5, <1>6 DEF Diagnose
  <2> QED
    BY <2>1, PrivacyByParts
<1>7. CASE x \in Diagnose(e.privacyEgress[p].status = "denied", "PRIVACY_DENIED", p)
  <2>1. x \in Diagnose(d.privacyEgress[p].status = "denied", "PRIVACY_DENIED", p)
    BY <1>4, <1>5, <1>7 DEF Diagnose
  <2> QED
    BY <2>1, PrivacyByParts
<1>8. CASE \E a \in e.privacyEgress[p].requiredAuthorityRefs :
             x \in AuthorityDiagnostics(e, a, o, "PRIVACY_AUTHORITY_UNRESOLVED")
  <2>1. PICK a \in d.privacyEgress[p].requiredAuthorityRefs :
          x \in AuthorityDiagnostics(e, a, o, "PRIVACY_AUTHORITY_UNRESOLVED")
    BY <1>3, <1>8
  <2>2. a \in NamedAuthorities(d, o)
    BY <2>1 DEF NamedAuthorities
  <2>3. x \in AuthorityDiagnostics(d, a, o, "PRIVACY_AUTHORITY_UNRESOLVED")
    BY <2>1, <2>2, AuthorityFollows
  <2> QED
    BY <2>1, <2>3, PrivacyByParts
<1> QED
  BY <1>6, <1>7, <1>8, PrivacyByParts

LEMMA CleanupFollows ==
  ASSUME NEW d, NEW e, NEW o \in DOMAIN d.operations, NEW t, NEW u, NEW x,
         Follows(d, e, o, t, u, x), x \in CleanupDiagnostics(e, o)
  PROVE  x \in CleanupDiagnostics(d, o)
<1>1. Alike(d, e)
  BY FollowsGives
<1>2. d.operations = e.operations /\ d.cleanupRules = e.cleanupRules
  BY <1>1 DEF Alike, AlikeParts
<1>3. CleanupRules(d, o) = CleanupRules(e, o) /\ CleanupReceipts(d, o) = CleanupReceipts(e, o)
  BY <1>2 DEF CleanupRules, CleanupReceipts
<1>4. d.operations[o].kind = "cleanup"
  BY <1>2, CleanupByParts
<1>5. CleanupReceipts(d, o) \subseteq Roots(d, o)
  BY <1>4, NamedByParts DEF Roots
<1>6. CASE x \in Diagnose(CleanupRules(e, o) = {}, "CLEANUP_RULE_MISSING", o)
  BY <1>3, <1>4, <1>6, CleanupByParts
<1>7. CASE \E c \in CleanupRules(e, o) :
             ~e.cleanupRules[c].regenerable /\ x = <<"CLEANUP_NOT_REGENERABLE", c>>
  BY <1>2, <1>3, <1>4, <1>7, CleanupByParts
<1>8. ASSUME NEW r \in CleanupReceipts(e, o), x \in ReceiptDiagnostics(e, r, o)
      PROVE  x \in CleanupDiagnostics(d, o)
  <2>1. r \in CleanupReceipts(d, o) /\ x \in ReceiptDiagnostics(d, r, o)
    BY <1>3, <1>5, <1>8, FollowsGives
  <2> QED
    BY <1>4, <2>1, CleanupByParts
<1>9. ASSUME NEW r \in CleanupReceipts(e, o),
             x \in Diagnose(ReceiptDiagnostics(e, r, o) # {}, "CLEANUP_CUSTODY_UNSATISFIED", r)
      PROVE  x \in CleanupDiagnostics(d, o)
  <2>1. x[1] = "CLEANUP_CUSTODY_UNSATISFIED" /\ ReceiptDiagnostics(e, r, o) # {}
    BY <1>9 DEF Diagnose
  <2>2. x[1] \notin IntegrationBlockerCodes
    BY <2>1 DEF IntegrationBlockerCodes
  <2>3. r \in CleanupReceipts(d, o) /\ ReceiptDiagnostics(e, r, o) \subseteq ReceiptDiagnostics(d, r, o)
    BY <1>3, <1>5, <2>2, FollowsGives
  <2>4. x \in Diagnose(ReceiptDiagnostics(d, r, o) # {}, "CLEANUP_CUSTODY_UNSATISFIED", r)
    BY <1>9, <2>1, <2>3 DEF Diagnose
  <2> QED
    BY <1>4, <2>3, <2>4, CleanupByParts
<1> QED
  BY <1>6, <1>7, <1>8, <1>9, CleanupByParts

LEMMA BlockersFollow ==
  ASSUME NEW d, NEW e, NEW o \in DOMAIN d.operations, NEW t, NEW u, NEW x,
         Follows(d, e, o, t, u, x), x \in Blockers(e, o, u)
  PROVE  x \in Blockers(d, o, t)
<1>1. ValidContract(d) /\ Alike(d, e)
  BY FollowsGives
<1>2. /\ d.operations = e.operations /\ d.assessment = e.assessment
      /\ d.ownerDecisions = e.ownerDecisions
  BY <1>1 DEF Alike, AlikeParts
<1>3. CASE x \in BoundaryDiagnostics(e, o)
  <2>1. BoundaryDiagnostics(d, o) = BoundaryDiagnostics(e, o)
    BY <1>1, BoundaryFollows
  <2>2. x \in BoundaryDiagnostics(d, o)
    BY <1>3, <2>1
  <2> QED
    BY <2>2, BlockersByParts
<1>14. CASE x \in ScopeDiagnostics(e, o)
  <2>1. ScopeDiagnostics(d, o) = ScopeDiagnostics(e, o)
    BY <1>1, AlikeScope
  <2>2. x \in ScopeDiagnostics(d, o)
    BY <1>14, <2>1
  <2> QED
    BY <2>2, BlockersByParts
<1>4. CASE x \in BindingDiagnostics(e, o)
  BY <1>4, BindingFollows, BlockersByParts
<1>5. CASE \E g \in GatesOf(e, o) : x \in GateDiagnostics(e, g, o, u)
  <2>1. PICK g \in GatesOf(d, o) : x \in GateDiagnostics(e, g, o, u)
    BY <1>1, <1>5, AlikeNames
  <2>2. x \in GateDiagnostics(d, g, o, t)
    BY <2>1, GateFollows
  <2> QED
    BY <2>1, <2>2, BlockersByParts
<1>6. CASE \E q \in e.operations[o].credentialRequirements : x \in CredentialDiagnostics(e, q, o)
  <2>1. PICK q \in d.operations[o].credentialRequirements : x \in CredentialDiagnostics(e, q, o)
    BY <1>2, <1>6
  <2>2. x \in CredentialDiagnostics(d, q, o)
    BY <2>1, CredentialFollows
  <2> QED
    BY <2>1, <2>2, BlockersByParts
<1>7. CASE x \in Evidence(e, OwnReceipts(e, o), o)
  <2>1. OwnReceipts(e, o) = OwnReceipts(d, o)
    BY <1>1, <1>2, AlikeNames DEF OwnReceipts
  <2>2. OwnReceipts(d, o) \subseteq Roots(d, o)
    BY NamedByParts DEF OwnReceipts, Roots
  <2>3. x \in Evidence(d, OwnReceipts(d, o), o)
    BY <1>7, <2>1, <2>2, EvidenceFollows
  <2> QED
    BY <2>3, BlockersByParts
<1>8. CASE \E a \in e.operations[o].requiredAuthorityRefs :
             x \in AuthorityDiagnostics(e, a, o, "AUTHORITY_UNRESOLVED")
  <2>1. PICK a \in d.operations[o].requiredAuthorityRefs :
          x \in AuthorityDiagnostics(e, a, o, "AUTHORITY_UNRESOLVED")
    BY <1>2, <1>8
  <2>2. a \in NamedAuthorities(d, o)
    BY <2>1 DEF NamedAuthorities
  <2>3. x \in AuthorityDiagnostics(d, a, o, "AUTHORITY_UNRESOLVED")
    BY <2>1, <2>2, AuthorityFollows
  <2> QED
    BY <2>1, <2>3, BlockersByParts
<1>9. CASE x \in Diagnose(/\ e.assessment.verification # "caller-verified-index"
                          /\ e.operations[o].kind \in {"local-effect", "cleanup"},
                          "ASSESSMENT_UNVERIFIED", o)
  BY <1>2, <1>9, BlockersByParts
<1>10. CASE \E r \in Applicable(e.resourceRules, o) : x \in ResourceDiagnostics(e.resourceRules[r], r)
  <2>1. PICK r \in Applicable(e.resourceRules, o) : x \in ResourceDiagnostics(e.resourceRules[r], r)
    BY <1>10
  <2>2. r \in Applicable(d.resourceRules, o) /\ r \in DOMAIN d.resourceRules
    BY <1>1 DEF Applicable, Alike, AlikeRules
  <2>3. x \in ResourceDiagnostics(d.resourceRules[r], r)
    BY <2>1, <2>2, ResourceFollows
  <2> QED
    BY <2>2, <2>3, BlockersByParts
<1>11. CASE \E p \in Applicable(e.privacyEgress, o) : x \in PrivacyDiagnostics(e, p, o)
  <2>1. PICK p \in Applicable(e.privacyEgress, o) : x \in PrivacyDiagnostics(e, p, o)
    BY <1>11
  <2>2. p \in Applicable(d.privacyEgress, o)
    BY <1>1 DEF Applicable, Alike, AlikePrivacy
  <2>3. x \in PrivacyDiagnostics(d, p, o)
    BY <2>1, <2>2, PrivacyFollows
  <2> QED
    BY <2>2, <2>3, BlockersByParts
<1>12. CASE x \in CleanupDiagnostics(e, o)
  BY <1>12, CleanupFollows, BlockersByParts
<1>13. CASE \E y \in Decisions(e, o) : x = <<"OWNER_DECISION_UNRESOLVED", y>>
  <2>1. Decisions(d, o) = Decisions(e, o)
    BY <1>2 DEF Decisions
  <2> QED
    BY <1>13, <2>1, BlockersByParts
<1>15. BlockerParts(e, o, u, x)
  BY BlockersAreParts
<1> QED
  BY <1>3, <1>4, <1>5, <1>6, <1>7, <1>8, <1>9, <1>10, <1>11, <1>12, <1>13, <1>14, <1>15, Zenon
     DEF BlockerParts

(***************************************************************************)
(* What an edit of facts can and cannot do to the report.                  *)
(***************************************************************************)

\* The values of the facts preflight reads.
LEMMA StatesOfFacts ==
  ASSUME NEW d, ValidContract(d)
  PROVE  /\ \A w \in DOMAIN d.owners : d.owners[w].status \in {"resolved", "unresolved"}
         /\ \A a \in DOMAIN d.authorities : d.authorities[a].status \in {"established", "unresolved"}
         /\ \A g \in DOMAIN d.gates : d.gates[g].status \in {"satisfied", "unsatisfied", "unresolved"}
         /\ \A r \in DOMAIN d.resourceRules :
              d.resourceRules[r].status \in {"meets", "does-not-meet", "unknown"}
         /\ \A p \in DOMAIN d.privacyEgress :
              d.privacyEgress[p].status \in {"satisfied", "unresolved", "denied"}
         /\ \A c \in DOMAIN d.credentials :
              /\ d.credentials[c].readiness \in {"present", "absent", "unverified"}
              /\ d.credentials[c].scopeVerification \in {"verified", "unverified", "failed"}
         /\ \A r \in DOMAIN d.receipts :
              d.receipts[r].disposition
                \in {"missing", "template", "retained-unverified", "externally-accepted", "failed"}
<1>1. \A c \in DOMAIN States : \A field \in DOMAIN States[c] : \A i \in DOMAIN d[c] :
        d[c][i][field] \in States[c][field]
  BY DEF ValidContract, StatesOK
<1>2. {"owners", "authorities", "gates", "resourceRules", "privacyEgress"} \subseteq DOMAIN States
  BY DEF States
<1>3. /\ States["owners"] = [status |-> {"resolved", "unresolved"}]
      /\ States["authorities"] = [status |-> {"established", "unresolved"}]
      /\ States["gates"] = [status |-> {"satisfied", "unsatisfied", "unresolved"}]
      /\ States["resourceRules"] = [status |-> {"meets", "does-not-meet", "unknown"}]
      /\ States["privacyEgress"] = [status |-> {"satisfied", "unresolved", "denied"}]
  BY DEF States
<1>4. \A c \in {"owners", "authorities", "gates", "resourceRules", "privacyEgress"} :
        \A i \in DOMAIN d[c] : d[c][i]["status"] \in States[c]["status"]
  BY <1>1, <1>2, <1>3
<1>5. \A w \in DOMAIN d["owners"] : d["owners"][w]["status"] \in {"resolved", "unresolved"}
  BY <1>3, <1>4
<1>6. \A a \in DOMAIN d["authorities"] :
        d["authorities"][a]["status"] \in {"established", "unresolved"}
  BY <1>3, <1>4
<1>7. \A g \in DOMAIN d["gates"] :
        d["gates"][g]["status"] \in {"satisfied", "unsatisfied", "unresolved"}
  BY <1>3, <1>4
<1>8. \A r \in DOMAIN d["resourceRules"] :
        d["resourceRules"][r]["status"] \in {"meets", "does-not-meet", "unknown"}
  BY <1>3, <1>4
<1>9. \A p \in DOMAIN d["privacyEgress"] :
        d["privacyEgress"][p]["status"] \in {"satisfied", "unresolved", "denied"}
  BY <1>3, <1>4
<1>10. /\ "credentials" \in DOMAIN States
       /\ States["credentials"] = [readiness |-> {"present", "absent", "unverified"},
                                   scopeVerification |-> {"verified", "unverified", "failed"}]
  BY DEF States
<1>11. \A c \in DOMAIN d["credentials"] :
         /\ d["credentials"][c]["readiness"] \in {"present", "absent", "unverified"}
         /\ d["credentials"][c]["scopeVerification"] \in {"verified", "unverified", "failed"}
  BY <1>1, <1>10
<1>12. /\ "receipts" \in DOMAIN States
       /\ "disposition" \in DOMAIN States["receipts"]
       /\ States["receipts"]["disposition"] =
            {"missing", "template", "retained-unverified", "externally-accepted", "failed"}
  BY DEF States
<1>13. \A r \in DOMAIN d["receipts"] :
         d["receipts"][r]["disposition"]
           \in {"missing", "template", "retained-unverified", "externally-accepted", "failed"}
  BY <1>1, <1>12
<1> QED
  BY <1>5, <1>6, <1>7, <1>8, <1>9, <1>11, <1>13

LEMMA FactsByField ==
  ASSUME NEW d, NEW y
  PROVE  y \in Facts(d) <=>
           \E k \in FactFields : \E i \in DOMAIN d[k[1]] : y = <<k[1], i, k[2], d[k[1]][i][k[2]]>>
<1> DEFINE At(k) == {<<k[1], i, k[2], d[k[1]][i][k[2]]>> : i \in DOMAIN d[k[1]]}
<1>1. Facts(d) = UNION {At(k) : k \in FactFields}
  BY Zenon DEF Facts
<1>2. \A k : y \in At(k) <=> \E i \in DOMAIN d[k[1]] : y = <<k[1], i, k[2], d[k[1]][i][k[2]]>>
  OBVIOUS
<1> HIDE DEF At
<1> QED
  BY <1>1, <1>2

\* A fact that is not among the new ones is the old one.
LEMMA OldUnlessNew ==
  ASSUME NEW d, NEW e, NEW c, NEW f, <<c, f>> \in FactFields, NEW i \in DOMAIN e[c],
         <<c, i, f, e[c][i][f]>> \notin Facts(e) \ Facts(d)
  PROVE  e[c][i][f] = d[c][i][f]
<1> DEFINE y == <<c, i, f, e[c][i][f]>>
           k == <<c, f>>
<1>1. k \in FactFields /\ k[1] = c /\ k[2] = f
  OBVIOUS
<1>2. y \in Facts(e)
  BY <1>1, FactsByField
<1>3. y \in Facts(d)
  BY <1>2
<1>4. PICK l \in FactFields :
        \E j \in DOMAIN d[l[1]] : y = <<l[1], j, l[2], d[l[1]][j][l[2]]>>
  BY <1>3, FactsByField
<1>6. PICK j \in DOMAIN d[l[1]] : y = <<l[1], j, l[2], d[l[1]][j][l[2]]>>
  BY <1>4
<1>5. l[1] = c /\ j = i /\ l[2] = f /\ d[l[1]][j][l[2]] = e[c][i][f]
  BY <1>6
<1> QED
  BY <1>5

\* Facts that stay what they are or become settled make nothing worse.
LEMMA SettlingIsNoWorse ==
  ASSUME NEW d, NEW e, ValidContract(d), ValidContract(e), Alike(d, e),
         \A y \in Facts(e) \ Facts(d) : y[4] \in Settled
  PROVE  /\ NoWorse(d, e)
         /\ \A r \in DOMAIN d.receipts :
              d.receipts[r].disposition = "externally-accepted"
                => e.receipts[r].disposition = "externally-accepted"
<1>1. ASSUME NEW c, NEW f, <<c, f>> \in FactFields, NEW i \in DOMAIN e[c]
      PROVE  e[c][i][f] = d[c][i][f] \/ e[c][i][f] \in Settled
  <2> DEFINE y == <<c, i, f, e[c][i][f]>>
  <2>1. y[4] = e[c][i][f]
    OBVIOUS
  <2>2. CASE y \in Facts(e) \ Facts(d)
    BY <2>1, <2>2
  <2>3. CASE y \notin Facts(e) \ Facts(d)
    BY <1>1, <2>3, OldUnlessNew
  <2> QED
    BY <2>2, <2>3
<1>2. /\ <<"owners", "status">> \in FactFields /\ <<"authorities", "status">> \in FactFields
      /\ <<"receipts", "disposition">> \in FactFields /\ <<"gates", "status">> \in FactFields
      /\ <<"credentials", "readiness">> \in FactFields
      /\ <<"credentials", "scopeVerification">> \in FactFields
      /\ <<"privacyEgress", "status">> \in FactFields
      /\ <<"resourceRules", "status">> \in FactFields
  BY DEF FactFields
<1>3. /\ DOMAIN d.owners = DOMAIN e.owners /\ DOMAIN d.authorities = DOMAIN e.authorities
      /\ DOMAIN d.receipts = DOMAIN e.receipts /\ DOMAIN d.gates = DOMAIN e.gates
      /\ DOMAIN d.credentials = DOMAIN e.credentials
      /\ DOMAIN d.privacyEgress = DOMAIN e.privacyEgress
      /\ DOMAIN d.resourceRules = DOMAIN e.resourceRules
  BY DEF Alike, AlikeOwners, AlikeAuthorities, AlikeReceipts, AlikeGates, AlikeCredentials,
         AlikePrivacy, AlikeRules
<1>4. \A w \in DOMAIN d.owners : Resolved(d, w) => Resolved(e, w)
  <2> SUFFICES ASSUME NEW w \in DOMAIN d.owners, d.owners[w].status = "resolved"
               PROVE  e.owners[w].status = "resolved"
    BY DEF Resolved
  <2>1. e["owners"][w]["status"] = d["owners"][w]["status"] \/ e["owners"][w]["status"] \in Settled
    BY <1>1, <1>2, <1>3
  <2>2. e["owners"][w]["status"] \in {"resolved", "unresolved"}
    BY <1>3, StatesOfFacts
  <2> QED
    BY <2>1, <2>2 DEF Settled
<1>5. \A a \in DOMAIN d.authorities :
        d.authorities[a].status = "established" => e.authorities[a].status = "established"
  <2> SUFFICES ASSUME NEW a \in DOMAIN d.authorities, d.authorities[a].status = "established"
               PROVE  e.authorities[a].status = "established"
    OBVIOUS
  <2>1. \/ e["authorities"][a]["status"] = d["authorities"][a]["status"]
        \/ e["authorities"][a]["status"] \in Settled
    BY <1>1, <1>2, <1>3
  <2>2. e["authorities"][a]["status"] \in {"established", "unresolved"}
    BY <1>3, StatesOfFacts
  <2> QED
    BY <2>1, <2>2 DEF Settled
<1>6. \A g \in DOMAIN d.gates :
        /\ e.gates[g].status = "unsatisfied" => d.gates[g].status = "unsatisfied"
        /\ e.gates[g].status = "unresolved" => d.gates[g].status = "unresolved"
  <2> SUFFICES ASSUME NEW g \in DOMAIN d.gates
               PROVE  \/ e.gates[g].status = d.gates[g].status
                      \/ e.gates[g].status \notin {"unsatisfied", "unresolved"}
    OBVIOUS
  <2>1. e["gates"][g]["status"] = d["gates"][g]["status"] \/ e["gates"][g]["status"] \in Settled
    BY <1>1, <1>2, <1>3
  <2> QED
    BY <2>1 DEF Settled
<1>7. \A c \in DOMAIN d.credentials :
        /\ d.credentials[c].readiness = "present" => e.credentials[c].readiness = "present"
        /\ d.credentials[c].scopeVerification = "verified"
             => e.credentials[c].scopeVerification = "verified"
  <2> SUFFICES ASSUME NEW c \in DOMAIN d.credentials
               PROVE  /\ d.credentials[c].readiness = "present" => e.credentials[c].readiness = "present"
                      /\ d.credentials[c].scopeVerification = "verified"
                           => e.credentials[c].scopeVerification = "verified"
    OBVIOUS
  <2>1. \/ e["credentials"][c]["readiness"] = d["credentials"][c]["readiness"]
        \/ e["credentials"][c]["readiness"] \in Settled
    BY <1>1, <1>2, <1>3
  <2>2. \/ e["credentials"][c]["scopeVerification"] = d["credentials"][c]["scopeVerification"]
        \/ e["credentials"][c]["scopeVerification"] \in Settled
    BY <1>1, <1>2, <1>3
  <2>3. /\ e["credentials"][c]["readiness"] \in {"present", "absent", "unverified"}
        /\ e["credentials"][c]["scopeVerification"] \in {"verified", "unverified", "failed"}
    BY <1>3, StatesOfFacts
  <2> QED
    BY <2>1, <2>2, <2>3 DEF Settled
<1>8. \A p \in DOMAIN d.privacyEgress :
        /\ e.privacyEgress[p].status = "unresolved" => d.privacyEgress[p].status = "unresolved"
        /\ e.privacyEgress[p].status = "denied" => d.privacyEgress[p].status = "denied"
  <2> SUFFICES ASSUME NEW p \in DOMAIN d.privacyEgress
               PROVE  \/ e.privacyEgress[p].status = d.privacyEgress[p].status
                      \/ e.privacyEgress[p].status \notin {"unresolved", "denied"}
    OBVIOUS
  <2>1. \/ e["privacyEgress"][p]["status"] = d["privacyEgress"][p]["status"]
        \/ e["privacyEgress"][p]["status"] \in Settled
    BY <1>1, <1>2, <1>3
  <2> QED
    BY <2>1 DEF Settled
<1>9. \A r \in DOMAIN d.resourceRules : e.resourceRules[r].status = d.resourceRules[r].status
  <2> SUFFICES ASSUME NEW r \in DOMAIN d.resourceRules
               PROVE  e.resourceRules[r].status = d.resourceRules[r].status
    OBVIOUS
  <2>1. \/ e["resourceRules"][r]["status"] = d["resourceRules"][r]["status"]
        \/ e["resourceRules"][r]["status"] \in Settled
    BY <1>1, <1>2, <1>3
  <2>2. e["resourceRules"][r]["status"] \in {"meets", "does-not-meet", "unknown"}
    BY <1>3, StatesOfFacts
  <2> QED
    BY <2>1, <2>2 DEF Settled
<1>10. \A r \in DOMAIN d.receipts :
         d.receipts[r].disposition = "externally-accepted"
           => e.receipts[r].disposition = "externally-accepted"
  <2> SUFFICES ASSUME NEW r \in DOMAIN d.receipts, d.receipts[r].disposition = "externally-accepted"
               PROVE  e.receipts[r].disposition = "externally-accepted"
    OBVIOUS
  <2>1. \/ e["receipts"][r]["disposition"] = d["receipts"][r]["disposition"]
        \/ e["receipts"][r]["disposition"] \in Settled
    BY <1>1, <1>2, <1>3
  <2>2. e["receipts"][r]["disposition"]
          \in {"missing", "template", "retained-unverified", "externally-accepted", "failed"}
    BY <1>3, StatesOfFacts
  <2> QED
    BY <2>1, <2>2 DEF Settled
<1> QED
  BY <1>4, <1>5, <1>6, <1>7, <1>8, <1>9, <1>10 DEF NoWorse

\* What is said of a receipt: nothing new once nothing is worse and what was
\* accepted below it still is.
LEMMA OwnFollows ==
  ASSUME NEW d, NEW e, ValidContract(d), ValidContract(e), Alike(d, e), NoWorse(d, e), NEW o,
         NEW r \in DOMAIN d.receipts,
         d.receipts[r].disposition = "externally-accepted"
           => e.receipts[r].disposition = "externally-accepted"
  PROVE  OwnDiagnostics(e, r, o) \subseteq OwnDiagnostics(d, r, o)
<1> DEFINE mine == d.receipts[r]
           A(y) == Diagnose(y.receipts[r].disposition # "externally-accepted",
                            "EVIDENCE_NOT_EXTERNALLY_ACCEPTED", r)
           B(y) == Diagnose(~Resolved(y, mine.issuerOwnerRef), "EVIDENCE_ISSUER_UNRESOLVED", r)
           C(y) == Diagnose(~Established(y, mine.issuerAuthorityRef),
                            "EVIDENCE_ISSUER_AUTHORITY_UNRESOLVED", r)
           D == Diagnose(o \notin mine.downstreamConsumers, "EVIDENCE_CONSUMER_SCOPE_MISMATCH", r)
<1>1. /\ mine.issuerOwnerRef = e.receipts[r].issuerOwnerRef
      /\ mine.issuerAuthorityRef = e.receipts[r].issuerAuthorityRef
      /\ mine.downstreamConsumers = e.receipts[r].downstreamConsumers
  BY DEF Alike, AlikeReceipts
<1>2. mine.issuerOwnerRef \in DOMAIN d.owners /\ mine.issuerAuthorityRef \in DOMAIN d.authorities
  BY DEF ValidContract, ReceiptsOK
<1>3. /\ OwnDiagnostics(d, r, o) = A(d) \cup B(d) \cup C(d) \cup D
      /\ OwnDiagnostics(e, r, o) = A(e) \cup B(e) \cup C(e) \cup D
  BY <1>1 DEF OwnDiagnostics
<1>4. A(e) \subseteq A(d)
  BY DEF Diagnose
<1>5. B(e) \subseteq B(d)
  BY <1>2 DEF Diagnose, NoWorse
<1>6. C(e) \subseteq C(d)
  BY <1>2, EstablishedFollows DEF Diagnose
<1> HIDE DEF A, B, C, D
<1> QED
  BY <1>3, <1>4, <1>5, <1>6

\* The search from a receipt is the same under both documents and stays among
\* the receipts there are.
LEMMA SearchesAgree ==
  ASSUME NEW d, NEW e, ValidContract(d), ValidContract(e), Alike(d, e), NEW root \in DOMAIN d.receipts
  PROVE  /\ EvidenceSearch(IssuerEvidence(e), root) = EvidenceSearch(IssuerEvidence(d), root)
         /\ {root} \cup EvidenceSearch(IssuerEvidence(d), root).seen = Support(d, {root})
         /\ Support(d, {root}) \subseteq DOMAIN d.receipts
<1>1. IssuerEvidence(d) = IssuerEvidence(e)
  BY AlikeEvidence
<1>2. Traceable(d)
  BY ValidIsTraceable
<1>3. EvidenceSearch(IssuerEvidence(d), root).seen = Support(d, {root})
  BY <1>2, SearchMeetsSupport
<1>4. Least(DOMAIN d.receipts, IssuerEvidence(d), {root}, Support(d, {root}))
  BY <1>2, SupportIsLeast
<1>5. {root} \subseteq Support(d, {root}) /\ Support(d, {root}) \subseteq DOMAIN d.receipts
  BY <1>4 DEF Least
<1> QED
  BY <1>1, <1>3, <1>5

LEMMA ReceiptsFollow ==
  ASSUME NEW d, NEW e, ValidContract(d), ValidContract(e), Alike(d, e), NoWorse(d, e), NEW o,
         NEW root \in DOMAIN d.receipts,
         \A r \in Support(d, {root}) : d.receipts[r].disposition = "externally-accepted"
                                         => e.receipts[r].disposition = "externally-accepted"
  PROVE  ReceiptDiagnostics(e, root, o) \subseteq ReceiptDiagnostics(d, root, o)
<1> SUFFICES ASSUME NEW x \in ReceiptDiagnostics(e, root, o)
             PROVE  x \in ReceiptDiagnostics(d, root, o)
  OBVIOUS
<1> DEFINE found == EvidenceSearch(IssuerEvidence(d), root)
<1>1. /\ EvidenceSearch(IssuerEvidence(e), root) = found
      /\ {root} \cup found.seen = Support(d, {root})
      /\ Support(d, {root}) \subseteq DOMAIN d.receipts
  BY SearchesAgree
<1>2. \/ \E r \in {root} \cup found.seen : x \in OwnDiagnostics(e, r, o)
      \/ \E r \in found.cycles : x = <<"EVIDENCE_ISSUER_AUTHORITY_CYCLE", r>>
  BY <1>1, ReceiptByParts
<1>3. CASE \E r \in {root} \cup found.seen : x \in OwnDiagnostics(e, r, o)
  <2>1. PICK r \in Support(d, {root}) : x \in OwnDiagnostics(e, r, o)
    BY <1>1, <1>3
  <2>2. OwnDiagnostics(e, r, o) \subseteq OwnDiagnostics(d, r, o)
    BY <1>1, OwnFollows
  <2> QED
    BY <1>1, <2>1, <2>2, ReceiptByParts
<1>4. CASE \E r \in found.cycles : x = <<"EVIDENCE_ISSUER_AUTHORITY_CYCLE", r>>
  BY <1>4, ReceiptByParts
<1> QED
  BY <1>2, <1>3, <1>4

\* What is said of a receipt about the wiring is said whatever the facts are.
LEMMA ReceiptWiringStays ==
  ASSUME NEW d, NEW e, ValidContract(d), ValidContract(e), Alike(d, e), NEW o,
         NEW root \in DOMAIN d.receipts, NEW x \in ReceiptDiagnostics(e, root, o),
         x[1] \in IntegrationBlockerCodes
  PROVE  x \in ReceiptDiagnostics(d, root, o)
<1> DEFINE found == EvidenceSearch(IssuerEvidence(d), root)
<1>1. /\ EvidenceSearch(IssuerEvidence(e), root) = found
      /\ {root} \cup found.seen = Support(d, {root})
      /\ Support(d, {root}) \subseteq DOMAIN d.receipts
  BY SearchesAgree
<1>2. \/ \E r \in {root} \cup found.seen : x \in OwnDiagnostics(e, r, o)
      \/ \E r \in found.cycles : x = <<"EVIDENCE_ISSUER_AUTHORITY_CYCLE", r>>
  BY <1>1, ReceiptByParts
<1>3. CASE \E r \in {root} \cup found.seen : x \in OwnDiagnostics(e, r, o)
  <2>1. PICK r \in Support(d, {root}) : x \in OwnDiagnostics(e, r, o)
    BY <1>1, <1>3
  <2>2. {"EVIDENCE_NOT_EXTERNALLY_ACCEPTED", "EVIDENCE_ISSUER_UNRESOLVED",
         "EVIDENCE_ISSUER_AUTHORITY_UNRESOLVED"} \cap IntegrationBlockerCodes = {}
    BY DEF IntegrationBlockerCodes
  <2>3. x \in Diagnose(o \notin e.receipts[r].downstreamConsumers, "EVIDENCE_CONSUMER_SCOPE_MISMATCH", r)
    BY <2>1, <2>2 DEF OwnDiagnostics, Diagnose
  <2>4. d.receipts[r].downstreamConsumers = e.receipts[r].downstreamConsumers
    BY <1>1 DEF Alike, AlikeReceipts
  <2>5. x \in OwnDiagnostics(d, r, o)
    BY <2>3, <2>4 DEF OwnDiagnostics
  <2> QED
    BY <1>1, <2>1, <2>5, ReceiptByParts
<1>4. CASE \E r \in found.cycles : x = <<"EVIDENCE_ISSUER_AUTHORITY_CYCLE", r>>
  BY <1>4, ReceiptByParts
<1> QED
  BY <1>2, <1>3, <1>4

\* What counts against the wiring under e counts against it under d.
LEMMA WiringBlockersStay ==
  ASSUME NEW d, NEW e, ValidContract(d), ValidContract(e), Alike(d, e), NEW t, NEW u
  PROVE  IntegrationBlockers(e, u) \subseteq IntegrationBlockers(d, t)
<1> SUFFICES ASSUME NEW x \in IntegrationBlockers(e, u)
             PROVE  x \in IntegrationBlockers(d, t)
  OBVIOUS
<1> DEFINE Absent(y) == {<<"EXECUTION_BOUNDARY_MISSING", o>> :
                          o \in {z \in DOMAIN y.operations :
                                   /\ y.operations[z].executionClass = "source-only"
                                   /\ Boundary(y, z) = Undeclared}}
           All(y, v) == UNION {Blockers(y, o, v) : o \in DOMAIN y.operations}
<1>1. /\ Diagnostics(e, u) = All(e, u) \cup ClosureDiagnostics(e) \cup Absent(e)
      /\ Diagnostics(d, t) = All(d, t) \cup ClosureDiagnostics(d) \cup Absent(d)
  BY Zenon DEF Diagnostics
<1>2. d.operations = e.operations /\ d.interfaceClosure = e.interfaceClosure
  BY DEF Alike, AlikeParts
<1>3. Absent(d) = Absent(e)
  BY <1>2 DEF Boundary
<1>4. ClosureDiagnostics(d) = ClosureDiagnostics(e)
  <2>1. ClosureCollections(d) = ClosureCollections(e)
    BY DEF ClosureCollections, Alike, AlikeParts, AlikeOwners, AlikeAuthorities, AlikeReceipts,
           AlikeGates, AlikeCredentials, AlikeRules, AlikePrivacy
  <2> QED
    BY <1>2, <2>1, Zenon DEF ClosureDiagnostics
<1>5. x \in Diagnostics(e, u) /\ x[1] \in IntegrationBlockerCodes
  BY Zenon DEF IntegrationBlockers
<1>6. x \in All(e, u) => x \in All(d, t)
  <2> SUFFICES ASSUME NEW o \in DOMAIN d.operations, x \in Blockers(e, o, u)
               PROVE  x \in Blockers(d, o, t)
    BY <1>2
  <2>1. Roots(d, o) \subseteq DOMAIN d.receipts
    BY NamedAreKnown DEF Roots
  <2>2. \A r \in Roots(d, o) : x \in ReceiptDiagnostics(e, r, o) => x \in ReceiptDiagnostics(d, r, o)
    BY <1>5, <2>1, ReceiptWiringStays
  <2>3. Follows(d, e, o, t, u, x)
    BY <1>5, <2>2 DEF Follows
  <2> QED
    BY <2>3, BlockersFollow
<1> HIDE DEF Absent, All
<1>7. x \in Diagnostics(d, t)
  BY <1>1, <1>3, <1>4, <1>5, <1>6
<1> QED
  BY <1>5, <1>7, Zenon DEF IntegrationBlockers

\* Nothing worse, and what was accepted still accepted: no new blocker.
LEMMA NothingNew ==
  ASSUME NEW d, NEW e, ValidContract(d), ValidContract(e), Alike(d, e), NoWorse(d, e),
         NEW o \in DOMAIN d.operations, NEW t,
         \A r \in Awaited(d, o) : d.receipts[r].disposition = "externally-accepted"
                                    => e.receipts[r].disposition = "externally-accepted"
  PROVE  Blockers(e, o, t) \subseteq Blockers(d, o, t)
<1> SUFFICES ASSUME NEW x \in Blockers(e, o, t) PROVE x \in Blockers(d, o, t)
  OBVIOUS
<1>1. Roots(d, o) \subseteq DOMAIN d.receipts
  BY NamedAreKnown DEF Roots
<1>2. \A root \in Roots(d, o) : Support(d, {root}) \subseteq Awaited(d, o)
  BY AwaitedHoldsSupport DEF Roots
<1>3. \A root \in Roots(d, o) : ReceiptDiagnostics(e, root, o) \subseteq ReceiptDiagnostics(d, root, o)
  BY <1>1, <1>2, ReceiptsFollow
<1>4. Follows(d, e, o, t, t, x)
  BY <1>3 DEF Follows
<1> QED
  BY <1>4, BlockersFollow

\* With nothing but facts about other receipts new, nothing is worse either way.
LEMMA OthersAreNoWorse ==
  ASSUME NEW d, NEW e, ValidContract(d), ValidContract(e), Alike(d, e),
         \A y \in Facts(e) \ Facts(d) : y[1] = "receipts"
  PROVE  NoWorse(d, e) /\ NoWorse(e, d)
<1>1. ASSUME NEW c, NEW f, <<c, f>> \in FactFields, c # "receipts", NEW i \in DOMAIN e[c]
      PROVE  e[c][i][f] = d[c][i][f]
  <2> DEFINE y == <<c, i, f, e[c][i][f]>>
  <2>1. y[1] = c
    OBVIOUS
  <2>2. y \notin Facts(e) \ Facts(d)
    BY <1>1, <2>1
  <2> QED
    BY <1>1, <2>2, OldUnlessNew
<1>2. /\ <<"owners", "status">> \in FactFields /\ <<"authorities", "status">> \in FactFields
      /\ <<"gates", "status">> \in FactFields
      /\ <<"credentials", "readiness">> \in FactFields
      /\ <<"credentials", "scopeVerification">> \in FactFields
      /\ <<"privacyEgress", "status">> \in FactFields
      /\ <<"resourceRules", "status">> \in FactFields
  BY DEF FactFields
<1>3. /\ DOMAIN d.owners = DOMAIN e.owners /\ DOMAIN d.authorities = DOMAIN e.authorities
      /\ DOMAIN d.gates = DOMAIN e.gates /\ DOMAIN d.credentials = DOMAIN e.credentials
      /\ DOMAIN d.privacyEgress = DOMAIN e.privacyEgress
      /\ DOMAIN d.resourceRules = DOMAIN e.resourceRules
  BY DEF Alike, AlikeOwners, AlikeAuthorities, AlikeGates, AlikeCredentials, AlikePrivacy, AlikeRules
<1>4. \A w \in DOMAIN e["owners"] : e["owners"][w]["status"] = d["owners"][w]["status"]
  BY <1>1, <1>2
<1>5. \A a \in DOMAIN e["authorities"] :
        e["authorities"][a]["status"] = d["authorities"][a]["status"]
  BY <1>1, <1>2
<1>6. \A g \in DOMAIN e["gates"] : e["gates"][g]["status"] = d["gates"][g]["status"]
  BY <1>1, <1>2
<1>7. \A c \in DOMAIN e["credentials"] :
        /\ e["credentials"][c]["readiness"] = d["credentials"][c]["readiness"]
        /\ e["credentials"][c]["scopeVerification"] = d["credentials"][c]["scopeVerification"]
  BY <1>1, <1>2
<1>8. \A p \in DOMAIN e["privacyEgress"] :
        e["privacyEgress"][p]["status"] = d["privacyEgress"][p]["status"]
  BY <1>1, <1>2
<1>9. \A r \in DOMAIN e["resourceRules"] :
        e["resourceRules"][r]["status"] = d["resourceRules"][r]["status"]
  BY <1>1, <1>2
<1> QED
  BY <1>3, <1>4, <1>5, <1>6, <1>7, <1>8, <1>9 DEF NoWorse, Resolved

LEMMA AwaitedAreKnown ==
  ASSUME NEW d, ValidContract(d), NEW o \in DOMAIN d.operations
  PROVE  Awaited(d, o) \subseteq DOMAIN d.receipts
<1>1. \A r \in Awaited(d, o) :
        \E root \in NamedReceipts(d, o) \cup GateReceipts(d, o) : r \in Support(d, {root})
  BY AwaitedHoldsSupport
<1>2. NamedReceipts(d, o) \cup GateReceipts(d, o) \in SUBSET DOMAIN d.receipts
  BY NamedAreKnown
<1>3. Alike(d, d)
  BY SameWiringIsAlike
<1>4. \A root \in DOMAIN d.receipts : Support(d, {root}) \subseteq DOMAIN d.receipts
  BY <1>3, SearchesAgree
<1> QED
  BY <1>1, <1>2, <1>4

LEMMA AwaitedAgree ==
  ASSUME NEW d, NEW e, ValidContract(d), Alike(d, e), NEW o \in DOMAIN d.operations
  PROVE  Awaited(e, o) = Awaited(d, o)
<1>1. NamedReceipts(d, o) = NamedReceipts(e, o) /\ GateReceipts(d, o) = GateReceipts(e, o)
  BY AlikeNames
<1>2. /\ Awaited(d, o) = Support(d, NamedReceipts(d, o) \cup GateReceipts(d, o))
      /\ Awaited(e, o) = Support(e, NamedReceipts(e, o) \cup GateReceipts(e, o))
  BY DEF Awaited, GateReceipts
<1> QED
  BY <1>1, <1>2, AlikeSupport

\* Two reports in a row that are no refusals, on documents of one wiring.
LEMMA ReportsOfStep ==
  ASSUME ReportIsCurrent, ReportIsCurrent', report.valid, report'.valid, Wiring(doc) = Wiring(doc')
  PROVE  /\ ValidContract(doc) /\ ValidContract(doc') /\ Alike(doc, doc') /\ Alike(doc', doc)
         /\ doc.operations = doc'.operations
         /\ \A o \in DOMAIN doc.operations :
              /\ report.blockers[o] = Blockers(doc, o, now)
              /\ report'.blockers[o] = Blockers(doc', o, now')
         /\ report.integration = IntegrationBlockers(doc, now)
         /\ report'.integration = IntegrationBlockers(doc', now')
<1>1. report = Report(doc, now) /\ report' = Report(doc', now')
  BY DEF ReportIsCurrent
<1>2. ValidContract(doc) /\ ValidContract(doc')
  BY <1>1, ReportOf
<1>3. Alike(doc, doc')
  BY <1>2, SameWiringIsAlike
<1>4. Alike(doc', doc)
  BY <1>3, AlikeBack
<1>5. doc.operations = doc'.operations
  BY <1>3 DEF Alike, AlikeParts
<1>6. /\ report.blockers = [o \in DOMAIN doc.operations |-> Blockers(doc, o, now)]
      /\ report.integration = IntegrationBlockers(doc, now)
  BY <1>1, <1>2, ReportOf
<1>7. /\ report'.blockers = [o \in DOMAIN doc'.operations |-> Blockers(doc', o, now')]
      /\ report'.integration = IntegrationBlockers(doc', now')
  BY <1>1, <1>2, ReportOf
<1> QED
  BY <1>2, <1>3, <1>4, <1>5, <1>6, <1>7

\* Recording a fact, whichever way it turns out, never changes what the report
\* says about the wiring.
THEOREM WiringUntouched == Spec => FactsLeaveWiringAlone
<1>1. ReportIsCurrent /\ ReportIsCurrent' /\ [Next]_vars =>
        [(report.valid /\ report'.valid /\ Wiring(doc) = Wiring(doc'))
           => report'.integration = report.integration]_vars
  <2> SUFFICES ASSUME ReportIsCurrent, ReportIsCurrent', report.valid, report'.valid,
                      Wiring(doc) = Wiring(doc')
               PROVE  report'.integration = report.integration
    OBVIOUS
  <2>1. /\ ValidContract(doc) /\ ValidContract(doc') /\ Alike(doc, doc') /\ Alike(doc', doc)
        /\ report.integration = IntegrationBlockers(doc, now)
        /\ report'.integration = IntegrationBlockers(doc', now')
    BY ReportsOfStep
  <2>2. IntegrationBlockers(doc', now') \subseteq IntegrationBlockers(doc, now)
    BY <2>1, WiringBlockersStay
  <2>3. IntegrationBlockers(doc, now) \subseteq IntegrationBlockers(doc', now')
    BY <2>1, WiringBlockersStay
  <2>4. IntegrationBlockers(doc', now') = IntegrationBlockers(doc, now)
    BY <2>2, <2>3, Zenon
  <2> QED
    BY <2>1, <2>4, Zenon
<1> QED
  BY <1>1, Current, PTL DEF Spec, FactsLeaveWiringAlone

\* Settling facts adds no blocker to any operation.
THEOREM SettlingHelps == Spec => SettlingNeverBlocks
<1>1. ReportIsCurrent /\ ReportIsCurrent' /\ [Next]_vars =>
        [(/\ report.valid /\ report'.valid /\ Wiring(doc) = Wiring(doc')
          /\ \A f \in NewFacts : f[4] \in Settled)
           => \A o \in DOMAIN doc.operations :
                now' = now => report'.blockers[o] \subseteq report.blockers[o]]_vars
  <2> SUFFICES ASSUME ReportIsCurrent, ReportIsCurrent', report.valid, report'.valid,
                      Wiring(doc) = Wiring(doc'), \A f \in NewFacts : f[4] \in Settled,
                      NEW o \in DOMAIN doc.operations, now' = now
               PROVE  report'.blockers[o] \subseteq report.blockers[o]
    OBVIOUS
  <2>1. /\ ValidContract(doc) /\ ValidContract(doc') /\ Alike(doc, doc')
        /\ report.blockers[o] = Blockers(doc, o, now)
        /\ report'.blockers[o] = Blockers(doc', o, now)
    BY ReportsOfStep
  <2>2. \A f \in Facts(doc') \ Facts(doc) : f[4] \in Settled
    BY DEF NewFacts
  <2>3. /\ NoWorse(doc, doc')
        /\ \A r \in DOMAIN doc.receipts : doc.receipts[r].disposition = "externally-accepted"
                                            => doc'.receipts[r].disposition = "externally-accepted"
    BY <2>1, <2>2, SettlingIsNoWorse
  <2>4. Awaited(doc, o) \subseteq DOMAIN doc.receipts
    BY <2>1, AwaitedAreKnown
  <2>5. Blockers(doc', o, now) \subseteq Blockers(doc, o, now)
    BY <2>1, <2>3, <2>4, NothingNew
  <2> QED
    BY <2>1, <2>5
<1> QED
  BY <1>1, Current, PTL DEF Spec, SettlingNeverBlocks

\* A fact about a receipt reaches only the operations that wait for it.
THEOREM IndependentStays == Spec => IndependentStaysIndependent
<1>1. ReportIsCurrent /\ ReportIsCurrent' /\ [Next]_vars =>
        [(/\ report.valid /\ report'.valid /\ Wiring(doc) = Wiring(doc') /\ now' = now
          /\ \A f \in NewFacts : f[1] = "receipts")
           => \A o \in DOMAIN doc.operations :
                report'.blockers[o] # report.blockers[o]
                  => \E f \in NewFacts : f[2] \in Awaited(doc, o)]_vars
  <2> SUFFICES ASSUME ReportIsCurrent, ReportIsCurrent', report.valid, report'.valid,
                      Wiring(doc) = Wiring(doc'), now' = now, \A f \in NewFacts : f[1] = "receipts",
                      NEW o \in DOMAIN doc.operations, \A f \in NewFacts : f[2] \notin Awaited(doc, o)
               PROVE  report'.blockers[o] = report.blockers[o]
    OBVIOUS
  <2>1. /\ ValidContract(doc) /\ ValidContract(doc') /\ Alike(doc, doc') /\ Alike(doc', doc)
        /\ doc.operations = doc'.operations
        /\ report.blockers[o] = Blockers(doc, o, now)
        /\ report'.blockers[o] = Blockers(doc', o, now)
    BY ReportsOfStep
  <2>2. /\ \A f \in Facts(doc') \ Facts(doc) : f[1] = "receipts"
        /\ \A f \in Facts(doc') \ Facts(doc) : f[2] \notin Awaited(doc, o)
    BY DEF NewFacts
  <2>3. NoWorse(doc, doc') /\ NoWorse(doc', doc)
    BY <2>1, <2>2, OthersAreNoWorse
  <2>4. Awaited(doc, o) \subseteq DOMAIN doc.receipts /\ DOMAIN doc.receipts = DOMAIN doc'.receipts
    BY <2>1, AwaitedAreKnown DEF Alike, AlikeReceipts
  <2>5. \A r \in Awaited(doc, o) : doc'.receipts[r].disposition = doc.receipts[r].disposition
    <3> SUFFICES ASSUME NEW r \in Awaited(doc, o)
                 PROVE  doc'["receipts"][r]["disposition"] = doc["receipts"][r]["disposition"]
      OBVIOUS
    <3> DEFINE y == <<"receipts", r, "disposition", doc'["receipts"][r]["disposition"]>>
    <3>1. y[2] = r
      OBVIOUS
    <3>2. y \notin Facts(doc') \ Facts(doc)
      BY <2>2, <3>1
    <3>3. <<"receipts", "disposition">> \in FactFields
      BY DEF FactFields
    <3> QED
      BY <2>4, <3>2, <3>3, OldUnlessNew
  <2>6. Awaited(doc', o) = Awaited(doc, o)
    BY <2>1, AwaitedAgree
  <2>7. Blockers(doc', o, now) \subseteq Blockers(doc, o, now)
    BY <2>1, <2>3, <2>5, NothingNew
  <2>8. Blockers(doc, o, now) \subseteq Blockers(doc', o, now)
    BY <2>1, <2>3, <2>5, <2>6, NothingNew
  <2>9. Blockers(doc', o, now) = Blockers(doc, o, now)
    BY <2>7, <2>8, Zenon
  <2> QED
    BY <2>1, <2>9, Zenon
<1> QED
  BY <1>1, Current, PTL DEF Spec, IndependentStaysIndependent
=============================================================================
