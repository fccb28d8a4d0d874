-------------------------- MODULE Monitoring_proofs --------------------------
(***************************************************************************)
(* Theorems about Monitoring, for all inputs and all waiting times of the  *)
(* alert rules.  The file of the exporter is what the posture and the site *)
(* were when it ran, and the rules count from there: the invariant bounds  *)
(* what has become of them since by the age of the file and, once that is  *)
(* too old, by the count of the rule that says so.                         *)
(***************************************************************************)
EXTENDS Monitoring, RecursionTheorems

(* The invariant. *)

\* The document never says more than the artifact had left.
Believed == site.doc.left >= 0 => artifact.left >= site.doc.left

\* A posture in the file was in force when the file was written.
PostureHeld ==
  prom.reg.posture \in Conclusion =>
    IF prom.age <= ExporterMaxAge
    THEN artifact.left >= -prom.age
    ELSE \/ Firing("ExporterStale")
         \/ artifact.left >= -(ExporterMaxAge + pending["ExporterStale"])

\* ExporterStale counts from the limit on.
ExporterCounted ==
  prom.age > ExporterMaxAge =>
    \/ Firing("ExporterStale")
    \/ pending["ExporterStale"] >= prom.age - ExporterMaxAge

\* The document the exporter read was the one on the site or an older one;
\* where it read none, a document on the site is newer than the file.
SiteRead ==
  /\ "status_json" \in DOMAIN prom.reg.ok
  /\ IF prom.reg.ok["status_json"]
     THEN prom.reg.rendered >= site.doc.age
     ELSE /\ prom.reg.rendered = -1
          /\ site.readable => site.doc.age <= prom.age

\* Silence ends with an alert, an exporter known to have stopped, or a site
\* seen fresh.
SilenceEnds ==
  silent > 0 => /\ ~SiteAlarm
                /\ prom.age <= Notice
                /\ StaleAge > 0
                /\ site.doc.age > StaleAge \/ site.doc.age = 0

\* A silence is no longer than the count of the rule that will end it, after
\* a change of rule than both.
SilenceCounted ==
  site.doc.age > StaleAge =>
    silent <= IF prom.reg.ok["status_json"]
              THEN pending["StatusSiteRenderStale"]
              ELSE StaleFor + pending["status_json"]
(***************************************************************************)
(* What collect does, by induction over the inputs it has gone through.    *)
(***************************************************************************)

\* The LET of the fold, as a function of itself.
Gathered(attempts, base, iter) ==
  [s \in SUBSET Plain |->
     IF s = {} THEN base
     ELSE Guarded(iter[s \ {CHOOSE i \in s : TRUE}],
                  CHOOSE i \in s : TRUE,
                  attempts[CHOOSE i \in s : TRUE])]

LEMMA CollectUnfolds ==
  ASSUME NEW status, NEW attempts
  PROVE  Collect(status, attempts) =
           (CHOOSE iter : iter = Gathered(attempts,
                                          WithStatus(NewRegistry, status), iter))[Plain]
BY Zenon DEF Collect, MapThenFoldSet, Gathered

LEMMA PartsAreWellFounded ==
  /\ IsWellFoundedOn(StrictSubsetOrdering(Plain), SUBSET Plain)
  /\ Chain(StrictSubsetOrdering(Plain), SUBSET Plain)
  /\ \A s \in SUBSET Plain : \A i \in s :
       /\ s \ {i} \in SUBSET Plain
       /\ <<s \ {i}, s>> \in StrictSubsetOrdering(Plain)
<1>1. SUBSET Plain \subseteq FiniteSubsetsOf(Plain)
  BY FS_Subset, InputAssumption DEF FiniteSubsetsOf
<1>2. IsWellFoundedOn(StrictSubsetOrdering(Plain), SUBSET Plain)
  <2> DEFINE T == SUBSET Plain
             All == FiniteSubsetsOf(Plain)
  <2>1. IsWellFoundedOn(StrictSubsetOrdering(Plain), All)
    BY FS_StrictSubsetOrderingWellFounded
  <2> HIDE DEF T, All
  <2>2. T \in SUBSET All
    BY <1>1 DEF T, All
  <2>3. IsWellFoundedOn(StrictSubsetOrdering(Plain), T)
    BY <2>1, <2>2, IsWellFoundedOnSubset
  <2> QED
    BY <2>3 DEF T
<1>3. Chain(StrictSubsetOrdering(Plain), SUBSET Plain)
  BY DEF Chain, StrictSubsetOrdering
<1>4. \A s \in SUBSET Plain : \A i \in s :
        /\ s \ {i} \in SUBSET Plain
        /\ <<s \ {i}, s>> \in StrictSubsetOrdering(Plain)
  BY DEF StrictSubsetOrdering
<1> QED
  BY <1>2, <1>3, <1>4

(***************************************************************************)
(* The registry, one input at a time.                                      *)
(***************************************************************************)

\* The samples of an input that are in the registry.
Filled(reg, i) == reg.families[Family(i)] \cap Samples(i)

\* InputMatchesFamilies, for one input of any registry.
Matches(reg, i) ==
  IF i \in DOMAIN reg.ok /\ reg.ok[i]
  THEN i # "status_json" => Filled(reg, i) = Samples(i)
  ELSE Filled(reg, i) \subseteq IF i = "host_posture" THEN {<<i, 1>>} ELSE {}

\* Input i is marked, and nothing else is changed.
IsMarked(reg, i, flag, new) ==
  /\ new \in Registry
  /\ new.families = reg.families /\ new.posture = reg.posture
  /\ new.rendered = reg.rendered
  /\ DOMAIN new.ok = DOMAIN reg.ok \cup {i}
  /\ new.ok[i] = flag
  /\ \A j \in DOMAIN reg.ok : j # i => new.ok[j] = reg.ok[j]

LEMMA MarkedDoes ==
  ASSUME NEW reg \in Registry, NEW i \in Input, NEW flag \in BOOLEAN
  PROVE  IsMarked(reg, i, flag, Marked(reg, i, flag))
<1> DEFINE S == DOMAIN reg.ok
           ok == [j \in S \cup {i} |-> IF j = i THEN flag ELSE reg.ok[j]]
           new == Marked(reg, i, flag)
<1>1. S \in SUBSET Input /\ reg.ok \in [S -> BOOLEAN]
  BY DEF Registry
<1>2. ok \in [S \cup {i} -> BOOLEAN] /\ S \cup {i} \in SUBSET Input
  BY <1>1
<1>3. new = [reg EXCEPT !.ok = ok]
  BY DEF Marked
<1>4. ok \in UNION {[D -> BOOLEAN] : D \in SUBSET Input}
  BY <1>2
<1>5. /\ DOMAIN ok = S \cup {i} /\ ok[i] = flag
      /\ \A j \in S : j # i => ok[j] = reg.ok[j]
  OBVIOUS
<1> HIDE DEF ok, new
<1> QED
  BY <1>3, <1>4, <1>5 DEF Registry, IsMarked, new

\* The samples of i with a rank of R are added, and nothing else is changed.
HasMore(reg, i, R, new) ==
  /\ new \in Registry
  /\ new.ok = reg.ok /\ new.posture = reg.posture
  /\ new.rendered = reg.rendered
  /\ Filled(new, i) = Filled(reg, i) \cup ({i} \X R)
  /\ \A j \in Input : j # i => Filled(new, j) = Filled(reg, j)

LEMMA AddedDoes ==
  ASSUME NEW reg \in Registry, NEW i \in Input, NEW R \in SUBSET Rank
  PROVE  HasMore(reg, i, R, Added(reg, i, {i} \X R))
<1> DEFINE F == {Family(j) : j \in Input}
           new == Added(reg, i, {i} \X R)
<1>1. reg.families \in [F -> SUBSET Sample] /\ Family(i) \in F
  BY DEF Registry
<1>2. {i} \X R \in SUBSET Sample /\ {i} \X R \subseteq Samples(i)
  BY DEF Sample, Samples
<1>3. new = [reg EXCEPT !.families =
                [reg.families EXCEPT ![Family(i)] = @ \cup ({i} \X R)]]
  BY <1>1 DEF Added, Registry
<1>4. [reg.families EXCEPT ![Family(i)] = @ \cup ({i} \X R)] \in [F -> SUBSET Sample]
  BY <1>1, <1>2
<1>5. /\ new \in Registry /\ new.ok = reg.ok /\ new.posture = reg.posture
      /\ new.rendered = reg.rendered
      /\ new.families = [reg.families EXCEPT ![Family(i)] = @ \cup ({i} \X R)]
  BY <1>3, <1>4 DEF Registry
<1> HIDE DEF new
<1>6. Filled(new, i) = Filled(reg, i) \cup ({i} \X R)
  <2>1. new.families[Family(i)] = reg.families[Family(i)] \cup ({i} \X R)
    BY <1>1, <1>5
  <2> QED
    BY <1>2, <2>1 DEF Filled
<1>7. ASSUME NEW j \in Input, j # i PROVE Filled(new, j) = Filled(reg, j)
  <2>1. Family(j) \in F
    OBVIOUS
  <2>2. \/ new.families[Family(j)] = reg.families[Family(j)]
        \/ new.families[Family(j)] = reg.families[Family(j)] \cup ({i} \X R)
    BY <1>1, <1>5, <2>1
  <2>3. Samples(i) \cap Samples(j) = {}
    BY <1>7 DEF Samples
  <2> QED
    BY <1>2, <2>2, <2>3 DEF Filled
<1>8. HasMore(reg, i, R, new)
  BY <1>5, <1>6, <1>7 DEF HasMore
<1> QED
  BY <1>8 DEF new

\* guard: all of the collector's samples, or none, and the mark says which.
IsGuarded(reg, i, raises, new) ==
  /\ new \in Registry
  /\ new.posture = reg.posture /\ new.rendered = reg.rendered
  /\ DOMAIN new.ok = DOMAIN reg.ok \cup {i}
  /\ new.ok[i] = ~raises
  /\ Filled(new, i) = Filled(reg, i) \cup (IF raises THEN {} ELSE Samples(i))
  /\ \A j \in DOMAIN reg.ok : j # i => new.ok[j] = reg.ok[j]
  /\ \A j \in Input : j # i => Filled(new, j) = Filled(reg, j)

LEMMA GuardedDoes ==
  ASSUME NEW reg \in Registry, NEW i \in Input, NEW attempt \in Attempt
  PROVE  IsGuarded(reg, i, attempt.raises, Guarded(reg, i, attempt))
<1> DEFINE new == Guarded(reg, i, attempt)
<1>1. attempt.raises \in BOOLEAN /\ (~attempt.raises => attempt.added = Rank)
  BY DEF Attempt
<1>2. CASE attempt.raises
  <2>1. new = Marked(reg, i, FALSE)
    BY <1>2 DEF Guarded
  <2> HIDE DEF new
  <2>2. IsMarked(reg, i, FALSE, new)
    BY <2>1, MarkedDoes
  <2>3. \A j : Filled(new, j) = Filled(reg, j)
    BY <2>2 DEF Filled, IsMarked
  <2>4. attempt.raises = TRUE
    BY <1>1, <1>2
  <2>5. IsGuarded(reg, i, TRUE, new)
    BY <2>2, <2>3 DEF IsMarked, IsGuarded
  <2> QED
    BY <2>4, <2>5 DEF new
<1>3. CASE ~attempt.raises
  <2> DEFINE more == Added(reg, i, {i} \X Rank)
  <2>1. new = Marked(more, i, TRUE)
    BY <1>1, <1>3 DEF Guarded
  <2>2. HasMore(reg, i, Rank, more)
    BY AddedDoes
  <2> HIDE DEF more, new
  <2>3. IsMarked(more, i, TRUE, new)
    BY <2>1, <2>2, MarkedDoes DEF HasMore
  <2>4. \A j : Filled(new, j) = Filled(more, j)
    BY <2>3 DEF Filled, IsMarked
  <2>5. attempt.raises = FALSE
    BY <1>1, <1>3
  <2>6. IsGuarded(reg, i, FALSE, new)
    BY <2>2, <2>3, <2>4 DEF IsMarked, HasMore, IsGuarded, Samples
  <2> QED
    BY <2>5, <2>6 DEF new
<1> QED
  BY <1>2, <1>3

\* What the documents alone leave in the registry.
HasRead(reg, status) ==
  /\ reg \in Registry
  /\ "status_json" \in DOMAIN reg.ok
  /\ reg.ok["status_json"] <=> status # NoStatus
  /\ reg.posture = IF status = NoStatus THEN "absent" ELSE Effective(status)
  /\ reg.rendered = IF status = NoStatus THEN -1 ELSE status.age

\* ... and of the other inputs nothing yet.
ReadFirst(reg, status) ==
  /\ HasRead(reg, status)
  /\ DOMAIN reg.ok =
       {"status_json"} \cup (IF status = NoStatus THEN {} ELSE Sections)
  /\ \A i \in Input \ Plain : Matches(reg, i)
  /\ \A i \in Plain : Filled(reg, i) = {}

LEMMA InputsTold ==
  /\ "status_json" \in Input /\ "host_posture" \in Input /\ "tls" \in Input
  /\ "status_json" \notin Plain /\ "host_posture" \notin Plain
  /\ "tls" \notin Plain
  /\ Plain \subseteq Input /\ Sections \subseteq Input
  /\ Input \ Plain = {"status_json", "host_posture", "tls"}
BY InputAssumption DEF Input, Sections

LEMMA NoStatusTold ==
  ASSUME NEW status \in Status
  PROVE  status # NoStatus
<1>1. "no document" \notin PostureState \cup {"unavailable"}
  BY InputAssumption DEF PostureState
<1>2. status.posture \in PostureState \cup {"unavailable"}
  BY DEF Status
<1>3. NoStatus.posture = "no document"
  BY DEF NoStatus
<1> QED
  BY <1>1, <1>2, <1>3

LEMMA EffectiveTyped ==
  ASSUME NEW status \in Status
  PROVE  Effective(status) \in PostureState
BY DEF Effective, Status, PostureState

LEMMA NewRegistryIsEmpty ==
  /\ NewRegistry \in Registry
  /\ DOMAIN NewRegistry.ok = {}
  /\ NewRegistry.posture = "absent" /\ NewRegistry.rendered = -1
  /\ \A i \in Input : Filled(NewRegistry, i) = {}
<1>1. <<>> \in [{} -> BOOLEAN]
  OBVIOUS
<1>1a. DOMAIN <<>> = {}
  BY <1>1
<1>2. <<>> \in UNION {[S -> BOOLEAN] : S \in SUBSET Input}
  <2>1. {} \in SUBSET Input
    OBVIOUS
  <2> QED
    BY <1>1, <2>1, Zenon
<1> DEFINE F == {Family(i) : i \in Input}
           empty == [f \in F |-> {}]
<1>3. empty \in [F -> SUBSET Sample]
  OBVIOUS
<1>4. NewRegistry = [families |-> empty, ok |-> <<>>, posture |-> "absent",
                     rendered |-> -1]
  BY DEF NewRegistry
<1>5. \A i \in Input : empty[Family(i)] = {}
  OBVIOUS
<1> HIDE DEF empty
<1>6. NewRegistry \in Registry
  BY <1>2, <1>3, <1>4 DEF Registry
<1> QED
  BY <1>1a, <1>4, <1>5, <1>6 DEF Filled

LEMMA NoDocumentRead ==
  ReadFirst(WithStatus(NewRegistry, NoStatus), NoStatus)
<1> DEFINE reg == WithStatus(NewRegistry, NoStatus)
<1>1. reg = Marked(NewRegistry, "status_json", FALSE)
  BY DEF WithStatus
<1> HIDE DEF reg
<1>2. IsMarked(NewRegistry, "status_json", FALSE, reg)
  BY <1>1, NewRegistryIsEmpty, InputsTold, MarkedDoes
<1>3. \A i \in Input : Filled(reg, i) = {}
  BY <1>2, NewRegistryIsEmpty DEF IsMarked, Filled
<1>4. HasRead(reg, NoStatus) /\ DOMAIN reg.ok = {"status_json"}
  BY <1>2, NewRegistryIsEmpty DEF IsMarked, HasRead
<1>5. \A i \in Input : Matches(reg, i)
  BY <1>2, <1>3, <1>4 DEF Matches, IsMarked
<1> QED
  BY <1>3, <1>4, <1>5, InputsTold DEF ReadFirst, reg

LEMMA DocumentRead ==
  ASSUME NEW status \in Status
  PROVE  ReadFirst(WithStatus(NewRegistry, status), status)
<1> DEFINE marked == Marked(NewRegistry, "status_json", TRUE)
           read   == [marked EXCEPT !.rendered = status.age]
           first  == Added(read, "host_posture", {"host_posture"} \X {1})
           hot    == [first EXCEPT !.posture = Effective(status)]
           full   == Added(hot, "host_posture", {"host_posture"} \X Rank)
           posted == WithPosture(read, status)
           tls    == [raises |-> ~status.tls,
                      added |-> IF status.tls THEN Rank ELSE {}]
           reg    == WithStatus(NewRegistry, status)
<1>1. reg = Guarded(posted, "tls", tls)
  BY NoStatusTold DEF WithStatus, WithTls
<1>2. posted = IF status.posture = "unavailable"
               THEN Marked(hot, "host_posture", FALSE)
               ELSE Marked(full, "host_posture", TRUE)
  <2>1. {<<"host_posture", 1>>} = {"host_posture"} \X {1}
    OBVIOUS
  <2> QED
    BY <2>1, Zenon DEF WithPosture, Samples
<1>3. tls \in Attempt /\ (tls.raises <=> ~status.tls)
  BY DEF Attempt, Status
<1> HIDE DEF reg, posted, tls
<1>4. IsMarked(NewRegistry, "status_json", TRUE, marked)
  BY NewRegistryIsEmpty, InputsTold, MarkedDoes
<1> HIDE DEF marked
<1>5. /\ read \in Registry /\ DOMAIN read.ok = {"status_json"}
      /\ read.ok["status_json"] = TRUE
      /\ read.rendered = status.age
      /\ \A i \in Input : Filled(read, i) = {}
  <2>1. marked \in Registry /\ status.age \in Nat
    BY <1>4 DEF IsMarked, Status
  <2>2. /\ read \in Registry /\ read.ok = marked.ok
        /\ read.families = marked.families /\ read.rendered = status.age
    BY <2>1 DEF Registry
  <2> QED
    BY <1>4, <2>2, NewRegistryIsEmpty DEF IsMarked, Filled
<1> HIDE DEF read
<1>6. HasMore(read, "host_posture", {1}, first)
  <2>1. {1} \in SUBSET Rank
    BY DEF Rank
  <2> QED
    BY <1>5, <2>1, InputsTold, AddedDoes
<1> HIDE DEF first
<1>7. /\ hot \in Registry /\ hot.ok = read.ok /\ hot.rendered = status.age
      /\ hot.posture = Effective(status)
      /\ Filled(hot, "host_posture") = {<<"host_posture", 1>>}
      /\ \A i \in Input : i # "host_posture" => Filled(hot, i) = {}
  <2>1. first \in Registry /\ Effective(status) \in PostureState
    BY <1>6, EffectiveTyped DEF HasMore
  <2>2. /\ hot \in Registry /\ hot.ok = first.ok
        /\ hot.families = first.families /\ hot.rendered = first.rendered
        /\ hot.posture = Effective(status)
    BY <2>1 DEF Registry
  <2>3. \A i : Filled(hot, i) = Filled(first, i)
    BY <2>2 DEF Filled
  <2> HIDE DEF hot
  <2>4. Filled(hot, "host_posture") = {<<"host_posture", 1>>}
    BY <1>5, <1>6, <2>3, InputsTold DEF HasMore
  <2> QED
    BY <1>5, <1>6, <2>2, <2>3, <2>4 DEF HasMore
<1> HIDE DEF hot
<1>8. HasMore(hot, "host_posture", Rank, full)
  BY <1>7, InputsTold, AddedDoes
<1> HIDE DEF full
<1> DEFINE flag == status.posture # "unavailable"
<1>9. /\ posted \in Registry
      /\ posted.rendered = status.age /\ posted.posture = Effective(status)
      /\ DOMAIN posted.ok = {"status_json", "host_posture"}
      /\ posted.ok["status_json"] = TRUE /\ posted.ok["host_posture"] = flag
      /\ Filled(posted, "host_posture") =
           IF flag THEN Samples("host_posture") ELSE {<<"host_posture", 1>>}
      /\ \A i \in Input : i # "host_posture" => Filled(posted, i) = {}
  <2>1. CASE status.posture = "unavailable"
    <3>1. IsMarked(hot, "host_posture", FALSE, posted)
      BY <1>2, <1>7, <2>1, InputsTold, MarkedDoes
    <3>2. \A i : Filled(posted, i) = Filled(hot, i)
      BY <3>1 DEF IsMarked, Filled
    <3>3. flag = FALSE
      BY <2>1
    <3> QED
      BY <1>5, <1>7, <3>1, <3>2, <3>3 DEF IsMarked
  <2>2. CASE status.posture # "unavailable"
    <3>1. IsMarked(full, "host_posture", TRUE, posted)
      BY <1>2, <1>8, <2>2, InputsTold, MarkedDoes DEF HasMore
    <3>2. \A i : Filled(posted, i) = Filled(full, i)
      BY <3>1 DEF IsMarked, Filled
    <3>3. flag = TRUE
      BY <2>2
    <3>4. Filled(posted, "host_posture") = Samples("host_posture")
      <4>1. <<"host_posture", 1>> \in Samples("host_posture")
        BY DEF Samples, Rank
      <4> QED
        BY <1>7, <1>8, <3>2, <4>1 DEF HasMore, Samples
    <3> QED
      BY <1>5, <1>7, <1>8, <3>1, <3>2, <3>3, <3>4 DEF IsMarked, HasMore
  <2> QED
    BY <2>1, <2>2
<1>10. IsGuarded(posted, "tls", tls.raises, reg)
  BY <1>1, <1>3, <1>9, InputsTold, GuardedDoes
<1>11. HasRead(reg, status)
  BY <1>9, <1>10, NoStatusTold DEF IsGuarded, HasRead
<1>12. DOMAIN reg.ok = {"status_json"} \cup Sections
  BY <1>9, <1>10 DEF IsGuarded, Sections
<1>13. \A i \in Plain : Filled(reg, i) = {}
  BY <1>9, <1>10, InputsTold DEF IsGuarded
<1>14. Matches(reg, "status_json")
  BY <1>9, <1>10 DEF IsGuarded, Matches
<1>15. Matches(reg, "host_posture")
  <2>1. /\ reg.ok["host_posture"] = flag /\ "host_posture" \in DOMAIN reg.ok
        /\ Filled(reg, "host_posture") = Filled(posted, "host_posture")
    BY <1>9, <1>10, InputsTold DEF IsGuarded
  <2> QED
    BY <1>9, <2>1 DEF Matches
<1>16. Matches(reg, "tls")
  <2>1. /\ reg.ok["tls"] = ~tls.raises /\ "tls" \in DOMAIN reg.ok
        /\ Filled(reg, "tls") = IF tls.raises THEN {} ELSE Samples("tls")
    BY <1>9, <1>10, InputsTold DEF IsGuarded
  <2> QED
    BY <1>3, <2>1 DEF Matches
<1> QED
  BY <1>11, <1>12, <1>13, <1>14, <1>15, <1>16, NoStatusTold, InputsTold
  DEF ReadFirst, reg

\* The fold has a solution.
LEMMA GatheredIsDefined ==
  ASSUME NEW attempts \in [Plain -> Attempt], NEW base \in Registry
  PROVE  \E iter : iter = Gathered(attempts, base, iter)
<1> DEFINE S == SUBSET Plain
           R == StrictSubsetOrdering(Plain)
           First(s) == CHOOSE i \in s : TRUE
           Following(f, s) == IF s = {} THEN base
                              ELSE Guarded(f[s \ {First(s)}], First(s),
                                           attempts[First(s)])
           B == [p \in [S -> Registry] \X S |-> Following(p[1], p[2])]
<1>1. \A f \in [S -> Registry], s \in S : B[<<f, s>>] = Following(f, s)
  <2> HIDE DEF Following, S
  <2> QED
    OBVIOUS
<1>2. \A s \in S : s # {} => /\ First(s) \in s /\ First(s) \in Plain
                             /\ s \ {First(s)} \in S
                             /\ <<s \ {First(s)}, s>> \in R
  BY PartsAreWellFounded
<1> HIDE DEF First, S, R
<1>3. \A f \in [S -> Registry] : \A s \in S : Following(f, s) \in Registry
  <2> SUFFICES ASSUME NEW f \in [S -> Registry], NEW s \in S, s # {}
               PROVE  Following(f, s) \in Registry
    OBVIOUS
  <2>1. /\ f[s \ {First(s)}] \in Registry /\ First(s) \in Input
        /\ attempts[First(s)] \in Attempt
    BY <1>2, InputsTold
  <2> QED
    BY <2>1, GuardedDoes DEF IsGuarded
<1>4. Local(R, S, Registry, B)
  <2> HIDE DEF Following, B
  <2> SUFFICES ASSUME NEW f \in [S -> Registry], NEW g \in [S -> Registry],
                      NEW s \in S, \A y \in S : <<y, s>> \in R => f[y] = g[y]
               PROVE  B[<<f, s>>] = B[<<g, s>>]
    BY DEF Local
  <2>1. Following(f, s) = Following(g, s)
    BY <1>2 DEF Following
  <2> QED
    BY <1>1, <2>1
<1>5. \A f \in [S -> Registry] : \A s \in S : B[<<f, s>>] \in Registry
  BY <1>1, <1>3
<1>6. IsWellFoundedOn(R, S) /\ Chain(R, S)
  BY PartsAreWellFounded DEF R, S
<1>7. Recursion(S, R, Registry, B)
  BY <1>4, <1>5, <1>6 DEF Recursion
<1> HIDE DEF B
<1>8. PICK f \in [S -> Registry] : \A s \in S : f[s] = B[<<f, s>>]
  BY <1>7, RecursionExists
<1>9. \A s \in S : f[s] = Following(f, s)
  BY <1>1, <1>8
<1>10. f = [s \in S |-> Following(f, s)]
  <2> HIDE DEF Following
  <2> QED
    BY <1>8, <1>9
<1> QED
  BY <1>10, Zenon DEF Gathered, First, S

\* After the inputs of s: theirs are told apart by their marks, and what the
\* documents gave is as it was.
ReadAfter(reg, base, s) ==
  /\ reg \in Registry
  /\ reg.posture = base.posture /\ reg.rendered = base.rendered
  /\ DOMAIN reg.ok = DOMAIN base.ok \cup s
  /\ \A i \in DOMAIN base.ok \ s : reg.ok[i] = base.ok[i]
  /\ \A i \in Input \ s : Filled(reg, i) = Filled(base, i)
  /\ \A i \in s : Filled(reg, i) = IF reg.ok[i] THEN Samples(i) ELSE {}

LEMMA OneMoreRead ==
  ASSUME NEW base \in Registry, \A j \in Plain : Filled(base, j) = {},
         NEW s \in SUBSET Plain, NEW i \in s,
         NEW reg, ReadAfter(reg, base, s \ {i}),
         NEW attempt \in Attempt
  PROVE  ReadAfter(Guarded(reg, i, attempt), base, s)
<1> DEFINE new == Guarded(reg, i, attempt)
<1>1. i \in Input /\ i \in Plain /\ reg \in Registry
  BY InputsTold DEF ReadAfter
<1>2. IsGuarded(reg, i, attempt.raises, new)
  BY <1>1, GuardedDoes
<1>3. attempt.raises \in BOOLEAN
  BY DEF Attempt
<1> HIDE DEF new
<1>4. Filled(reg, i) = {}
  BY <1>1 DEF ReadAfter
<1>5. Filled(new, i) = IF new.ok[i] THEN Samples(i) ELSE {}
  BY <1>2, <1>3, <1>4 DEF IsGuarded
<1>6. /\ new \in Registry
      /\ new.posture = base.posture /\ new.rendered = base.rendered
      /\ DOMAIN new.ok = DOMAIN base.ok \cup s
  BY <1>2 DEF IsGuarded, ReadAfter
<1>7. \A j \in DOMAIN base.ok \ s : new.ok[j] = base.ok[j]
  BY <1>2 DEF IsGuarded, ReadAfter
<1>8. \A j \in Input \ s : Filled(new, j) = Filled(base, j)
  BY <1>2 DEF IsGuarded, ReadAfter
<1>9. ASSUME NEW j \in s, j # i
      PROVE  Filled(new, j) = IF new.ok[j] THEN Samples(j) ELSE {}
  <2>1. j \in Input /\ j \in DOMAIN reg.ok
    BY <1>9, InputsTold DEF ReadAfter
  <2>2. Filled(new, j) = Filled(reg, j) /\ new.ok[j] = reg.ok[j]
    BY <1>2, <1>9, <2>1 DEF IsGuarded
  <2> QED
    BY <1>9, <2>2 DEF ReadAfter
<1> QED
  BY <1>5, <1>6, <1>7, <1>8, <1>9 DEF ReadAfter, new

LEMMA AllRead ==
  ASSUME NEW attempts \in [Plain -> Attempt], NEW base \in Registry,
         \A j \in Plain : Filled(base, j) = {},
         NEW iter, iter = Gathered(attempts, base, iter)
  PROVE  ReadAfter(iter[Plain], base, Plain)
<1> DEFINE S == SUBSET Plain
           R == StrictSubsetOrdering(Plain)
           U == {s \in S : ReadAfter(iter[s], base, s)}
           First(s) == CHOOSE i \in s : TRUE
<1>1. \A s \in S : iter[s] = IF s = {} THEN base
                             ELSE Guarded(iter[s \ {First(s)}], First(s),
                                          attempts[First(s)])
  <2> DEFINE body == [s \in S |-> IF s = {} THEN base
                                  ELSE Guarded(iter[s \ {First(s)}], First(s),
                                               attempts[First(s)])]
  <2>1. iter = body
    BY Zenon DEF Gathered
  <2>2. \A s \in S : body[s] = IF s = {} THEN base
                               ELSE Guarded(iter[s \ {First(s)}], First(s),
                                            attempts[First(s)])
    BY Zenon
  <2> HIDE DEF body
  <2> QED
    BY <2>1, <2>2, Zenon
<1>2. ASSUME NEW s \in S, \A y \in S : <<y, s>> \in R => y \in U
      PROVE  s \in U
  <2>1. CASE s = {}
    <3>1. iter[s] = base
      BY <1>1, <2>1
    <3>2. ReadAfter(base, base, {})
      BY DEF ReadAfter
    <3> QED
      BY <2>1, <3>1, <3>2
  <2>2. CASE s # {}
    <3> DEFINE i == First(s)
    <3>1. i \in s
      BY <2>2
    <3>2. iter[s] = Guarded(iter[s \ {i}], i, attempts[i])
      BY <1>1, <2>2
    <3> HIDE DEF i
    <3>3. s \ {i} \in S /\ <<s \ {i}, s>> \in R
      BY <3>1, PartsAreWellFounded
    <3>4. ReadAfter(iter[s \ {i}], base, s \ {i})
      BY <1>2, <3>3
    <3>5. attempts[i] \in Attempt
      BY <3>1
    <3>6. ReadAfter(Guarded(iter[s \ {i}], i, attempts[i]), base, s)
      BY <3>1, <3>4, <3>5, OneMoreRead
    <3> QED
      BY <3>2, <3>6
  <2> QED
    BY <2>1, <2>2
<1>3. IsWellFoundedOn(R, S)
  BY PartsAreWellFounded
<1>4. S \subseteq U
  <2> HIDE DEF S, R, U
  <2> QED
    BY <1>2, <1>3, InductionOnSet
<1>5. Plain \in S
  OBVIOUS
<1> QED
  BY <1>4, <1>5

\* What collect returns, for every document and whatever the collectors do.
LEMMA CollectDoes ==
  ASSUME NEW status \in Status \cup {NoStatus},
         NEW attempts \in [Plain -> Attempt]
  PROVE  /\ HasRead(Collect(status, attempts), status)
         /\ DOMAIN Collect(status, attempts).ok \in {Input, Input \ Sections}
         /\ \A i \in Input : Matches(Collect(status, attempts), i)
<1> DEFINE base == WithStatus(NewRegistry, status)
           reg  == Collect(status, attempts)
<1>1. ReadFirst(base, status)
  BY NoDocumentRead, DocumentRead
<1>2. base \in Registry /\ \A j \in Plain : Filled(base, j) = {}
  BY <1>1 DEF ReadFirst, HasRead
<1> DEFINE iter == CHOOSE f : f = Gathered(attempts, base, f)
<1>3. reg = iter[Plain]
  BY CollectUnfolds, Zenon
<1> HIDE DEF base, reg
<1>4. iter = Gathered(attempts, base, iter)
  BY <1>2, GatheredIsDefined, Zenon
<1> HIDE DEF iter
<1>5. ReadAfter(reg, base, Plain)
  BY <1>2, <1>3, <1>4, AllRead
<1>6. HasRead(reg, status)
  BY <1>1, <1>5, InputsTold DEF ReadAfter, ReadFirst, HasRead
<1>7. DOMAIN reg.ok \in {Input, Input \ Sections}
  <2>1. DOMAIN reg.ok = DOMAIN base.ok \cup Plain
    BY <1>5 DEF ReadAfter
  <2> QED
    BY <1>1, <2>1, InputsTold DEF ReadFirst, Sections
<1>8. ASSUME NEW i \in Plain PROVE Matches(reg, i)
  <2>1. i \in DOMAIN reg.ok /\ Filled(reg, i) = IF reg.ok[i] THEN Samples(i) ELSE {}
    BY <1>5 DEF ReadAfter
  <2> QED
    BY <2>1, InputsTold DEF Matches
<1>9. ASSUME NEW i \in Input \ Plain PROVE Matches(reg, i)
  <2>1. Matches(base, i)
    BY <1>1 DEF ReadFirst
  <2>2. Filled(reg, i) = Filled(base, i)
    BY <1>5 DEF ReadAfter
  <2>3. i \in DOMAIN reg.ok <=> i \in DOMAIN base.ok
    BY <1>5 DEF ReadAfter
  <2>4. i \in DOMAIN base.ok => reg.ok[i] = base.ok[i]
    BY <1>5 DEF ReadAfter
  <2> QED
    BY <2>1, <2>2, <2>3, <2>4 DEF Matches
<1> QED
  BY <1>6, <1>7, <1>8, <1>9 DEF reg

(***************************************************************************)
(* The rules and the clocks.                                               *)
(***************************************************************************)

LEMMA Intervals ==
  /\ FreshFor \in Nat /\ ExporterMaxAge \in Nat /\ ExporterFor \in Nat
  /\ StaleAge \in Nat /\ StaleFor \in Nat /\ UnreadableFor \in Nat
  /\ UnknownFor \in Nat
  /\ Notice \in Nat /\ Notice = ExporterMaxAge + ExporterFor
  /\ Patience \in Nat /\ Patience = StaleFor + UnreadableFor
  /\ MaxAge \in Nat /\ MaxAge > StaleAge /\ MaxAge > ExporterMaxAge
  /\ MaxAge > Notice /\ Notice <= StaleAge
<1>1. /\ FreshFor \in Nat /\ ExporterMaxAge \in Nat /\ ExporterFor \in Nat
      /\ StaleAge \in Nat /\ StaleFor \in Nat /\ UnreadableFor \in Nat
      /\ UnknownFor \in Nat
  BY IntervalAssumption
<1> QED
  BY <1>1, SiteAssumption DEF Notice, Patience, MaxAge

LEMMA Capped ==
  ASSUME NEW age \in Nat
  PROVE  /\ Cap(age) \in 0 .. MaxAge
         /\ age <= MaxAge => Cap(age) = age
         /\ age > MaxAge => Cap(age) = MaxAge
BY Intervals DEF Cap

LEMMA RulesTold ==
  /\ "ExporterStale" \in Rule /\ "StatusSiteRenderStale" \in Rule
  /\ "status_json" \in Rule
  /\ For("ExporterStale") = ExporterFor
  /\ For("StatusSiteRenderStale") = StaleFor
  /\ For("status_json") = UnreadableFor
  /\ \A rule \in Rule : For(rule) \in Nat
<1>1. /\ "ExporterStale" \in Rule /\ "StatusSiteRenderStale" \in Rule
      /\ "status_json" \in Rule
  BY IntervalAssumption DEF Rule
<1>2. /\ For("ExporterStale") = ExporterFor
      /\ For("StatusSiteRenderStale") = StaleFor
      /\ For("status_json") = UnreadableFor
      /\ For("HostPostureUnknownPersisting") = UnknownFor
  BY Zenon DEF For
<1>3. ASSUME NEW rule \in Rule PROVE For(rule) \in Nat
  <2>1. \/ rule \in {"ExporterStale", "StatusSiteRenderStale",
                     "HostPostureUnknownPersisting"}
        \/ For(rule) = UnreadableFor
    BY Zenon DEF For
  <2> QED
    BY <1>2, <2>1, Intervals
<1> QED
  BY <1>1, <1>2, <1>3

LEMMA HoldsTold ==
  ASSUME NEW file
  PROVE  /\ Holds("ExporterStale", file) <=> file.age > ExporterMaxAge
         /\ Holds("StatusSiteRenderStale", file) <=> file.reg.rendered > StaleAge
         /\ Holds("status_json", file) <=>
              "status_json" \in DOMAIN file.reg.ok /\ ~file.reg.ok["status_json"]
BY Zenon DEF Holds

\* A count starts again, goes up by one, or has passed its limit.
LEMMA EvaluatedDoes ==
  ASSUME TypeOK, NEW rule \in Rule, NEW file
  PROVE  /\ Evaluated(rule, file) \in 0 .. For(rule) + 1
         /\ Holds(rule, file) => \/ Evaluated(rule, file) > For(rule)
                                 \/ Evaluated(rule, file) = pending[rule] + 1
<1>1. For(rule) \in Nat /\ pending[rule] \in 0 .. For(rule) + 1
  BY RulesTold DEF TypeOK
<1> QED
  BY <1>1 DEF Evaluated

\* What a tick makes of each variable.
LEMMA TickDoes ==
  ASSUME TypeOK, Tick
  PROVE  /\ artifact' \in [left : (-Notice - 1) .. FreshFor, state : PostureState]
         /\ artifact'.left = Floor(artifact.left - 1, -Notice - 1)
         /\ site' \in [readable : BOOLEAN, doc : Status]
         /\ site'.readable = site.readable
         /\ site'.doc.age = Cap(site.doc.age + 1)
         /\ site'.doc.left = Floor(site.doc.left - 1, -1)
         /\ prom' \in [age : 0 .. MaxAge, reg : Registry]
         /\ prom'.age = Cap(prom.age + 1)
         /\ prom'.reg.families = prom.reg.families /\ prom'.reg.ok = prom.reg.ok
         /\ prom'.reg.posture = prom.reg.posture
         /\ prom'.reg.rendered = IF prom.reg.rendered = -1 THEN -1
                                 ELSE Cap(prom.reg.rendered + 1)
<1>1. /\ artifact \in [left : (-Notice - 1) .. FreshFor, state : PostureState]
      /\ site \in [readable : BOOLEAN, doc : Status]
      /\ prom \in [age : 0 .. MaxAge, reg : Registry]
  BY DEF TypeOK
<1>2. /\ artifact' \in [left : (-Notice - 1) .. FreshFor, state : PostureState]
      /\ artifact'.left = Floor(artifact.left - 1, -Notice - 1)
  <2>1. Floor(artifact.left - 1, -Notice - 1) \in (-Notice - 1) .. FreshFor
    BY <1>1, Intervals DEF Floor
  <2>2. artifact' = [artifact EXCEPT !.left = Floor(artifact.left - 1, -Notice - 1)]
    BY DEF Tick
  <2> QED
    BY <1>1, <2>1, <2>2
<1>3. /\ site' \in [readable : BOOLEAN, doc : Status]
      /\ site'.readable = site.readable
      /\ site'.doc.age = Cap(site.doc.age + 1)
      /\ site'.doc.left = Floor(site.doc.left - 1, -1)
  <2> DEFINE age == Cap(site.doc.age + 1)
             left == Floor(site.doc.left - 1, -1)
             doc == [site.doc EXCEPT !.age = age, !.left = left]
  <2>1. site.doc \in Status /\ site.doc.age \in Nat /\ site.doc.left \in Nat \cup {-1}
    BY <1>1 DEF Status
  <2>2. age \in Nat
    BY <2>1, Capped, Intervals
  <2>3. left \in Nat \cup {-1}
    BY <2>1 DEF Floor
  <2>4. site' = [site EXCEPT !.doc = doc]
    BY <1>1, <2>1 DEF Tick, Status
  <2> HIDE DEF age, left
  <2>5. doc \in Status /\ doc.age = age /\ doc.left = left
    BY <2>1, <2>2, <2>3 DEF Status
  <2> HIDE DEF doc
  <2>6. site' \in [readable : BOOLEAN, doc : Status] /\ site'.doc = doc
        /\ site'.readable = site.readable
    BY <1>1, <2>4, <2>5
  <2> QED
    BY <2>5, <2>6 DEF age, left
<1>4. /\ prom' \in [age : 0 .. MaxAge, reg : Registry]
      /\ prom'.age = Cap(prom.age + 1)
      /\ prom'.reg.families = prom.reg.families /\ prom'.reg.ok = prom.reg.ok
      /\ prom'.reg.posture = prom.reg.posture
      /\ prom'.reg.rendered = IF prom.reg.rendered = -1 THEN -1
                              ELSE Cap(prom.reg.rendered + 1)
  <2> DEFINE age == Cap(prom.age + 1)
             rendered == IF prom.reg.rendered = -1 THEN -1
                         ELSE Cap(prom.reg.rendered + 1)
             reg == [prom.reg EXCEPT !.rendered = rendered]
  <2>1. prom.reg \in Registry /\ prom.age \in Nat
        /\ prom.reg.rendered \in Nat \cup {-1}
    BY <1>1 DEF Registry
  <2>2. age \in 0 .. MaxAge
    BY <2>1, Capped
  <2>3. rendered \in Nat \cup {-1}
    BY <2>1, Capped, Intervals
  <2>4. prom' = [prom EXCEPT !.age = age, !.reg = reg]
    BY <1>1, <2>1 DEF Tick, Older, Registry
  <2> HIDE DEF age, rendered
  <2>5. /\ reg \in Registry /\ reg.rendered = rendered
        /\ reg.families = prom.reg.families /\ reg.ok = prom.reg.ok
        /\ reg.posture = prom.reg.posture
    BY <2>1, <2>3 DEF Registry
  <2> HIDE DEF reg
  <2>6. /\ prom' \in [age : 0 .. MaxAge, reg : Registry]
        /\ prom'.age = age /\ prom'.reg = reg
    BY <1>1, <2>2, <2>4, <2>5
  <2> QED
    BY <2>5, <2>6 DEF age, rendered
<1> QED
  BY <1>2, <1>3, <1>4

(***************************************************************************)
(* Type correctness.                                                       *)
(***************************************************************************)

\* The documents an export can meet.
LEMMA DocumentsTyped ==
  /\ TypeOK => (IF site.readable THEN site.doc ELSE NoStatus) \in Status \cup {NoStatus}
  /\ NoFailure \in [Plain -> Attempt]
<1>1. [raises |-> FALSE, added |-> Rank] \in Attempt
  BY DEF Attempt
<1>2. NoFailure \in [Plain -> Attempt]
  BY <1>1, Zenon DEF NoFailure
<1> QED
  BY <1>2 DEF TypeOK

\* The artifact, the document and the file of the first state.
LEMMA InitTyped == Init => TypeOK
<1> SUFFICES ASSUME Init PROVE TypeOK
  OBVIOUS
<1>1. artifact \in [left : (-Notice - 1) .. FreshFor, state : PostureState]
  BY Intervals DEF Init, PostureState
<1>2. /\ site \in [readable : BOOLEAN, doc : Status]
      /\ site.doc.age <= MaxAge /\ site.doc \in Status
  BY Intervals, IntervalAssumption DEF Init, Status, PostureState
<1>3. /\ prom \in [age : 0 .. MaxAge, reg : Registry]
      /\ DOMAIN prom.reg.ok \in {Input, Input \ Sections}
  <2> DEFINE reg == Collect(site.doc, NoFailure)
  <2>1. reg \in Registry /\ DOMAIN reg.ok \in {Input, Input \ Sections}
    BY <1>2, DocumentsTyped, CollectDoes DEF HasRead
  <2>2. prom = [age |-> 0, reg |-> reg]
    BY DEF Init
  <2> HIDE DEF reg
  <2> QED
    BY <2>1, <2>2, Intervals
<1>4. DOMAIN pending = Rule /\ \A rule \in Rule : pending[rule] \in 0 .. For(rule) + 1
  <2>1. \A rule \in Rule : 0 \in 0 .. For(rule) + 1
    BY RulesTold
  <2> QED
    BY <2>1 DEF Init
<1>5. silent \in 0 .. Patience + 1
  BY Intervals DEF Init
<1> QED
  BY <1>1, <1>2, <1>3, <1>4, <1>5 DEF TypeOK

LEMMA NextTyped == TypeOK /\ [Next]_vars => TypeOK'
<1> SUFFICES ASSUME TypeOK, [Next]_vars PROVE TypeOK'
  OBVIOUS
<1>1. CASE PublishArtifact
  <2>1. artifact' \in [left : (-Notice - 1) .. FreshFor, state : PostureState]
    BY <1>1, Intervals DEF PublishArtifact
  <2> QED
    BY <1>1, <2>1 DEF PublishArtifact, TypeOK
<1>2. CASE Render
  <2>1. PICK doc \in Document : site' = [readable |-> TRUE, doc |-> doc]
    BY <1>2 DEF Render
  <2>2. doc \in Status /\ doc.age = 0
    <3>1. Floor(artifact.left, -1) \in Nat \cup {-1}
      BY Intervals DEF TypeOK, Floor
    <3>2. artifact.state \in PostureState
      BY DEF TypeOK
    <3> DEFINE probed == IF TlsProbe THEN BOOLEAN ELSE {FALSE}
    <3>3. probed \subseteq BOOLEAN
      OBVIOUS
    <3>4. doc \in [age : {0}, posture : {artifact.state, "unavailable"},
                  left : {Floor(artifact.left, -1)}, tls : probed]
      BY DEF Document
    <3> HIDE DEF probed
    <3> QED
      BY <3>1, <3>2, <3>3, <3>4 DEF Status
  <2>3. site' \in [readable : BOOLEAN, doc : Status] /\ site'.doc.age <= MaxAge
    BY <2>1, <2>2, Intervals
  <2> QED
    BY <1>2, <2>3 DEF Render, TypeOK
<1>3. CASE LoseStatus
  BY <1>3 DEF LoseStatus, TypeOK
<1>4. CASE Export
  <2>1. PICK attempts \in [Plain -> Attempt] :
          prom' = [age |-> 0,
                   reg |-> Collect(IF site.readable THEN site.doc ELSE NoStatus,
                                   attempts)]
    BY <1>4 DEF Export
  <2> DEFINE reg == Collect(IF site.readable THEN site.doc ELSE NoStatus, attempts)
  <2>2. reg \in Registry /\ DOMAIN reg.ok \in {Input, Input \ Sections}
    BY DocumentsTyped, CollectDoes DEF HasRead
  <2> HIDE DEF reg
  <2>3. /\ prom' \in [age : 0 .. MaxAge, reg : Registry]
        /\ DOMAIN prom'.reg.ok \in {Input, Input \ Sections}
    BY <2>1, <2>2, Intervals DEF reg
  <2> QED
    BY <1>4, <2>3 DEF Export, TypeOK
<1>5. CASE Tick
  <2>1. /\ artifact' \in [left : (-Notice - 1) .. FreshFor, state : PostureState]
        /\ site' \in [readable : BOOLEAN, doc : Status]
        /\ prom' \in [age : 0 .. MaxAge, reg : Registry]
        /\ prom'.reg.ok = prom.reg.ok
    BY <1>5, TickDoes
  <2>2. site'.doc.age <= MaxAge
    <3>1. site.doc.age + 1 \in Nat
      BY DEF TypeOK, Status
    <3> QED
      BY <1>5, <3>1, TickDoes, Capped, Intervals
  <2>3. /\ DOMAIN pending' = Rule
        /\ \A rule \in Rule : pending'[rule] \in 0 .. For(rule) + 1
    BY <1>5, EvaluatedDoes DEF Tick
  <2>4. silent' \in 0 .. Patience + 1
    BY <1>5, Intervals DEF Tick, TypeOK
  <2> QED
    BY <2>1, <2>2, <2>3, <2>4 DEF TypeOK
<1>6. CASE UNCHANGED vars
  BY <1>6 DEF vars, TypeOK
<1> QED
  BY <1>1, <1>2, <1>3, <1>4, <1>5, <1>6 DEF Next

\* Every state an execution reaches is well typed, for any inputs of the
\* exporter, any waiting times and whatever the programs do.
THEOREM TypeCorrect == Spec => []TypeOK
BY InitTyped, NextTyped, PTL DEF Spec

(***************************************************************************)
(* What the export takes from the site.                                    *)
(***************************************************************************)

\* A file with age 0, of the site as it is.
Fresh(file) ==
  /\ file.age = 0
  /\ "status_json" \in DOMAIN file.reg.ok
  /\ file.reg.ok["status_json"] <=> site.readable
  /\ ~site.readable => file.reg.posture = "absent" /\ file.reg.rendered = -1
  /\ site.readable => /\ file.reg.posture = Effective(site.doc)
                      /\ file.reg.rendered = site.doc.age

LEMMA FreshFile ==
  ASSUME TypeOK, NEW attempts \in [Plain -> Attempt], NEW file,
         file = [age |-> 0,
                 reg |-> Collect(IF site.readable THEN site.doc ELSE NoStatus,
                                 attempts)]
  PROVE  Fresh(file) /\ \A i \in Input : Matches(file.reg, i)
<1> DEFINE status == IF site.readable THEN site.doc ELSE NoStatus
           reg == Collect(status, attempts)
<1>1. HasRead(reg, status) /\ \A i \in Input : Matches(reg, i)
  BY DocumentsTyped, CollectDoes
<1>2. file.age = 0 /\ file.reg = reg
  OBVIOUS
<1>3. status # NoStatus <=> site.readable
  BY NoStatusTold DEF TypeOK
<1>4. site.readable => status = site.doc
  OBVIOUS
<1> HIDE DEF reg, status
<1> QED
  BY <1>1, <1>2, <1>3, <1>4 DEF HasRead, Fresh

LEMMA ExportDoes ==
  ASSUME TypeOK, Export
  PROVE  Fresh(prom') /\ \A i \in Input : Matches(prom'.reg, i)
BY FreshFile DEF Export

LEMMA InitDoes ==
  ASSUME Init
  PROVE  /\ TypeOK /\ Fresh(prom) /\ \A i \in Input : Matches(prom.reg, i)
         /\ site.readable /\ site.doc.age = 0
         /\ site.doc.left = artifact.left
<1>1. TypeOK
  BY InitTyped
<1>2. /\ site.readable /\ site.doc.age = 0 /\ site.doc.left = artifact.left
      /\ prom = [age |-> 0, reg |-> Collect(site.doc, NoFailure)]
  BY DEF Init
<1>3. Fresh(prom) /\ \A i \in Input : Matches(prom.reg, i)
  BY <1>1, <1>2, DocumentsTyped, FreshFile
<1> QED
  BY <1>1, <1>2, <1>3

\* A posture that is shown is the document's, and the document not past
\* its limit.
LEMMA EffectiveTold ==
  ASSUME NEW status \in Status, Effective(status) \in Conclusion
  PROVE  status.left >= 0
<1>1. "unknown" \notin Conclusion
  BY InputAssumption
<1>2. status.left \in Int
  BY DEF Status
<1> QED
  BY <1>1, <1>2 DEF Effective

(***************************************************************************)
(* Postures.                                                               *)
(***************************************************************************)

\* What the posture in the file rests on.
PostureInv == Believed /\ PostureHeld

LEMMA PostureStep ==
  TypeOK /\ TypeOK' /\ PostureInv /\ [Next]_vars => PostureInv'
<1> SUFFICES ASSUME TypeOK, TypeOK', PostureInv, [Next]_vars
             PROVE  PostureInv'
  OBVIOUS
<1>1. CASE PublishArtifact
  <2>1. artifact'.left = FreshFor /\ UNCHANGED <<site, prom, pending>>
    BY <1>1 DEF PublishArtifact
  <2>2. artifact.left <= FreshFor /\ artifact.left \in Int
    BY DEF TypeOK
  <2>3. site.doc.left \in Int /\ prom.age \in Int /\ pending["ExporterStale"] \in Int
        /\ prom.age >= 0 /\ pending["ExporterStale"] >= 0
    BY RulesTold DEF TypeOK, Status
  <2>4. Believed'
    BY <2>1, <2>2, <2>3, Intervals DEF Believed, PostureInv
  <2>5. PostureHeld'
    BY <2>1, <2>3, Intervals DEF PostureHeld
  <2> QED
    BY <2>4, <2>5 DEF PostureInv
<1>2. CASE Render
  <2>1. PICK doc \in Document : site' = [readable |-> TRUE, doc |-> doc]
    BY <1>2 DEF Render
  <2>2. site'.doc.left = Floor(artifact.left, -1)
    BY <2>1 DEF Document
  <2>3. Believed'
    BY <1>2, <2>2 DEF Render, Believed, Floor, TypeOK
  <2> QED
    BY <1>2, <2>3 DEF Render, PostureHeld, PostureInv, Firing
<1>3. CASE LoseStatus
  <2>1. site'.doc = site.doc
    BY <1>3 DEF LoseStatus, TypeOK
  <2> QED
    BY <1>3, <2>1 DEF LoseStatus, PostureInv, Believed, PostureHeld, Firing
<1>4. CASE Export
  <2>1. prom'.reg.posture \in Conclusion =>
          site.readable /\ prom'.reg.posture = Effective(site.doc)
    BY <1>4, ExportDoes, InputAssumption DEF Fresh
  <2>2. prom'.reg.posture \in Conclusion => site.doc.left >= 0
    BY <2>1, EffectiveTold DEF TypeOK
  <2>3. prom'.age = 0 /\ UNCHANGED <<artifact, site>>
    BY <1>4, ExportDoes DEF Export, Fresh
  <2>4. artifact.left \in Int /\ site.doc.left \in Int
    BY DEF TypeOK, Status
  <2>5. PostureHeld'
    BY <2>2, <2>3, <2>4, Intervals DEF PostureInv, Believed, PostureHeld
  <2> QED
    BY <2>3, <2>5 DEF PostureInv, Believed
<1>5. CASE Tick
  <2>1. /\ artifact'.left = Floor(artifact.left - 1, -Notice - 1)
        /\ site'.doc.left = Floor(site.doc.left - 1, -1)
        /\ prom'.age = Cap(prom.age + 1)
        /\ prom'.reg.posture = prom.reg.posture
    BY <1>5, TickDoes
  <2>2. /\ artifact.left \in Int /\ site.doc.left \in Int /\ prom.age \in Nat
        /\ artifact.left >= -Notice - 1 /\ prom.age <= MaxAge
    BY DEF TypeOK, Status
  <2>3. Believed'
    BY <2>1, <2>2, Intervals DEF PostureInv, Believed, Floor
  <2> DEFINE count == pending["ExporterStale"]
  <2>4. /\ count \in Nat
        /\ prom'.age > ExporterMaxAge =>
             count' > ExporterFor \/ count' = count + 1
    <3>1. pending'["ExporterStale"] = Evaluated("ExporterStale", prom')
      BY <1>5, RulesTold DEF Tick
    <3> QED
      BY <3>1, RulesTold, HoldsTold, EvaluatedDoes DEF TypeOK
  <2>5. count > ExporterFor /\ prom'.age > ExporterMaxAge => count' > ExporterFor
    BY <2>4, Intervals
  <2>6. ASSUME prom.reg.posture \in Conclusion PROVE PostureHeld'
    <3>1. CASE prom.age < ExporterMaxAge
      <4>1. prom'.age = prom.age + 1 /\ prom'.age <= ExporterMaxAge
        BY <2>1, <2>2, <3>1, Capped, Intervals
      <4>2. artifact.left >= -prom.age
        BY <2>2, <2>6, <3>1, Intervals DEF PostureInv, PostureHeld
      <4>3. artifact'.left >= -prom'.age
        BY <2>1, <2>2, <3>1, <4>1, <4>2, Intervals DEF Floor
      <4> QED
        BY <4>1, <4>3 DEF PostureHeld
    <3>2. CASE prom.age >= ExporterMaxAge
      <4>1. prom'.age > ExporterMaxAge
        BY <2>1, <2>2, <3>2, Capped, Intervals
      <4>2. count > ExporterFor \/ artifact.left >= -(ExporterMaxAge + count)
        BY <2>2, <2>4, <2>6, <3>2, RulesTold, Intervals
        DEF PostureInv, PostureHeld, Firing
      <4>3. count' > ExporterFor \/ artifact'.left >= -(ExporterMaxAge + count')
        <5>1. ASSUME artifact.left >= -(ExporterMaxAge + count), count' = count + 1
              PROVE  artifact'.left >= -(ExporterMaxAge + count')
          BY <2>1, <2>2, <2>4, <5>1, Intervals DEF Floor
        <5> QED
          BY <2>4, <2>5, <4>1, <4>2, <5>1
      <4>4. prom'.age \in Int
        BY DEF TypeOK
      <4>5. /\ ~(prom'.age <= ExporterMaxAge)
            /\ \/ Firing("ExporterStale")'
               \/ artifact'.left >= -(ExporterMaxAge + count')
        BY <4>1, <4>3, <4>4, RulesTold, Intervals DEF Firing
      <4> QED
        BY <4>5 DEF PostureHeld
    <3> QED
      BY <2>2, <3>1, <3>2, Intervals
  <2>7. prom.reg.posture \notin Conclusion => PostureHeld'
    BY <2>1 DEF PostureHeld
  <2> QED
    BY <2>3, <2>6, <2>7 DEF PostureInv
<1>6. CASE UNCHANGED vars
  BY <1>6 DEF vars, PostureInv, Believed, PostureHeld, Firing
<1> QED
  BY <1>1, <1>2, <1>3, <1>4, <1>5, <1>6 DEF Next

(***************************************************************************)
(* The stale site.                                                         *)
(***************************************************************************)

\* What bounds a silence.
SilenceInv ==
  /\ ExporterCounted /\ SiteRead
  /\ SilenceEnds /\ SilenceCounted /\ StaleSiteIsNotSilent

\* The state in plain numbers.
LEMMA Numbers ==
  ASSUME TypeOK
  PROVE  /\ prom.age \in Nat /\ prom.age <= MaxAge
         /\ site.doc.age \in Nat /\ site.doc.age <= MaxAge
         /\ prom.reg.rendered \in Nat \cup {-1}
         /\ pending["ExporterStale"] \in 0 .. ExporterFor + 1
         /\ pending["StatusSiteRenderStale"] \in 0 .. StaleFor + 1
         /\ pending["status_json"] \in 0 .. UnreadableFor + 1
         /\ silent \in Nat
BY RulesTold, Intervals DEF TypeOK, Status, Registry

\* Each of the three rules in a tick.
LEMMA TickCounts ==
  ASSUME TypeOK, Tick
  PROVE  /\ prom'.age > ExporterMaxAge =>
              \/ pending'["ExporterStale"] > ExporterFor
              \/ pending'["ExporterStale"] = pending["ExporterStale"] + 1
         /\ prom'.reg.rendered > StaleAge =>
              \/ pending'["StatusSiteRenderStale"] > StaleFor
              \/ pending'["StatusSiteRenderStale"] =
                   pending["StatusSiteRenderStale"] + 1
         /\ "status_json" \in DOMAIN prom'.reg.ok /\ ~prom'.reg.ok["status_json"] =>
              \/ pending'["status_json"] > UnreadableFor
              \/ pending'["status_json"] = pending["status_json"] + 1
<1>1. \A rule \in Rule : pending'[rule] = Evaluated(rule, prom')
  BY DEF Tick
<1> QED
  BY <1>1, RulesTold, HoldsTold, EvaluatedDoes

LEMMA AlarmTold ==
  SiteAlarm <=> \/ pending["ExporterStale"] > ExporterFor
                \/ pending["StatusSiteRenderStale"] > StaleFor
                \/ pending["status_json"] > UnreadableFor
BY RulesTold DEF SiteAlarm, Firing

LEMMA SilenceExport ==
  ASSUME TypeOK, SilenceInv, Export
  PROVE  SilenceInv'
<1>1. Fresh(prom') /\ UNCHANGED <<site, pending, silent>>
  BY ExportDoes DEF Export
<1>2. ExporterCounted'
  BY <1>1, Intervals DEF ExporterCounted, Fresh
<1>3. SiteRead'
  BY <1>1, Numbers DEF SiteRead, Fresh
<1>4. SilenceEnds'
  BY <1>1, Intervals DEF SilenceInv, SilenceEnds, Fresh, SiteAlarm, Firing
<1>5. SilenceCounted'
  <2> SUFFICES ASSUME site.doc.age > StaleAge, silent > 0
               PROVE  silent <= IF prom'.reg.ok["status_json"]
                                THEN pending["StatusSiteRenderStale"]
                                ELSE StaleFor + pending["status_json"]
    BY <1>1, Numbers, Intervals DEF SilenceCounted
  <2>1. /\ prom.age <= Notice
        /\ pending["StatusSiteRenderStale"] <= StaleFor
    BY AlarmTold, Numbers, Intervals DEF SilenceInv, SilenceEnds
  <2>2. CASE prom.reg.ok["status_json"]
    <3>1. silent <= pending["StatusSiteRenderStale"]
      BY <2>2 DEF SilenceInv, SilenceCounted
    <3> QED
      BY <2>1, <3>1, Numbers, Intervals
  <2>3. CASE ~prom.reg.ok["status_json"]
    <3>1. site.readable => site.doc.age <= prom.age
      BY <2>3 DEF SilenceInv, SiteRead
    <3>2. ~site.readable
      BY <2>1, <3>1, Numbers, Intervals
    <3>3. silent <= StaleFor + pending["status_json"]
      BY <2>3 DEF SilenceInv, SilenceCounted
    <3>4. ~prom'.reg.ok["status_json"]
      BY <1>1, <3>2 DEF Fresh
    <3> QED
      BY <3>3, <3>4
  <2> QED
    BY <2>2, <2>3
<1>6. StaleSiteIsNotSilent'
  BY <1>1 DEF SilenceInv, StaleSiteIsNotSilent
<1> QED
  BY <1>2, <1>3, <1>4, <1>5, <1>6 DEF SilenceInv

LEMMA SilenceTick ==
  ASSUME TypeOK, TypeOK', SilenceInv, Tick
  PROVE  SilenceInv'
<1>1. /\ site'.readable = site.readable
      /\ site'.doc.age = Cap(site.doc.age + 1)
      /\ prom'.age = Cap(prom.age + 1)
      /\ prom'.reg.ok = prom.reg.ok
      /\ prom'.reg.rendered = IF prom.reg.rendered = -1 THEN -1
                              ELSE Cap(prom.reg.rendered + 1)
  BY TickDoes
<1> DEFINE stale == pending["ExporterStale"]
           old   == pending["StatusSiteRenderStale"]
           bad   == pending["status_json"]
<1>2. ExporterCounted'
  <2> SUFFICES ASSUME prom'.age > ExporterMaxAge
               PROVE  stale' > ExporterFor \/ stale' >= prom'.age - ExporterMaxAge
    BY RulesTold DEF ExporterCounted, Firing
  <2>1. stale' > ExporterFor \/ stale' = stale + 1
    BY TickCounts
  <2>2. prom'.age \in Nat /\ prom'.age <= prom.age + 1
    BY <1>1, Numbers, Capped, Intervals
  <2>3. prom.age > ExporterMaxAge =>
          stale > ExporterFor \/ stale >= prom.age - ExporterMaxAge
    BY RulesTold DEF SilenceInv, ExporterCounted, Firing
  <2> QED
    BY <2>1, <2>2, <2>3, Numbers, Intervals
<1>3. SiteRead'
  <2>1. CASE prom.reg.ok["status_json"]
    <3>1. prom.reg.rendered >= site.doc.age
      BY <2>1 DEF SilenceInv, SiteRead
    <3>2. prom.reg.rendered \in Nat /\ prom.reg.rendered # -1
      BY <3>1, Numbers
    <3>3. Cap(prom.reg.rendered + 1) >= Cap(site.doc.age + 1)
      BY <3>1, <3>2, Numbers, Capped, Intervals
    <3>4. prom'.reg.rendered >= site'.doc.age
      BY <1>1, <3>2, <3>3
    <3> QED
      BY <1>1, <2>1, <3>4 DEF SilenceInv, SiteRead
  <2>2. CASE ~prom.reg.ok["status_json"]
    <3>1. prom.reg.rendered = -1 /\ (site.readable => site.doc.age <= prom.age)
      BY <2>2 DEF SilenceInv, SiteRead
    <3>2. site.readable => Cap(site.doc.age + 1) <= Cap(prom.age + 1)
      BY <3>1, Numbers, Capped, Intervals
    <3>3. prom'.reg.rendered = -1 /\ (site'.readable => site'.doc.age <= prom'.age)
      BY <1>1, <3>1, <3>2
    <3> QED
      BY <1>1, <2>2, <3>3 DEF SilenceInv, SiteRead
  <2> QED
    BY <2>1, <2>2
<1>4. silent' > 0 =>
        /\ site'.doc.age > StaleAge /\ ~SiteAlarm'
        /\ silent' = silent + 1
  <2>1. site'.doc.age \in Nat /\ silent <= Patience
    BY <1>1, Capped, Numbers, Intervals DEF SilenceInv, StaleSiteIsNotSilent
  <2> QED
    BY <2>1, Numbers, Intervals DEF Tick
<1>5. SilenceEnds'
  <2> SUFFICES ASSUME silent' > 0
               PROVE  prom'.age <= Notice /\ StaleAge > 0
    BY <1>4 DEF SilenceEnds
  <2>1. stale' <= ExporterFor
    BY <1>4, AlarmTold, RulesTold DEF SiteAlarm, Firing, TypeOK
  <2>2. prom'.age >= 1
    BY <1>1, Numbers, Capped, Intervals
  <2>3. prom'.age > ExporterMaxAge =>
          stale' > ExporterFor \/ stale' >= prom'.age - ExporterMaxAge
    BY <1>2, RulesTold DEF ExporterCounted, Firing
  <2>4. prom'.age \in Nat /\ stale' \in Nat
    BY RulesTold, Intervals DEF TypeOK
  <2> QED
    BY <2>1, <2>2, <2>3, <2>4, Intervals
\* A silence begins in this tick, or the site was stale already.
<1>6. silent' > 0 => silent = 0 \/ site.doc.age > StaleAge
  <2> SUFFICES ASSUME silent' > 0, silent > 0, ~(site.doc.age > StaleAge)
               PROVE  FALSE
    BY Numbers
  <2>1. site.doc.age = 0 /\ StaleAge > 0
    BY DEF SilenceInv, SilenceEnds
  <2>2. site'.doc.age = 1
    BY <1>1, <2>1, Capped, Intervals
  <2> QED
    BY <1>4, <2>1, <2>2, Intervals
<1>7. ASSUME silent' > 0
      PROVE  silent' <= IF prom'.reg.ok["status_json"] THEN old'
                        ELSE StaleFor + bad'
  <2>1. old' <= StaleFor /\ bad' <= UnreadableFor
    BY <1>4, <1>7, RulesTold, Intervals DEF SiteAlarm, Firing, TypeOK
  <2>2. CASE prom.reg.ok["status_json"]
    <3>1. prom'.reg.rendered >= site'.doc.age
      BY <1>1, <1>3, <2>2 DEF SiteRead
    <3>2. prom'.reg.rendered > StaleAge
      BY <1>1, <1>4, <1>7, <3>1, Numbers, Capped, Intervals
    <3>3. old' = old + 1
      BY <2>1, <3>2, TickCounts, RulesTold, Intervals DEF TypeOK
    <3>4. silent = 0 \/ silent <= old
      BY <1>6, <1>7, <2>2 DEF SilenceInv, SilenceCounted
    <3>5. silent' <= old'
      BY <1>4, <1>7, <3>3, <3>4, Numbers
    <3> QED
      BY <1>1, <2>2, <3>5
  <2>3. CASE ~prom.reg.ok["status_json"]
    <3>1. bad' = bad + 1
      BY <1>1, <2>1, <2>3, TickCounts, RulesTold, Intervals
      DEF TypeOK, SilenceInv, SiteRead
    <3>2. silent = 0 \/ silent <= StaleFor + bad
      BY <1>6, <1>7, <2>3 DEF SilenceInv, SilenceCounted
    <3>3. silent' <= StaleFor + bad'
      BY <1>4, <1>7, <3>1, <3>2, Numbers, Intervals
    <3> QED
      BY <1>1, <2>3, <3>3
  <2> QED
    BY <2>2, <2>3
<1>8. SilenceCounted' /\ StaleSiteIsNotSilent'
  <2>1. silent' \in Nat
    BY Intervals DEF TypeOK
  <2>2. old' \in Nat /\ bad' \in Nat
    BY RulesTold, Intervals DEF TypeOK
  <2>3. CASE silent' = 0
    BY <2>2, <2>3, Intervals DEF SilenceCounted, StaleSiteIsNotSilent
  <2>4. CASE silent' > 0
    <3>1. old' <= StaleFor /\ bad' <= UnreadableFor
      BY <1>4, <2>4, <2>2, RulesTold, Intervals DEF SiteAlarm, Firing
    <3>2. silent' <= Patience
      BY <1>7, <2>1, <2>2, <2>4, <3>1, Intervals
    <3> QED
      BY <1>7, <2>4, <3>2 DEF SilenceCounted, StaleSiteIsNotSilent
  <2> QED
    BY <2>1, <2>3, <2>4
<1> QED
  BY <1>2, <1>3, <1>5, <1>8 DEF SilenceInv

LEMMA SilenceStep ==
  TypeOK /\ TypeOK' /\ SilenceInv /\ [Next]_vars => SilenceInv'
<1> SUFFICES ASSUME TypeOK, TypeOK', SilenceInv, [Next]_vars
             PROVE  SilenceInv'
  OBVIOUS
<1> USE DEF SilenceInv, ExporterCounted, SiteRead, SilenceEnds, SilenceCounted,
            StaleSiteIsNotSilent, SiteAlarm, Firing
<1>1. CASE PublishArtifact
  BY <1>1 DEF PublishArtifact
<1>2. CASE Render
  <2>1. PICK doc \in Document : site' = [readable |-> TRUE, doc |-> doc]
    BY <1>2 DEF Render
  <2>2. site'.doc.age = 0
    BY <2>1 DEF Document
  <2>3. UNCHANGED <<prom, pending, silent>>
    BY <1>2 DEF Render
  <2>4. SiteRead'
    BY <2>2, <2>3, Numbers
  <2>5. SilenceCounted' /\ SilenceEnds'
    BY <2>2, <2>3, Intervals
  <2> QED
    BY <2>3, <2>4, <2>5
<1>3. CASE LoseStatus
  <2>1. site'.doc = site.doc /\ ~site'.readable
    BY <1>3 DEF LoseStatus, TypeOK
  <2>2. UNCHANGED <<prom, pending, silent>>
    BY <1>3 DEF LoseStatus
  <2> QED
    BY <2>1, <2>2
<1>4. CASE Export
  BY <1>4, SilenceExport
<1>5. CASE Tick
  BY <1>5, SilenceTick
<1>6. CASE UNCHANGED vars
  BY <1>6 DEF vars
<1> QED
  BY <1>1, <1>2, <1>3, <1>4, <1>5, <1>6 DEF Next

(***************************************************************************)
(* The theorems.                                                           *)
(***************************************************************************)

LEMMA PostureInit == Init => PostureInv
<1> SUFFICES ASSUME Init PROVE PostureInv
  OBVIOUS
<1>1. TypeOK /\ Fresh(prom) /\ site.readable /\ site.doc.left = artifact.left
  BY InitDoes
<1>2. prom.reg.posture \in Conclusion => site.doc.left >= 0
  BY <1>1, EffectiveTold DEF Fresh, TypeOK
<1>3. artifact.left \in Int
  BY <1>1 DEF TypeOK
<1> QED
  BY <1>1, <1>2, <1>3, Intervals DEF PostureInv, Believed, PostureHeld, Fresh

LEMMA SilenceInit == Init => SilenceInv
<1> SUFFICES ASSUME Init PROVE SilenceInv
  OBVIOUS
<1>1. TypeOK /\ Fresh(prom) /\ site.readable /\ site.doc.age = 0
  BY InitDoes
<1>2. silent = 0
  BY DEF Init
<1>3. ExporterCounted /\ SiteRead
  BY <1>1, Intervals DEF ExporterCounted, SiteRead, Fresh
<1>4. SilenceEnds /\ SilenceCounted /\ StaleSiteIsNotSilent
  BY <1>1, <1>2, Intervals
  DEF SilenceEnds, SilenceCounted, StaleSiteIsNotSilent
<1> QED
  BY <1>3, <1>4 DEF SilenceInv

\* A posture other than unknown is not shown for longer than ExporterStale's
\* limit and waiting time past the artifact's fresh_until, whichever of the
\* publisher, the renderer and the exporter stopped: the exporter has turned
\* it to unknown, or ExporterStale fires.
THEOREM StalePostureSeen == Spec => []StalePostureIsNotSilent
<1>1. TypeOK /\ PostureInv => StalePostureIsNotSilent
  <2> SUFFICES ASSUME TypeOK, PostureInv, prom.reg.posture \in Conclusion,
                      artifact.left < -Notice
               PROVE  Firing("ExporterStale")
    BY DEF StalePostureIsNotSilent
  <2>1. CASE prom.age <= ExporterMaxAge
    <3>1. artifact.left >= -prom.age
      BY <2>1 DEF PostureInv, PostureHeld
    <3> QED
      BY <2>1, <3>1, Intervals DEF TypeOK
  <2>2. CASE ~(prom.age <= ExporterMaxAge)
    <3>1. \/ Firing("ExporterStale")
          \/ artifact.left >= -(ExporterMaxAge + pending["ExporterStale"])
      BY <2>2 DEF PostureInv, PostureHeld
    <3> QED
      BY <3>1, RulesTold, Numbers, Intervals DEF TypeOK, Firing
  <2> QED
    BY <2>1, <2>2
<1>2. Init => TypeOK /\ PostureInv
  BY InitTyped, PostureInit
<1>3. TypeOK /\ PostureInv /\ [Next]_vars => (TypeOK /\ PostureInv)'
  BY NextTyped, PostureStep
<1> QED
  BY <1>1, <1>2, <1>3, PTL DEF Spec

\* A site that is no longer rendered is without an alert for no longer than
\* the waiting times of the two rules that can take turns in saying so,
\* whatever stops, comes back or vanishes meanwhile.
THEOREM StaleSiteSeen == Spec => []StaleSiteIsNotSilent
<1>1. Init => TypeOK /\ SilenceInv
  BY InitTyped, SilenceInit
<1>2. TypeOK /\ SilenceInv /\ [Next]_vars => (TypeOK /\ SilenceInv)'
  BY NextTyped, SilenceStep
<1>3. SilenceInv => StaleSiteIsNotSilent
  BY DEF SilenceInv
<1> QED
  BY <1>1, <1>2, <1>3, PTL DEF Spec

\* For any set of inputs and whatever their collectors add before they
\* raise, the exporter's file marks as read exactly the inputs whose samples
\* it holds.
THEOREM MarksTrue == Spec => []InputMatchesFamilies
<1> DEFINE Marks(file) == \A i \in Input : Matches(file.reg, i)
<1>1. Init => Marks(prom)
  BY InitDoes
<1>2. TypeOK /\ Marks(prom) /\ [Next]_vars => Marks(prom')
  <2> SUFFICES ASSUME TypeOK, Marks(prom), [Next]_vars PROVE Marks(prom')
    OBVIOUS
  <2>1. CASE Export
    BY <2>1, ExportDoes
  <2>2. CASE Tick
    <3>1. /\ prom'.reg.ok = prom.reg.ok
          /\ prom'.reg.families = prom.reg.families
      BY <2>2, TickDoes
    <3> QED
      BY <3>1 DEF Matches, Filled
  <2>3. CASE PublishArtifact \/ Render \/ LoseStatus \/ UNCHANGED vars
    <3>1. prom' = prom
      BY <2>3 DEF PublishArtifact, Render, LoseStatus, vars
    <3> QED
      BY <3>1 DEF Matches, Filled
  <2> QED
    BY <2>1, <2>2, <2>3 DEF Next
<1>3. Marks(prom) => InputMatchesFamilies
  BY DEF InputMatchesFamilies, Matches, Filled
<1> HIDE DEF Marks
<1>4. Marks(prom') <=> Marks(prom)'
  BY DEF Marks
<1> QED
  BY <1>1, <1>2, <1>3, <1>4, InitTyped, NextTyped, PTL DEF Spec

=============================================================================
