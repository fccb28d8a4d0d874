------------------------------ MODULE Exporter ------------------------------
(* What one run of the textfile exporter makes of its inputs               *)
(* (constellation-textfile-exporter.py): the Registry, the guard around    *)
(* every collector, and the sections of status.json.  Operators only; the  *)
(* runs themselves are steps of Monitoring.                                *)
(*                                                                         *)
(* The registry maps each family to the set of its samples; a sample is    *)
(* named by the input it comes from and its rank there.  Times are         *)
(* distances from the run's own time: an age grows with the clock; what is *)
(* left of a deadline shrinks to 0 at its instant, and is -1 afterwards.   *)
EXTENDS Integers, FiniteSets, Folds

CONSTANTS
  Plain,       \* inputs read by a collector of their own
  Conclusion   \* posture states other than unknown

PostureState == Conclusion \cup {"unknown"}
NoStatus == [posture |-> "no document"]
Sections == {"host_posture", "tls"}
Input == {"status_json"} \cup Sections \cup Plain

ASSUME InputAssumption ==
  /\ IsFiniteSet(Plain)
  /\ Plain \cap (Sections \cup {"status_json"}) = {}
  /\ Conclusion \cap {"unknown", "unavailable", "absent", "no document"} = {}

\* Both stores report to one family, told apart by a label; so do the builds.
Family(i) ==
  CASE i \in {"nq_store_observation", "nq_store_ops"} -> "nq_store_bytes"
    [] i \in {"build_nq", "build_host_posture"} -> "build_info"
    [] OTHER -> i

Rank == 1 .. 2
Samples(i) == {i} \X Rank
Sample == Input \X Rank

\* The status document of a render, as far as the exporter reads it.
Status ==
  [age : Nat,                                     \* since rendered_at
   posture : PostureState \cup {"unavailable"},
   left : Nat \cup {-1},                          \* until fresh_until
   tls : BOOLEAN]                                 \* available

Registry == [families : [{Family(i) : i \in Input} -> SUBSET Sample],
             ok : UNION {[S -> BOOLEAN] : S \in SUBSET Input},
             posture : PostureState \cup {"absent"},
             rendered : Nat \cup {-1}]

NewRegistry ==
  [families |-> [f \in {Family(i) : i \in Input} |-> {}],
   ok |-> <<>>, posture |-> "absent", rendered |-> -1]
-----------------------------------------------------------------------------
Marked(reg, i, flag) ==
  [reg EXCEPT !.ok = [j \in DOMAIN @ \cup {i} |->
                        IF j = i THEN flag ELSE reg.ok[j]]]

Added(reg, i, samples) ==
  [reg EXCEPT !.families[Family(i)] = @ \cup samples]

\* A collector adds its samples one after the other and may raise in
\* between: an attempt is what it added before it raised, or all of it.
Attempt ==
  [raises : {TRUE}, added : SUBSET Rank] \cup [raises : {FALSE}, added : {Rank}]

\* Mutant: what a collector added before it raised stays.
GuardedInPlace(reg, i, attempt) ==
  LET part == Added(reg, i, {i} \X attempt.added)
  IN IF attempt.raises THEN Marked(part, i, FALSE)
     ELSE Marked(part, i, TRUE)

\* guard: whatever raises, the families are as they were before the
\* collector, and its input is marked.
Guarded(reg, i, attempt) ==
  IF attempt.raises
  THEN Marked(reg, i, FALSE)
  ELSE Marked(Added(reg, i, {i} \X attempt.added), i, TRUE)

\* Mutant: the state of the document is believed whatever its age.
EffectiveAtAnyAge(status) ==
  IF status.posture = "unavailable" THEN "unknown" ELSE status.posture

\* s_posture: past fresh_until the state is unknown.
Effective(status) ==
  IF status.posture = "unavailable" \/ status.left < 0
  THEN "unknown" ELSE status.posture

\* The one-hot state stays when the section is not available; the timestamps
\* are then left out and the input is marked.
WithPosture(reg, status) ==
  LET hot == [Added(reg, "host_posture", {<<"host_posture", 1>>})
                EXCEPT !.posture = Effective(status)]
  IN IF status.posture = "unavailable" THEN Marked(hot, "host_posture", FALSE)
     ELSE Marked(Added(hot, "host_posture", Samples("host_posture")),
                 "host_posture", TRUE)

WithTls(reg, status) ==
  Guarded(reg, "tls", [raises |-> ~status.tls,
                       added |-> IF status.tls THEN Rank ELSE {}])

\* Mutant: an unreadable document is passed over.
WithStatusPassedOver(reg, status) ==
  IF status = NoStatus THEN reg
  ELSE LET read == [Marked(reg, "status_json", TRUE)
                      EXCEPT !.rendered = status.age]
       IN WithTls(WithPosture(read, status), status)

\* load_optional and c_status.
WithStatus(reg, status) ==
  IF status = NoStatus THEN Marked(reg, "status_json", FALSE)
  ELSE LET read == [Marked(reg, "status_json", TRUE)
                      EXCEPT !.rendered = status.age]
       IN WithTls(WithPosture(read, status), status)

\* collect: the status document first, then every other input.
Collect(status, attempts) ==
  MapThenFoldSet(LAMBDA i, reg : Guarded(reg, i, attempts[i]),
                 WithStatus(NewRegistry, status),
                 LAMBDA i : i, LAMBDA S : CHOOSE i \in S : TRUE, Plain)
=============================================================================
