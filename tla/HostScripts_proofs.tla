------------------------- MODULE HostScripts_proofs -------------------------
(* Theorems about the owner's scripts, for any number of runs on each host. *)
(* What the scripts have in common is said of their steps once (Ordered):   *)
(* no script makes a path twice, an effect reads what the same script made  *)
(* before it or what the host's preparation hands it, an effect that must   *)
(* not come twice stands behind a directory only one run can claim, a seal  *)
(* comes after all it stands for, and whatever touches a sealed group is    *)
(* barred by the group's first path.                                        *)
(* The rest follows for any scripts with that order: ScriptInv relates what *)
(* is on the host to how far the run under way has come.                    *)
EXTENDS HostScripts, SequenceTheorems, TLAPS

(************************** the order of a script **************************)

Touches(s, i, p) == i \in DOMAIN s /\ s[i].do \in Makes /\ p \in s[i].at
Checks(s, i, p)  == i \in DOMAIN s /\ s[i].do = "absent" /\ p \in s[i].at
Claims(s, i, p)  == i \in DOMAIN s /\ s[i].do = "claim" /\ p \in s[i].at

\* Once step i is behind, p is this run's: a file that is kept when it is
\* found was looked for before.
Surely(s, i, p) ==
  /\ Touches(s, i, p)
  /\ s[i].do = "once" => \E j \in 1..(i - 1) : Checks(s, j, p)

NonEmpty(S) == S # {}

Straight(s) ==
  /\ Len(s) \in Nat /\ DOMAIN s = 1..Len(s)
  /\ \A i \in DOMAIN s :
       s[i].do \in Makes => NonEmpty(s[i].at) /\ \A p, q \in s[i].at : p = q
  /\ \A i, k, p : Touches(s, i, p) /\ Touches(s, k, p) => i = k

\* What a host's scripts are handed by its preparation.
Given(h) ==
  CASE h = "target"     -> {"subject", "nq.toml", "trust", "issuer.pk8",
                            "resolvers"}
    [] h = "controller" -> {"subject", "nq.toml"}
    [] OTHER            -> {}

Fed(h, s) ==
  \A i \in DOMAIN s : \A p :
    s[i].do \in EffectNames /\ p \in s[i].at =>
      \/ \E k \in 1..(i - 1) : Surely(s, k, p)
      \/ p \in Given(h) /\ \A k : ~Touches(s, k, p)

\* The effects that EffectOnce is about, and the directory in their way.
Single == {"dispatch", "acquire", "apply", "download"}
Gate(h) ==
  CASE h = "target"     -> "pulse-before"
    [] h = "controller" -> "pulse-after"
    [] h = "fixture"    -> "owned"
    [] h = "closure"    -> "closure-owner"
    [] OTHER            -> "none"

Gated(h, s) ==
  /\ \A i \in DOMAIN s :
       s[i].do \in Single => \E k \in 1..(i - 1) : Claims(s, k, Gate(h))
  /\ \A i : Touches(s, i, Gate(h)) => Claims(s, i, Gate(h))
  /\ \A i, k \in DOMAIN s :
       s[i].do \in Single /\ s[i].do = s[k].do => i = k

\* A terminal stands for the records directory too.
Group(c) == Kept(c) \cup (IF c = "terminal" THEN {"records"} ELSE {})

Closes(s, c) ==
  \A i, p : Touches(s, i, c) /\ p \in Group(c) =>
    \E k \in 1..(i - 1) : Surely(s, k, p)

\* The step refuses what it finds, or an earlier one met or made a part.
Barred(s, c) ==
  \A i, p : Touches(s, i, p) /\ p \in Group(c) \cup {c} =>
    \/ s[i].do \in {"claim", "exclusive", "retain"}
    \/ \E j \in 1..(i - 1), q \in Group(c) \cup {c} :
         Checks(s, j, q) \/ Surely(s, j, q)

\* A grant follows its own journal, which only a claim makes.
Journals == {"journal-a", "journal-b"}
Journalled(n, s) ==
  /\ \A i : Touches(s, i, "grant") =>
       \E k \in 1..(i - 1) : Claims(s, k, Journal(n))
  /\ \A i, j : Touches(s, i, j) /\ j \in Journals => Claims(s, i, j)

\* Sealed groups are files of the host, and none of them is ever retired.
Sealed(h) ==
  \A c \in Seals(h) :
    /\ Group(c) \cup {c} \subseteq Paths(h)
    /\ h = "action" =>
         {"grant", "grant.enrollment"} \cap (Group(c) \cup {c}) = {}

InOrder(h, n, s) ==
  /\ Straight(s) /\ Fed(h, s) /\ Gated(h, s)
  /\ \A c \in Seals(h) : Closes(s, c) /\ Barred(s, c)
  /\ h = "action" => Journalled(n, s)

Orderly(h) == \A n \in ScriptsOf(h) : InOrder(h, n, Script(n))

\* How the words for a step's part in the order hang together.
LEMMA SurelyTouches == \A s, i, p : Surely(s, i, p) => Touches(s, i, p)
  BY DEF Surely

LEMMA ClaimsTouch == \A s, i, p : Claims(s, i, p) => Touches(s, i, p)
  BY DEF Claims, Touches, Makes

\* A script without effects is fed; it is gated when whatever touches the
\* gate claims it.
LEMMA Effectless ==
  ASSUME NEW s, NEW h,
         \A i \in DOMAIN s : s[i].do \notin EffectNames,
         \A i : Touches(s, i, Gate(h)) => Claims(s, i, Gate(h))
  PROVE  Fed(h, s) /\ Gated(h, s)
<1>1. Fed(h, s)
  BY DEF Fed
<1>2. \A i \in DOMAIN s : s[i].do \notin Single
  BY DEF Single, EffectNames
<1> QED
  BY <1>1, <1>2 DEF Gated

LEMMA OnePathEach ==
  \A s, i, p, q :
    Straight(s) /\ Touches(s, i, p) /\ Touches(s, i, q) => p = q
  BY DEF Straight, Touches

(*************************** seals, host by host ***************************)

\* The seals of each host, what they stand for, and its gate.
LEMMA ObservationSeals ==
  /\ Seals("observation") = {"nqd-ops.toml", "attention.toml"}
  /\ Gate("observation") = "none"
  /\ Group("nqd-ops.toml") = {}
  /\ Group("attention.toml") = {}
<1>1. Seals("observation") = {"nqd-ops.toml", "attention.toml"}
  BY Zenon DEF Seals
<1>2. Gate("observation") = "none"
  BY Zenon DEF Gate
<1>3. Vouched("nqd-ops.toml") = {}
  BY Zenon DEF Vouched
<1>4. Vouched("attention.toml") = {}
  BY Zenon DEF Vouched
<1> QED
  BY <1>1, <1>2, <1>3, <1>4 DEF Group, Kept, Exposed

LEMMA ActionSeals ==
  /\ Seals("action") = {"identity"}
  /\ Gate("action") = "none"
  /\ Group("identity") =
       {"issuer.pem", "issuer.pk8", "docket-trust", "resolvers", "template",
        "plan-enrollment", "catalog", "enrollment", "runtime-profile",
        "effectd.deployment", "plans"}
<1>1. Seals("action") = {"identity"}
  BY Zenon DEF Seals
<1>2. Gate("action") = "none"
  BY Zenon DEF Gate
<1>3. Vouched("identity") =
       {"issuer.pem", "issuer.pk8", "docket-trust", "resolvers", "template",
        "plan-enrollment", "catalog", "enrollment", "runtime-profile",
        "effectd.deployment", "plans"}
  BY Zenon DEF Vouched
<1> QED
  BY <1>1, <1>2, <1>3 DEF Group, Kept, Exposed

LEMMA TargetSeals ==
  /\ Seals("target") = {"m2-identity", "active.sqlite", "target-result"}
  /\ Gate("target") = "pulse-before"
  /\ Group("m2-identity") =
       {"fixture.service", "nq.toml", "subject", "private", "issuer.pem",
        "issuer.pk8", "trust", "resolvers"}
  /\ Group("active.sqlite") =
       {"before", "mandates", "catalog", "enrollment", "runtime-profile",
        "effectd.deployment", "plan", "pulse-before", "before-pulse", "cycle"}
  /\ Group("target-result") =
       {"before", "target-after", "active.sqlite", "runtime-profile", "plan",
        "execution-standing", "standing.enrollment"}
<1>1. Seals("target") = {"m2-identity", "active.sqlite", "target-result"}
  BY Zenon DEF Seals
<1>2. Gate("target") = "pulse-before"
  BY Zenon DEF Gate
<1>3. Vouched("m2-identity") =
       {"fixture.service", "nq.toml", "subject", "private", "issuer.pem",
        "issuer.pk8", "trust", "resolvers"}
  BY Zenon DEF Vouched
<1>4. Vouched("active.sqlite") =
       {"before", "mandates", "catalog", "enrollment", "runtime-profile",
        "effectd.deployment", "plan", "pulse-before", "before-pulse", "cycle"}
  BY Zenon DEF Vouched
<1>5. Vouched("target-result") =
       {"before", "target-after", "active.sqlite", "runtime-profile", "plan",
        "execution-standing", "standing.enrollment"}
  BY Zenon DEF Vouched
<1> QED
  BY <1>1, <1>2, <1>3, <1>4, <1>5 DEF Group, Kept, Exposed

LEMMA ControllerSeals ==
  /\ Seals("controller") = {"controller-result"}
  /\ Gate("controller") = "pulse-after"
  /\ Group("controller-result") =
       {"pulse-after", "after-pulse", "controller-query"}
<1>1. Seals("controller") = {"controller-result"}
  BY Zenon DEF Seals
<1>2. Gate("controller") = "pulse-after"
  BY Zenon DEF Gate
<1>3. Vouched("controller-result") =
       {"controller-after", "pulse-after", "after-pulse", "controller-query"}
  BY Zenon DEF Vouched
<1> QED
  BY <1>1, <1>2, <1>3 DEF Group, Kept, Exposed

LEMMA FixtureSeals ==
  /\ Seals("fixture") = {"gateway", "receipt"}
  /\ Gate("fixture") = "owned"
  /\ Group("gateway") =
       {"owned", "OWNERSHIP", "request", "admission", "live-cohort"}
  /\ Group("receipt") = {"gateway", "loopback.conf", "candidate"}
<1>1. Seals("fixture") = {"gateway", "receipt"}
  BY Zenon DEF Seals
<1>2. Gate("fixture") = "owned"
  BY Zenon DEF Gate
<1>3. Vouched("gateway") =
       {"owned", "OWNERSHIP", "request", "admission", "live-cohort"}
  BY Zenon DEF Vouched
<1>4. Vouched("receipt") = {"gateway", "loopback.conf", "candidate"}
  BY Zenon DEF Vouched
<1> QED
  BY <1>1, <1>2, <1>3, <1>4 DEF Group, Kept, Exposed

LEMMA CaptureSeals ==
  /\ Seals("capture") = {"occurrence"}
  /\ Gate("capture") = "none"
  /\ Group("occurrence") = {}
<1>1. Seals("capture") = {"occurrence"}
  BY Zenon DEF Seals
<1>2. Gate("capture") = "none"
  BY Zenon DEF Gate
<1>3. Vouched("occurrence") = {}
  BY Zenon DEF Vouched
<1> QED
  BY <1>1, <1>2, <1>3 DEF Group, Kept, Exposed

LEMMA AdapterSeals ==
  /\ Seals("adapter") = {}
  /\ Gate("adapter") = "none"
<1>1. Seals("adapter") = {}
  BY Zenon DEF Seals
<1>2. Gate("adapter") = "none"
  BY Zenon DEF Gate
<1> QED
  BY <1>1, <1>2 DEF Group

LEMMA PreparationSeals ==
  /\ Seals("preparation") = {"preparation-finished", "ports-finished",
                             "preparation-status", "cycle-request", "caller"}
  /\ Gate("preparation") = "none"
  /\ Group("preparation-finished") =
       {"maude-plan", "preparation-started", "plans.sqlite", "binding",
        "validator-config", "handoff", "executor-state", "executor-config",
        "plan-validation"}
  /\ Group("ports-finished") =
       {"ports", "ports-started", "launchers", "docket-standing-config",
        "issuer-seed", "issuer.pk8", "docket-root-enrollment"}
  /\ Group("preparation-status") =
       {"owner", "review-material", "cycle-config", "genesis"}
  /\ Group("cycle-request") = {}
  /\ Group("caller") = {}
<1>1. Seals("preparation") = {"preparation-finished", "ports-finished",
                              "preparation-status",
                            "cycle-request", "caller"}
  BY Zenon DEF Seals
<1>2. Gate("preparation") = "none"
  BY Zenon DEF Gate
<1>3. Vouched("preparation-finished") =
       {"maude-plan", "preparation-started", "plans.sqlite", "binding",
        "validator-config", "handoff", "executor-state", "executor-config",
        "plan-validation"}
  BY Zenon DEF Vouched
<1>4. Vouched("ports-finished") =
       {"ports", "ports-started", "launchers", "docket-standing-config",
        "issuer-seed", "issuer.pk8", "docket-root-enrollment"}
  BY Zenon DEF Vouched
<1>5. Vouched("preparation-status") =
       {"owner", "review-material", "cycle-config", "genesis"}
  BY Zenon DEF Vouched
<1>6. Vouched("cycle-request") = {}
  BY Zenon DEF Vouched
<1>7. Vouched("caller") = {}
  BY Zenon DEF Vouched
<1> QED
  BY <1>1, <1>2, <1>3, <1>4, <1>5, <1>6, <1>7 DEF Group, Kept, Exposed

LEMMA ClosureSeals ==
  /\ Seals("closure") = {"closure", "terminal"}
  /\ Gate("closure") = "closure-owner"
  /\ Group("closure") =
       {"checkpoint", "wheel-requirements", "requirements.lock", "venv",
        "switchyard-source", "built"}
  /\ Group("terminal") =
       {"records-checkpoint", "inputs.sha256", "closure", "allocation-final",
        "records"}
<1>1. Seals("closure") = {"closure", "terminal"}
  BY Zenon DEF Seals
<1>2. Gate("closure") = "closure-owner"
  BY Zenon DEF Gate
<1>3. Vouched("closure") =
       {"checkpoint", "wheel-requirements", "requirements.lock", "venv",
        "switchyard-source", "built"}
  BY Zenon DEF Vouched
<1>4. Vouched("terminal") =
       {"records-checkpoint", "inputs.sha256", "closure", "allocation-final"}
  BY Zenon DEF Vouched
<1> QED
  BY <1>1, <1>2, <1>3, <1>4 DEF Group, Kept, Exposed

(************************** order, script by script ************************)

\* For each script: where it makes what, for sure, and which of its steps
\* refuse what they find. The rest of its order follows from that.

LEMMA CanaryObservationInOrder ==
  InOrder("observation", "canary-observation", CanaryObservation)
<1> USE DEF Absent, Needs, Claim, Once, Replace, Retain, Writes, Exclusives,
            Effect, CanaryObservation, NqConfig, AttentionConfig
<1> DEFINE s == CanaryObservation
<1>1. /\ Checks(s, 1, "nqd-ops.toml") /\ Checks(s, 1, "attention.toml")
      /\ Surely(s, 2, "canary.service") /\ Surely(s, 3, "nqd-ops.service")
      /\ Surely(s, 4, "nq-ops") /\ Surely(s, 6, "nqd-ops.toml")
      /\ Surely(s, 8, "nq.db") /\ Surely(s, 10, "attention.toml")
      /\ Surely(s, 11, "local-inbox")
  BY SMTT(30) DEF Surely, Touches, Checks, Claims, Makes
<1>2. Len(s) = 12 /\ DOMAIN s = 1..12
  OBVIOUS
<1>3. \A i \in DOMAIN s : s[i].do \in Makes => i \in {2, 3, 4, 6, 8, 10, 11}
  BY DEF Makes
<1>4. \A i \in DOMAIN s :
        s[i].do \in Makes => \A p, q \in s[i].at : p = q
  BY DEF Makes
<1>6. \A i \in DOMAIN s : s[i].do \in EffectNames => i \in {12}
  BY DEF EffectNames
<1>7. /\ s[12].do = "evaluate"
      /\ s[12].at = {"nqd-ops.toml", "attention.toml", "nq.db"}
  OBVIOUS
<1> HIDE DEF s
<1>8. Straight(s)
  BY <1>1, <1>2, <1>3, <1>4 DEF Straight, Surely, Touches, NonEmpty
<1>9. \A i, p : Touches(s, i, p) => i \in {2, 3, 4, 6, 8, 10, 11}
  BY <1>3 DEF Touches
<1>10. Fed("observation", s) /\ Gated("observation", s)
  <2>1. Fed("observation", s)
    BY <1>1, <1>8, <1>9, <1>6, <1>7, SurelyTouches, ClaimsTouch,
    OnePathEach, ObservationSeals
    DEF Fed, Straight, EffectNames
  <2>2. Gated("observation", s)
    BY <1>1, <1>8, <1>9, <1>6, <1>7, SurelyTouches, ClaimsTouch,
    OnePathEach, ObservationSeals
    DEF Gated, Straight, Single, EffectNames
  <2> QED
    BY <2>1, <2>2
<1>11. \A c \in Seals("observation") : Closes(s, c) /\ Barred(s, c)
  BY <1>1, <1>8, <1>9, SurelyTouches, OnePathEach, ObservationSeals
  DEF Closes, Barred
<1> QED
  BY <1>8, <1>10, <1>11, ObservationSeals DEF InOrder, s

LEMMA NqConfigInOrder ==
  InOrder("observation", "nq-config", NqConfig)
<1> USE DEF Absent, Needs, Claim, Once, Replace, Retain, Writes, Exclusives,
            Effect, NqConfig
<1> DEFINE s == NqConfig
<1>1. /\ Checks(s, 1, "nqd-ops.toml") /\ Surely(s, 2, "nqd-ops.toml")
  BY DEF Surely, Touches, Checks, Claims, Makes
<1>2. Len(s) = 2 /\ DOMAIN s = 1..2
  OBVIOUS
<1>3. \A i \in DOMAIN s : s[i].do \in Makes =>
        i \in {2}
  BY DEF Makes
<1>4. \A i \in DOMAIN s :
        s[i].do \in Makes => \A p, q \in s[i].at : p = q
  BY DEF Makes
<1>6. \A i \in DOMAIN s : s[i].do \notin EffectNames
  BY DEF EffectNames
<1> HIDE DEF s
<1>8. Straight(s)
  BY <1>1, <1>2, <1>3, <1>4 DEF Straight, Surely, Touches, NonEmpty
<1>9. \A i, p : Touches(s, i, p) => i \in {2}
  BY <1>3 DEF Touches
<1>10. Fed("observation", s) /\ Gated("observation", s)
  <2>1. \A i : Touches(s, i, Gate("observation"))
                => Claims(s, i, Gate("observation"))
    BY <1>1, <1>8, <1>9, SurelyTouches, ClaimsTouch, OnePathEach,
       ObservationSeals
  <2> QED
    BY <1>6, <2>1, Effectless
<1>11. \A c \in Seals("observation") : Closes(s, c) /\ Barred(s, c)
  BY <1>1, <1>8, <1>9, SurelyTouches, OnePathEach, ObservationSeals
  DEF Closes, Barred
<1> QED
  BY <1>8, <1>10, <1>11, ObservationSeals DEF InOrder, s

LEMMA AttentionConfigInOrder ==
  InOrder("observation", "attention-config", AttentionConfig)
<1> USE DEF Absent, Needs, Claim, Once, Replace, Retain, Writes, Exclusives,
            Effect, AttentionConfig
<1> DEFINE s == AttentionConfig
<1>1. /\ Checks(s, 1, "attention.toml") /\ Surely(s, 2, "attention.toml")
  BY DEF Surely, Touches, Checks, Claims, Makes
<1>2. Len(s) = 2 /\ DOMAIN s = 1..2
  OBVIOUS
<1>3. \A i \in DOMAIN s : s[i].do \in Makes =>
        i \in {2}
  BY DEF Makes
<1>4. \A i \in DOMAIN s :
        s[i].do \in Makes => \A p, q \in s[i].at : p = q
  BY DEF Makes
<1>6. \A i \in DOMAIN s : s[i].do \notin EffectNames
  BY DEF EffectNames
<1> HIDE DEF s
<1>8. Straight(s)
  BY <1>1, <1>2, <1>3, <1>4 DEF Straight, Surely, Touches, NonEmpty
<1>9. \A i, p : Touches(s, i, p) => i \in {2}
  BY <1>3 DEF Touches
<1>10. Fed("observation", s) /\ Gated("observation", s)
  <2>1. \A i : Touches(s, i, Gate("observation"))
                => Claims(s, i, Gate("observation"))
    BY <1>1, <1>8, <1>9, SurelyTouches, ClaimsTouch, OnePathEach,
       ObservationSeals
  <2> QED
    BY <1>6, <2>1, Effectless
<1>11. \A c \in Seals("observation") : Closes(s, c) /\ Barred(s, c)
  <2>1. \A c \in Seals("observation") : Closes(s, c)
    BY ObservationSeals DEF Closes
  <2>2. Barred(s, "nqd-ops.toml")
    BY <1>1, <1>8, <1>9, SurelyTouches, OnePathEach, ObservationSeals
    DEF Barred
  <2>3. Barred(s, "attention.toml")
    BY <1>1, <1>9, ObservationSeals DEF Barred
  <2> QED
    BY <2>1, <2>2, <2>3, ObservationSeals
<1> QED
  BY <1>8, <1>10, <1>11, ObservationSeals DEF InOrder, s

LEMMA AgDocketInOrder ==
  InOrder("action", "ag-docket", AgDocket)
<1> USE DEF Absent, Needs, Claim, Once, Replace, Retain, Writes, Exclusives,
            Effect, AgDocket, AgDocketGuard
<1> DEFINE s == AgDocket
<1>1. /\ Checks(s, 1, "identity") /\ Surely(s, 2, "issuer.pem")
      /\ Surely(s, 4, "issuer.pk8") /\ Surely(s, 5, "docket-trust")
      /\ Surely(s, 6, "resolvers") /\ Surely(s, 7, "mandates")
      /\ Surely(s, 8, "template") /\ Surely(s, 9, "plan-enrollment")
      /\ Surely(s, 10, "catalog") /\ Surely(s, 11, "enrollment")
      /\ Surely(s, 12, "runtime-profile")
      /\ Surely(s, 13, "effectd.deployment") /\ Surely(s, 14, "plans")
      /\ Surely(s, 15, "identity")
  BY DEF Surely, Touches, Checks, Claims, Makes
<1>2. Len(s) = 15 /\ DOMAIN s = 1..15
  OBVIOUS
<1>3. \A i \in DOMAIN s : s[i].do \in Makes =>
        i \in {2, 4, 5, 6, 7,
            8, 9, 10, 11, 12, 13, 14, 15}
  BY DEF Makes
<1>4. \A i \in DOMAIN s :
        s[i].do \in Makes => \A p, q \in s[i].at : p = q
  BY DEF Makes
<1>6. \A i \in DOMAIN s : s[i].do \notin EffectNames
  BY DEF EffectNames
<1> HIDE DEF s
<1>8. Straight(s)
  BY <1>1, <1>2, <1>3, <1>4 DEF Straight, Surely, Touches, NonEmpty
<1>9. \A i, p : Touches(s, i, p) => i \in {2, 4, 5, 6, 7, 8, 9, 10, 11, 12,
                                           13, 14, 15}
  BY <1>3 DEF Touches
<1>10. Fed("action", s) /\ Gated("action", s)
  <2>1. \A i : Touches(s, i, Gate("action"))
                => Claims(s, i, Gate("action"))
    BY <1>1, <1>8, <1>9, SurelyTouches, ClaimsTouch, OnePathEach,
       ActionSeals
  <2> QED
    BY <1>6, <2>1, Effectless
<1>11. \A c \in Seals("action") : Closes(s, c) /\ Barred(s, c)
  BY <1>1, <1>8, <1>9, SurelyTouches, OnePathEach, ActionSeals
  DEF Closes, Barred
<1>12. Journalled("ag-docket", s)
  BY <1>1, <1>8, <1>9, SurelyTouches, ClaimsTouch, OnePathEach
  DEF Journalled, Journals, Journal
<1> QED
  BY <1>8, <1>10, <1>11, <1>12, ActionSeals DEF InOrder, s

LEMMA GrantAInOrder ==
  InOrder("action", "grant-a", Grant("grant-a"))
<1> USE DEF Absent, Needs, Claim, Once, Replace, Retain, Writes, Exclusives,
            Effect, Grant, Journal
<1> DEFINE s == Grant("grant-a")
<1>1. /\ Surely(s, 2, "journal-a") /\ Surely(s, 3, "grant")
      /\ Surely(s, 4, "grant.enrollment") /\ Claims(s, 2, "journal-a")
  BY DEF Surely, Touches, Checks, Claims, Makes
<1>2. Len(s) = 4 /\ DOMAIN s = 1..4
  OBVIOUS
<1>3. \A i \in DOMAIN s : s[i].do \in Makes =>
        i \in {2, 3, 4}
  BY DEF Makes
<1>4. \A i \in DOMAIN s :
        s[i].do \in Makes => \A p, q \in s[i].at : p = q
  BY DEF Makes
<1>5. \A i \in {2} : s[i].do \in {"claim", "exclusive", "retain"}
  OBVIOUS
<1>6. \A i \in DOMAIN s : s[i].do \notin EffectNames
  BY DEF EffectNames
<1> HIDE DEF s
<1>8. Straight(s)
  BY <1>1, <1>2, <1>3, <1>4 DEF Straight, Surely, Touches, NonEmpty
<1>9. \A i, p : Touches(s, i, p) => i \in {2, 3, 4}
  BY <1>3 DEF Touches
<1>10. Fed("action", s) /\ Gated("action", s)
  <2>1. \A i : Touches(s, i, Gate("action"))
                => Claims(s, i, Gate("action"))
    BY <1>1, <1>8, <1>9, SurelyTouches, ClaimsTouch, OnePathEach,
       ActionSeals
  <2> QED
    BY <1>6, <2>1, Effectless
<1>11. \A c \in Seals("action") : Closes(s, c) /\ Barred(s, c)
  BY <1>1, <1>8, <1>9, <1>5, SurelyTouches, OnePathEach, ActionSeals
  DEF Closes, Barred
<1>12. Journalled("grant-a", s)
  BY <1>1, <1>8, <1>9, SurelyTouches, ClaimsTouch, OnePathEach
  DEF Journalled, Journals, Journal
<1> QED
  BY <1>8, <1>10, <1>11, <1>12, ActionSeals DEF InOrder, s

LEMMA GrantBInOrder ==
  InOrder("action", "grant-b", Grant("grant-b"))
<1> USE DEF Absent, Needs, Claim, Once, Replace, Retain, Writes, Exclusives,
            Effect, Grant, Journal
<1> DEFINE s == Grant("grant-b")
<1>1. /\ Surely(s, 2, "journal-b") /\ Surely(s, 3, "grant")
      /\ Surely(s, 4, "grant.enrollment") /\ Claims(s, 2, "journal-b")
  BY DEF Surely, Touches, Checks, Claims, Makes
<1>2. Len(s) = 4 /\ DOMAIN s = 1..4
  OBVIOUS
<1>3. \A i \in DOMAIN s : s[i].do \in Makes =>
        i \in {2, 3, 4}
  BY DEF Makes
<1>4. \A i \in DOMAIN s :
        s[i].do \in Makes => \A p, q \in s[i].at : p = q
  BY DEF Makes
<1>5. \A i \in {2} : s[i].do \in {"claim", "exclusive", "retain"}
  OBVIOUS
<1>6. \A i \in DOMAIN s : s[i].do \notin EffectNames
  BY DEF EffectNames
<1> HIDE DEF s
<1>8. Straight(s)
  BY <1>1, <1>2, <1>3, <1>4 DEF Straight, Surely, Touches, NonEmpty
<1>9. \A i, p : Touches(s, i, p) => i \in {2, 3, 4}
  BY <1>3 DEF Touches
<1>10. Fed("action", s) /\ Gated("action", s)
  <2>1. \A i : Touches(s, i, Gate("action"))
                => Claims(s, i, Gate("action"))
    BY <1>1, <1>8, <1>9, SurelyTouches, ClaimsTouch, OnePathEach,
       ActionSeals
  <2> QED
    BY <1>6, <2>1, Effectless
<1>11. \A c \in Seals("action") : Closes(s, c) /\ Barred(s, c)
  BY <1>1, <1>8, <1>9, <1>5, SurelyTouches, OnePathEach, ActionSeals
  DEF Closes, Barred
<1>12. Journalled("grant-b", s)
  BY <1>1, <1>8, <1>9, SurelyTouches, ClaimsTouch, OnePathEach
  DEF Journalled, Journals, Journal
<1> QED
  BY <1>8, <1>10, <1>11, <1>12, ActionSeals DEF InOrder, s

LEMMA MandateInOrder ==
  InOrder("action", "mandate", Mandate)
<1> USE DEF Absent, Needs, Claim, Once, Replace, Retain, Writes, Exclusives,
            Effect, Mandate
<1> DEFINE s == Mandate
<1>1. /\ Surely(s, 1, "mandates")
  BY DEF Surely, Touches, Checks, Claims, Makes
<1>2. Len(s) = 1 /\ DOMAIN s = 1..1
  OBVIOUS
<1>3. \A i \in DOMAIN s : s[i].do \in Makes =>
        i \in {1}
  BY DEF Makes
<1>4. \A i \in DOMAIN s :
        s[i].do \in Makes => \A p, q \in s[i].at : p = q
  BY DEF Makes
<1>6. \A i \in DOMAIN s : s[i].do \notin EffectNames
  BY DEF EffectNames
<1> HIDE DEF s
<1>8. Straight(s)
  BY <1>1, <1>2, <1>3, <1>4 DEF Straight, Surely, Touches, NonEmpty
<1>9. \A i, p : Touches(s, i, p) => i \in {1}
  BY <1>3 DEF Touches
<1>10. Fed("action", s) /\ Gated("action", s)
  <2>1. \A i : Touches(s, i, Gate("action"))
                => Claims(s, i, Gate("action"))
    BY <1>1, <1>8, <1>9, SurelyTouches, ClaimsTouch, OnePathEach,
       ActionSeals
  <2> QED
    BY <1>6, <2>1, Effectless
<1>11. \A c \in Seals("action") : Closes(s, c) /\ Barred(s, c)
  BY <1>1, <1>8, <1>9, SurelyTouches, OnePathEach, ActionSeals
  DEF Closes, Barred
<1>12. Journalled("mandate", s)
  BY <1>1, <1>8, <1>9, SurelyTouches, ClaimsTouch, OnePathEach
  DEF Journalled, Journals, Journal
<1> QED
  BY <1>8, <1>10, <1>11, <1>12, ActionSeals DEF InOrder, s

LEMMA ConsumerConfigInOrder ==
  InOrder("action", "consumer-config", ConsumerConfig)
<1> USE DEF Absent, Needs, Claim, Once, Replace, Retain, Writes, Exclusives,
            Effect, ConsumerConfig
<1> DEFINE s == ConsumerConfig
<1>1. /\ Surely(s, 3, "consumer")
  BY DEF Surely, Touches, Checks, Claims, Makes
<1>2. Len(s) = 3 /\ DOMAIN s = 1..3
  OBVIOUS
<1>3. \A i \in DOMAIN s : s[i].do \in Makes =>
        i \in {3}
  BY DEF Makes
<1>4. \A i \in DOMAIN s :
        s[i].do \in Makes => \A p, q \in s[i].at : p = q
  BY DEF Makes
<1>6. \A i \in DOMAIN s : s[i].do \notin EffectNames
  BY DEF EffectNames
<1> HIDE DEF s
<1>8. Straight(s)
  BY <1>1, <1>2, <1>3, <1>4 DEF Straight, Surely, Touches, NonEmpty
<1>9. \A i, p : Touches(s, i, p) => i \in {3}
  BY <1>3 DEF Touches
<1>10. Fed("action", s) /\ Gated("action", s)
  <2>1. \A i : Touches(s, i, Gate("action"))
                => Claims(s, i, Gate("action"))
    BY <1>1, <1>8, <1>9, SurelyTouches, ClaimsTouch, OnePathEach,
       ActionSeals
  <2> QED
    BY <1>6, <2>1, Effectless
<1>11. \A c \in Seals("action") : Closes(s, c) /\ Barred(s, c)
  BY <1>1, <1>8, <1>9, SurelyTouches, OnePathEach, ActionSeals
  DEF Closes, Barred
<1>12. Journalled("consumer-config", s)
  BY <1>1, <1>8, <1>9, SurelyTouches, ClaimsTouch, OnePathEach
  DEF Journalled, Journals, Journal
<1> QED
  BY <1>8, <1>10, <1>11, <1>12, ActionSeals DEF InOrder, s

LEMMA PrepareTargetInOrder ==
  InOrder("target", "prepare-target", PrepareTarget)
<1> USE DEF Absent, Needs, Claim, Once, Replace, Retain, Writes, Exclusives,
            Effect, PrepareTarget, PrepareTargetGuard
<1> DEFINE s == PrepareTarget
<1>1. /\ Checks(s, 1, "m2-identity") /\ Surely(s, 2, "fixture.service")
      /\ Surely(s, 3, "nq.toml") /\ Surely(s, 4, "subject")
      /\ Surely(s, 5, "private") /\ Surely(s, 6, "issuer.pem")
      /\ Surely(s, 7, "issuer.pk8") /\ Surely(s, 8, "trust")
      /\ Surely(s, 9, "resolvers") /\ Surely(s, 10, "m2-identity")
  BY DEF Surely, Touches, Checks, Claims, Makes
<1>2. Len(s) = 10 /\ DOMAIN s = 1..10
  OBVIOUS
<1>3. \A i \in DOMAIN s : s[i].do \in Makes =>
        i \in {2, 3, 4, 5, 6,
            7, 8, 9, 10}
  BY DEF Makes
<1>4. \A i \in DOMAIN s :
        s[i].do \in Makes => \A p, q \in s[i].at : p = q
  BY DEF Makes
<1>5. \A i \in {5} : s[i].do \in {"claim", "exclusive", "retain"}
  OBVIOUS
<1>6. \A i \in DOMAIN s : s[i].do \notin EffectNames
  BY DEF EffectNames
<1> HIDE DEF s
<1>8. Straight(s)
  BY <1>1, <1>2, <1>3, <1>4 DEF Straight, Surely, Touches, NonEmpty
<1>9. \A i, p : Touches(s, i, p) => i \in {2, 3, 4, 5, 6, 7, 8, 9, 10}
  BY <1>3 DEF Touches
<1>10. Fed("target", s) /\ Gated("target", s)
  <2>1. \A i : Touches(s, i, Gate("target"))
                => Claims(s, i, Gate("target"))
    BY <1>1, <1>8, <1>9, SurelyTouches, ClaimsTouch, OnePathEach,
       TargetSeals
  <2> QED
    BY <1>6, <2>1, Effectless
<1>11. \A c \in Seals("target") : Closes(s, c) /\ Barred(s, c)
  BY <1>1, <1>8, <1>9, <1>5, SurelyTouches, OnePathEach, TargetSeals
  DEF Closes, Barred
<1> QED
  BY <1>8, <1>10, <1>11, TargetSeals DEF InOrder, s

LEMMA RunTargetInOrder ==
  InOrder("target", "run-target", RunTarget)
<1> USE DEF Absent, Needs, Claim, Once, Replace, Retain, Writes, Exclusives,
            Effect, RunTarget, RunTargetGuard, SupportEnrollment, Bound,
            Collected
<1> DEFINE s == RunTarget
<1>1. /\ Checks(s, 2, "active.sqlite") /\ Surely(s, 4, "before")
      /\ Surely(s, 5, "mandates") /\ Surely(s, 6, "catalog")
      /\ Surely(s, 7, "enrollment") /\ Surely(s, 8, "runtime-profile")
      /\ Surely(s, 9, "effectd.deployment") /\ Surely(s, 11, "plan")
      /\ Surely(s, 13, "pulse-before") /\ Surely(s, 14, "before-pulse")
      /\ Surely(s, 16, "cycle") /\ Surely(s, 18, "active.sqlite")
      /\ Surely(s, 20, "execution-standing")
      /\ Surely(s, 21, "standing.enrollment") /\ Surely(s, 24, "target-after")
      /\ Surely(s, 25, "target-result") /\ Claims(s, 13, "pulse-before")
  <2>1. /\ Checks(s, 2, "active.sqlite") /\ Surely(s, 4, "before")
        /\ Surely(s, 5, "mandates") /\ Surely(s, 6, "catalog")
        /\ Surely(s, 7, "enrollment") /\ Surely(s, 8, "runtime-profile")
    BY DEF Surely, Touches, Checks, Makes
  <2>2. /\ Surely(s, 9, "effectd.deployment") /\ Surely(s, 11, "plan")
        /\ Surely(s, 13, "pulse-before") /\ Claims(s, 13, "pulse-before")
        /\ Surely(s, 14, "before-pulse") /\ Surely(s, 16, "cycle")
    BY DEF Surely, Touches, Claims, Makes
  <2>3. /\ Surely(s, 18, "active.sqlite")
        /\ Surely(s, 20, "execution-standing")
        /\ Surely(s, 21, "standing.enrollment")
        /\ Surely(s, 24, "target-after") /\ Surely(s, 25, "target-result")
    BY DEF Surely, Touches, Makes
  <2> QED
    BY <2>1, <2>2, <2>3
<1>2. Len(s) = 25 /\ DOMAIN s = 1..25
  OBVIOUS
<1>3. \A i \in DOMAIN s : s[i].do \in Makes =>
        i \in {4, 5, 6, 7, 8, 9, 11, 13, 14, 16, 18, 20, 21, 24, 25}
  BY DEF Makes
<1>4. \A i \in DOMAIN s :
        s[i].do \in Makes => \A p, q \in s[i].at : p = q
  BY DEF Makes
<1>5. \A i \in {13} : s[i].do \in {"claim", "exclusive", "retain"}
  OBVIOUS
<1>6. \A i \in DOMAIN s :
        s[i].do \in EffectNames => i \in {3, 15, 17, 19, 22, 23}
  BY DEF EffectNames
<1>7. /\ s[3].do = "observe" /\ s[3].at = {"nq.toml"}
      /\ s[15].do = "acquire"
      /\ s[15].at = {"subject", "nq.toml", "before", "pulse-before",
                     "before-pulse"}
      /\ s[17].do = "cycle"
      /\ s[17].at = {"cycle", "before-pulse", "nq.toml", "resolvers",
                     "runtime-profile"}
      /\ s[19].do = "authorize"
      /\ s[19].at = {"active.sqlite", "catalog", "mandates", "resolvers"}
      /\ s[22].do = "dispatch"
      /\ s[22].at = {"active.sqlite", "runtime-profile", "plan", "trust",
                     "effectd.deployment", "issuer.pk8",
                     "execution-standing", "standing.enrollment"}
      /\ s[23].do = "observe" /\ s[23].at = {"nq.toml"}
  OBVIOUS
<1> HIDE DEF s
<1>8. Straight(s)
  BY <1>1, <1>2, <1>3, <1>4 DEF Straight, Surely, Touches, NonEmpty
<1>9. \A i, p : Touches(s, i, p) => i \in {4, 5, 6, 7, 8, 9, 11, 13, 14, 16,
                                           18, 20, 21, 24, 25}
  BY <1>3 DEF Touches
<1>10. Fed("target", s) /\ Gated("target", s)
  <2>1. Fed("target", s)
    <3>1. Given("target") = {"subject", "nq.toml", "trust", "issuer.pk8",
                             "resolvers"}
      BY Zenon DEF Given
    <3>2. \A k, p : p \in Given("target") => ~Touches(s, k, p)
      BY <1>1, <1>8, <1>9, <3>1, SurelyTouches, OnePathEach
    <3> HIDE DEF Given
    <3>3. \A p \in s[3].at \cup s[23].at : p \in Given("target")
      BY <1>7, <3>1
    <3>4. \A p \in s[15].at :
            p \in Given("target") \/ \E k \in 1..14 : Surely(s, k, p)
      BY <1>1, <1>7, <3>1
    <3>5. \A p \in s[17].at :
            p \in Given("target") \/ \E k \in 1..16 : Surely(s, k, p)
      BY <1>1, <1>7, <3>1
    <3>6. \A p \in s[19].at :
            p \in Given("target") \/ \E k \in 1..18 : Surely(s, k, p)
      BY <1>1, <1>7, <3>1
    <3>7. \A p \in s[22].at :
            p \in Given("target") \/ \E k \in 1..21 : Surely(s, k, p)
      BY <1>1, <1>7, <3>1
    <3> QED
      BY <1>6, <3>2, <3>3, <3>4, <3>5, <3>6, <3>7 DEF Fed
  <2>2. Gated("target", s)
    <3>1. \A i : Touches(s, i, "pulse-before") => Claims(s, i, "pulse-before")
      BY <1>1, <1>8, <1>9, SurelyTouches, OnePathEach
    <3>2. \A i \in DOMAIN s : s[i].do \in Single => i \in {15, 22}
      BY <1>6, <1>7 DEF Single, EffectNames
    <3>3. \A i \in {15, 22} : 13 \in 1 .. i - 1
      OBVIOUS
    <3>4. Gate("target") = "pulse-before" /\ Claims(s, 13, "pulse-before")
      BY <1>1, TargetSeals
    <3>5. s[15].do # s[22].do
      BY <1>7
    <3> HIDE DEF Gate
    <3> QED
      BY <3>1, <3>2, <3>3, <3>4, <3>5 DEF Gated
  <2> QED
    BY <2>1, <2>2
<1>11. \A c \in Seals("target") : Closes(s, c) /\ Barred(s, c)
  BY <1>1, <1>8, <1>9, <1>5, SurelyTouches, OnePathEach, TargetSeals
  DEF Closes, Barred
<1> QED
  BY <1>8, <1>10, <1>11, TargetSeals DEF InOrder, s

LEMMA PrepareControllerInOrder ==
  InOrder("controller", "prepare-controller", PrepareController)
<1> USE DEF Absent, Needs, Claim, Once, Replace, Retain, Writes, Exclusives,
            Effect, PrepareController
<1> DEFINE s == PrepareController
<1>1. /\ Surely(s, 1, "subject") /\ Surely(s, 2, "nq.toml")
  BY DEF Surely, Touches, Checks, Claims, Makes
<1>2. Len(s) = 2 /\ DOMAIN s = 1..2
  OBVIOUS
<1>3. \A i \in DOMAIN s : s[i].do \in Makes =>
        i \in {1, 2}
  BY DEF Makes
<1>4. \A i \in DOMAIN s :
        s[i].do \in Makes => \A p, q \in s[i].at : p = q
  BY DEF Makes
<1>6. \A i \in DOMAIN s : s[i].do \notin EffectNames
  BY DEF EffectNames
<1> HIDE DEF s
<1>8. Straight(s)
  BY <1>1, <1>2, <1>3, <1>4 DEF Straight, Surely, Touches, NonEmpty
<1>9. \A i, p : Touches(s, i, p) => i \in {1, 2}
  BY <1>3 DEF Touches
<1>10. Fed("controller", s) /\ Gated("controller", s)
  <2>1. \A i : Touches(s, i, Gate("controller"))
                => Claims(s, i, Gate("controller"))
    BY <1>1, <1>8, <1>9, SurelyTouches, ClaimsTouch, OnePathEach,
       ControllerSeals
  <2> QED
    BY <1>6, <2>1, Effectless
<1>11. \A c \in Seals("controller") : Closes(s, c) /\ Barred(s, c)
  BY <1>1, <1>8, <1>9, SurelyTouches, OnePathEach, ControllerSeals
  DEF Closes, Barred
<1> QED
  BY <1>8, <1>10, <1>11, ControllerSeals DEF InOrder, s

LEMMA ObserveControllerInOrder ==
  InOrder("controller", "observe-controller", ObserveController)
<1> USE DEF Absent, Needs, Claim, Once, Replace, Retain, Writes, Exclusives,
            Effect, ObserveController, SupportEnrollment, Bound, Collected
<1> DEFINE s == ObserveController
<1>1. /\ Surely(s, 2, "controller-after") /\ Surely(s, 4, "pulse-after")
      /\ Surely(s, 5, "after-pulse") /\ Surely(s, 8, "controller-query")
      /\ Surely(s, 10, "controller-result") /\ Claims(s, 4, "pulse-after")
  BY SMTT(30) DEF Surely, Touches, Checks, Claims, Makes
<1>2. Len(s) = 10 /\ DOMAIN s = 1..10
  OBVIOUS
<1>3. \A i \in DOMAIN s : s[i].do \in Makes => i \in {2, 4, 5, 8, 10}
  BY DEF Makes
<1>4. \A i \in DOMAIN s :
        s[i].do \in Makes => \A p, q \in s[i].at : p = q
  BY DEF Makes
<1>5. \A i \in {4} : s[i].do \in {"claim", "exclusive", "retain"}
  OBVIOUS
<1>6. \A i \in DOMAIN s : s[i].do \in EffectNames => i \in {1, 6}
  BY DEF EffectNames
<1>7. /\ s[1].do = "observe" /\ s[1].at = {"nq.toml"}
      /\ s[6].do = "acquire"
      /\ s[6].at = {"subject", "nq.toml", "controller-after", "pulse-after",
                    "after-pulse"}
  OBVIOUS
<1> HIDE DEF s
<1>8. Straight(s)
  BY <1>1, <1>2, <1>3, <1>4 DEF Straight, Surely, Touches, NonEmpty
<1>9. \A i, p : Touches(s, i, p) => i \in {2, 4, 5, 8, 10}
  BY <1>3 DEF Touches
<1>10. Fed("controller", s) /\ Gated("controller", s)
  <2>1. Fed("controller", s)
    <3>1. Given("controller") = {"subject", "nq.toml"}
      BY Zenon DEF Given
    <3>2. \A k, p : p \in Given("controller") => ~Touches(s, k, p)
      BY <1>1, <1>8, <1>9, <3>1, SurelyTouches, OnePathEach
    <3> HIDE DEF Given
    <3> QED
      BY <1>1, <1>6, <1>7, <3>1, <3>2 DEF Fed
  <2>2. Gated("controller", s)
    BY <1>1, <1>8, <1>9, <1>6, <1>7, SurelyTouches, ClaimsTouch,
    OnePathEach, ControllerSeals
    DEF Gated, Straight, Single, EffectNames
  <2> QED
    BY <2>1, <2>2
<1>11. \A c \in Seals("controller") : Closes(s, c) /\ Barred(s, c)
  BY <1>1, <1>8, <1>9, <1>5, SurelyTouches, OnePathEach, ControllerSeals
  DEF Closes, Barred
<1> QED
  BY <1>8, <1>10, <1>11, ControllerSeals DEF InOrder, s

LEMMA LocalFixtureInOrder ==
  InOrder("fixture", "local-fixture", LocalFixture)
<1> USE DEF Absent, Needs, Claim, Once, Replace, Retain, Writes, Exclusives,
            Effect, LocalFixture, OwnAndApply, Enrolled
<1> DEFINE s == LocalFixture
<1>1. /\ Surely(s, 2, "owned") /\ Surely(s, 3, "OWNERSHIP")
      /\ Surely(s, 4, "request") /\ Surely(s, 5, "admission")
      /\ Surely(s, 6, "fixture.service") /\ Surely(s, 8, "live-cohort")
      /\ Surely(s, 9, "gateway") /\ Claims(s, 2, "owned")
  BY DEF Surely, Touches, Checks, Claims, Makes
<1>2. Len(s) = 9 /\ DOMAIN s = 1..9
  OBVIOUS
<1>3. \A i \in DOMAIN s : s[i].do \in Makes =>
        i \in {2, 3, 4, 5, 6,
            8, 9}
  BY DEF Makes
<1>4. \A i \in DOMAIN s :
        s[i].do \in Makes => \A p, q \in s[i].at : p = q
  BY DEF Makes
<1>5. \A i \in {2, 3, 4, 5, 6, 8, 9} : s[i].do \in {"claim", "exclusive",
                "retain"}
  OBVIOUS
<1>6. \A i \in DOMAIN s : s[i].do \in EffectNames => i \in {7}
  BY DEF EffectNames
<1>7. /\ s[7].do = "apply"
      /\ s[7].at = {"OWNERSHIP", "request", "admission"}
  OBVIOUS
<1> HIDE DEF s
<1>8. Straight(s)
  BY <1>1, <1>2, <1>3, <1>4 DEF Straight, Surely, Touches, NonEmpty
<1>9. \A i, p : Touches(s, i, p) => i \in {2, 3, 4, 5, 6, 8, 9}
  BY <1>3 DEF Touches
<1>10. Fed("fixture", s) /\ Gated("fixture", s)
  <2>1. Fed("fixture", s)
    BY <1>1, <1>8, <1>9, <1>6, <1>7, SurelyTouches, ClaimsTouch,
    OnePathEach, FixtureSeals
    DEF Fed, Straight, EffectNames
  <2>2. Gated("fixture", s)
    BY <1>1, <1>8, <1>9, <1>6, <1>7, SurelyTouches, ClaimsTouch,
    OnePathEach, FixtureSeals
    DEF Gated, Straight, Single, EffectNames
  <2> QED
    BY <2>1, <2>2
<1>11. \A c \in Seals("fixture") : Closes(s, c) /\ Barred(s, c)
  BY <1>1, <1>8, <1>9, <1>5, SurelyTouches, OnePathEach, FixtureSeals
  DEF Closes, Barred
<1> QED
  BY <1>8, <1>10, <1>11, FixtureSeals DEF InOrder, s

LEMMA ServiceFixtureInOrder ==
  InOrder("fixture", "service-fixture", ServiceFixture({}))
<1> USE DEF Absent, Needs, Claim, Once, Replace, Retain, Writes, Exclusives,
            Effect, ServiceFixture, OwnAndApply, Enrolled
<1> DEFINE s == ServiceFixture({})
<1>1. /\ Surely(s, 2, "owned") /\ Surely(s, 3, "OWNERSHIP")
      /\ Surely(s, 4, "request") /\ Surely(s, 5, "admission")
      /\ Surely(s, 7, "live-cohort") /\ Surely(s, 8, "gateway")
      /\ Claims(s, 2, "owned")
  BY DEF Surely, Touches, Checks, Claims, Makes
<1>2. Len(s) = 8 /\ DOMAIN s = 1..8
  OBVIOUS
<1>3. \A i \in DOMAIN s : s[i].do \in Makes =>
        i \in {2, 3, 4, 5, 7, 8}
  BY DEF Makes
<1>4. \A i \in DOMAIN s :
        s[i].do \in Makes => \A p, q \in s[i].at : p = q
  BY DEF Makes
<1>5. \A i \in {2, 3, 4, 5, 7, 8} : s[i].do \in {"claim", "exclusive",
                "retain"}
  OBVIOUS
<1>6. \A i \in DOMAIN s : s[i].do \in EffectNames => i \in {6}
  BY DEF EffectNames
<1>7. /\ s[6].do = "apply"
      /\ s[6].at = {"OWNERSHIP", "request", "admission"}
  OBVIOUS
<1> HIDE DEF s
<1>8. Straight(s)
  BY <1>1, <1>2, <1>3, <1>4 DEF Straight, Surely, Touches, NonEmpty
<1>9. \A i, p : Touches(s, i, p) => i \in {2, 3, 4, 5, 7, 8}
  BY <1>3 DEF Touches
<1>10. Fed("fixture", s) /\ Gated("fixture", s)
  <2>1. Fed("fixture", s)
    BY <1>1, <1>8, <1>9, <1>6, <1>7, SurelyTouches, ClaimsTouch,
    OnePathEach, FixtureSeals
    DEF Fed, Straight, EffectNames
  <2>2. Gated("fixture", s)
    BY <1>1, <1>8, <1>9, <1>6, <1>7, SurelyTouches, ClaimsTouch,
    OnePathEach, FixtureSeals
    DEF Gated, Straight, Single, EffectNames
  <2> QED
    BY <2>1, <2>2
<1>11. \A c \in Seals("fixture") : Closes(s, c) /\ Barred(s, c)
  BY <1>1, <1>8, <1>9, <1>5, SurelyTouches, OnePathEach, FixtureSeals
  DEF Closes, Barred
<1> QED
  BY <1>8, <1>10, <1>11, FixtureSeals DEF InOrder, s

LEMMA TryInOrder ==
  InOrder("fixture", "try", TryConstellation)
<1> USE DEF Absent, Needs, Claim, Once, Replace, Retain, Writes, Exclusives,
            Effect, TryConstellation, ServiceFixture, OwnAndApply, Enrolled
<1> DEFINE s == TryConstellation
<1>1. /\ Checks(s, 1, "loopback.conf") /\ Surely(s, 3, "candidate")
      /\ Surely(s, 4, "reader.service.d") /\ Surely(s, 5, "loopback.conf")
      /\ Surely(s, 7, "owned") /\ Surely(s, 8, "OWNERSHIP")
      /\ Surely(s, 9, "request") /\ Surely(s, 10, "admission")
      /\ Surely(s, 12, "live-cohort") /\ Surely(s, 13, "gateway")
      /\ Surely(s, 14, "receipt") /\ Claims(s, 7, "owned")
  BY SMTT(30) DEF Surely, Touches, Checks, Claims, Makes
<1>2. Len(s) = 14 /\ DOMAIN s = 1..14
  OBVIOUS
<1>3. \A i \in DOMAIN s : s[i].do \in Makes =>
        i \in {3, 4, 5, 7, 8, 9, 10, 12, 13, 14}
  BY DEF Makes
<1>4. \A i \in DOMAIN s :
        s[i].do \in Makes => \A p, q \in s[i].at : p = q
  BY DEF Makes
<1>5. \A i \in {7, 8, 9, 10, 12, 13} : s[i].do \in {"claim", "exclusive",
                                                    "retain"}
  OBVIOUS
<1>6. \A i \in DOMAIN s : s[i].do \in EffectNames => i \in {11}
  BY DEF EffectNames
<1>7. /\ s[11].do = "apply"
      /\ s[11].at = {"OWNERSHIP", "request", "admission", "loopback.conf"}
  OBVIOUS
<1> HIDE DEF s
<1>8. Straight(s)
  BY <1>1, <1>2, <1>3, <1>4 DEF Straight, Surely, Touches, NonEmpty
<1>9. \A i, p : Touches(s, i, p) => i \in {3, 4, 5, 7, 8, 9, 10, 12, 13,
                                           14}
  BY <1>3 DEF Touches
<1>10. Fed("fixture", s) /\ Gated("fixture", s)
  <2>1. Fed("fixture", s)
    BY <1>1, <1>8, <1>9, <1>6, <1>7, SurelyTouches, ClaimsTouch,
    OnePathEach, FixtureSeals
    DEF Fed, Straight, EffectNames
  <2>2. Gated("fixture", s)
    BY <1>1, <1>8, <1>9, <1>6, <1>7, SurelyTouches, ClaimsTouch,
    OnePathEach, FixtureSeals
    DEF Gated, Straight, Single, EffectNames
  <2> QED
    BY <2>1, <2>2
<1>11. \A c \in Seals("fixture") : Closes(s, c) /\ Barred(s, c)
  BY <1>1, <1>8, <1>9, <1>5, SurelyTouches, OnePathEach, FixtureSeals
  DEF Closes, Barred
<1> QED
  BY <1>8, <1>10, <1>11, FixtureSeals DEF InOrder, s

LEMMA CaptureInOrder ==
  InOrder("capture", "capture", Capture)
<1> USE DEF Absent, Needs, Claim, Once, Replace, Retain, Writes, Exclusives,
            Effect, Capture
<1> DEFINE s == Capture
<1>1. /\ Surely(s, 1, "occurrence")
  BY DEF Surely, Touches, Checks, Claims, Makes
<1>2. Len(s) = 2 /\ DOMAIN s = 1..2
  OBVIOUS
<1>3. \A i \in DOMAIN s : s[i].do \in Makes =>
        i \in {1}
  BY DEF Makes
<1>4. \A i \in DOMAIN s :
        s[i].do \in Makes => \A p, q \in s[i].at : p = q
  BY DEF Makes
<1>5. \A i \in {1} : s[i].do \in {"claim", "exclusive", "retain"}
  OBVIOUS
<1>6. \A i \in DOMAIN s : s[i].do \in EffectNames => i \in {2}
  BY DEF EffectNames
<1>7. /\ s[2].do = "accept"
      /\ s[2].at = {"occurrence"}
  OBVIOUS
<1> HIDE DEF s
<1>8. Straight(s)
  BY <1>1, <1>2, <1>3, <1>4 DEF Straight, Surely, Touches, NonEmpty
<1>9. \A i, p : Touches(s, i, p) => i \in {1}
  BY <1>3 DEF Touches
<1>10. Fed("capture", s) /\ Gated("capture", s)
  <2>1. Fed("capture", s)
    BY <1>1, <1>8, <1>9, <1>6, <1>7, SurelyTouches, ClaimsTouch,
    OnePathEach, CaptureSeals
    DEF Fed, Straight, EffectNames
  <2>2. Gated("capture", s)
    BY <1>1, <1>8, <1>9, <1>6, <1>7, SurelyTouches, ClaimsTouch,
    OnePathEach, CaptureSeals
    DEF Gated, Straight, Single, EffectNames
  <2> QED
    BY <2>1, <2>2
<1>11. \A c \in Seals("capture") : Closes(s, c) /\ Barred(s, c)
  BY <1>1, <1>8, <1>9, <1>5, SurelyTouches, OnePathEach, CaptureSeals
  DEF Closes, Barred
<1> QED
  BY <1>8, <1>10, <1>11, CaptureSeals DEF InOrder, s

LEMMA TickInOrder ==
  InOrder("adapter", "tick", Tick)
<1> USE DEF Absent, Needs, Claim, Once, Replace, Retain, Writes, Exclusives,
            Effect, Tick, BuildRequest
<1> DEFINE s == Tick
<1>1. /\ Surely(s, 1, "artifact") /\ Surely(s, 3, "pulse-load-support")
      /\ Surely(s, 4, "current")
  BY DEF Surely, Touches, Checks, Claims, Makes
<1>2. Len(s) = 5 /\ DOMAIN s = 1..5
  OBVIOUS
<1>3. \A i \in DOMAIN s : s[i].do \in Makes =>
        i \in {1, 3, 4}
  BY DEF Makes
<1>4. \A i \in DOMAIN s :
        s[i].do \in Makes => \A p, q \in s[i].at : p = q
  BY DEF Makes
<1>6. \A i \in DOMAIN s : s[i].do \in EffectNames => i \in {5}
  BY DEF EffectNames
<1>7. /\ s[5].do = "cycle"
      /\ s[5].at = {"pulse-load-support", "current"}
  OBVIOUS
<1> HIDE DEF s
<1>8. Straight(s)
  BY <1>1, <1>2, <1>3, <1>4 DEF Straight, Surely, Touches, NonEmpty
<1>9. \A i, p : Touches(s, i, p) => i \in {1, 3, 4}
  BY <1>3 DEF Touches
<1>10. Fed("adapter", s) /\ Gated("adapter", s)
  <2>1. Fed("adapter", s)
    BY <1>1, <1>8, <1>9, <1>6, <1>7, SurelyTouches, ClaimsTouch,
    OnePathEach, AdapterSeals
    DEF Fed, Straight, EffectNames
  <2>2. Gated("adapter", s)
    BY <1>1, <1>8, <1>9, <1>6, <1>7, SurelyTouches, ClaimsTouch,
    OnePathEach, AdapterSeals
    DEF Gated, Straight, Single, EffectNames
  <2> QED
    BY <2>1, <2>2
<1> QED
  BY <1>8, <1>10, AdapterSeals DEF InOrder, s

LEMMA PreparePlanInOrder ==
  InOrder("preparation", "prepare-plan", PreparePlan)
<1> USE DEF Absent, Needs, Claim, Once, Replace, Retain, Writes, Exclusives,
            Effect, PreparePlan
<1> DEFINE s == PreparePlan
<1>1. /\ Surely(s, 1, "maude-plan") /\ Surely(s, 2, "preparation-started")
      /\ Surely(s, 3, "plans.sqlite") /\ Surely(s, 4, "binding")
      /\ Surely(s, 5, "validator-config") /\ Surely(s, 6, "handoff")
      /\ Surely(s, 7, "executor-state") /\ Surely(s, 8, "executor-config")
      /\ Surely(s, 9, "plan-validation")
      /\ Surely(s, 10, "preparation-finished")
  BY DEF Surely, Touches, Checks, Claims, Makes
<1>2. Len(s) = 10 /\ DOMAIN s = 1..10
  OBVIOUS
<1>3. \A i \in DOMAIN s : s[i].do \in Makes => i \in 1..10
  BY DEF Makes
<1>4. \A i \in DOMAIN s :
        s[i].do \in Makes => \A p, q \in s[i].at : p = q
  BY DEF Makes
<1>5. \A i \in {1, 2, 4, 5, 6, 7, 8, 9, 10} :
        s[i].do \in {"claim", "exclusive", "retain"}
  OBVIOUS
<1>6. \A i \in DOMAIN s : s[i].do \notin EffectNames
  BY DEF EffectNames
<1> HIDE DEF s
<1>8. Straight(s)
  BY <1>1, <1>2, <1>3, <1>4 DEF Straight, Surely, Touches, NonEmpty
<1>9. \A i, p : Touches(s, i, p) => i \in {1, 2, 3, 4, 5, 6, 7, 8, 9,
                                           10}
  BY <1>3 DEF Touches
<1>10. Fed("preparation", s) /\ Gated("preparation", s)
  <2>1. \A i : Touches(s, i, Gate("preparation"))
                => Claims(s, i, Gate("preparation"))
    BY <1>1, <1>8, <1>9, SurelyTouches, ClaimsTouch, OnePathEach,
       PreparationSeals
  <2> QED
    BY <1>6, <2>1, Effectless
<1>11. \A c \in Seals("preparation") : Closes(s, c) /\ Barred(s, c)
  BY <1>1, <1>8, <1>9, <1>5, SurelyTouches, OnePathEach, PreparationSeals
  DEF Closes, Barred
<1> QED
  BY <1>8, <1>10, <1>11, PreparationSeals DEF InOrder, s

LEMMA PreparePortsInOrder ==
  InOrder("preparation", "prepare-ports", PreparePorts)
<1> USE DEF Absent, Needs, Claim, Once, Replace, Retain, Writes, Exclusives,
            Effect, PreparePorts
<1> DEFINE s == PreparePorts
<1>1. /\ Surely(s, 1, "ports") /\ Surely(s, 2, "ports-started")
      /\ Surely(s, 3, "docket-state")
      /\ Surely(s, 4, "docket-standing-config") /\ Surely(s, 5, "launchers")
      /\ Surely(s, 6, "issuer-seed") /\ Surely(s, 7, "issuer.pk8")
      /\ Surely(s, 8, "docket-root-enrollment") /\ Surely(s, 9, "ports-finished")
  BY DEF Surely, Touches, Checks, Claims, Makes
<1>2. Len(s) = 9 /\ DOMAIN s = 1..9
  OBVIOUS
<1>3. \A i \in DOMAIN s : s[i].do \in Makes =>
        i \in {1, 2, 3, 4, 5,
            6, 7, 8, 9}
  BY DEF Makes
<1>4. \A i \in DOMAIN s :
        s[i].do \in Makes => \A p, q \in s[i].at : p = q
  BY DEF Makes
<1>5. \A i \in {1, 2, 3, 4, 7, 8, 9} : s[i].do \in {"claim", "exclusive",
                "retain"}
  OBVIOUS
<1>6. \A i \in DOMAIN s : s[i].do \notin EffectNames
  BY DEF EffectNames
<1> HIDE DEF s
<1>8. Straight(s)
  BY <1>1, <1>2, <1>3, <1>4 DEF Straight, Surely, Touches, NonEmpty
<1>9. \A i, p : Touches(s, i, p) => i \in {1, 2, 3, 4, 5, 6, 7, 8, 9}
  BY <1>3 DEF Touches
<1>10. Fed("preparation", s) /\ Gated("preparation", s)
  <2>1. \A i : Touches(s, i, Gate("preparation"))
                => Claims(s, i, Gate("preparation"))
    BY <1>1, <1>8, <1>9, SurelyTouches, ClaimsTouch, OnePathEach,
       PreparationSeals
  <2> QED
    BY <1>6, <2>1, Effectless
<1>11. \A c \in Seals("preparation") : Closes(s, c) /\ Barred(s, c)
  BY <1>1, <1>8, <1>9, <1>5, SurelyTouches, OnePathEach, PreparationSeals
  DEF Closes, Barred
<1> QED
  BY <1>8, <1>10, <1>11, PreparationSeals DEF InOrder, s

LEMMA PrepareOwnerInOrder ==
  InOrder("preparation", "prepare-owner", PrepareOwner)
<1> USE DEF Absent, Needs, Claim, Once, Replace, Retain, Writes, Exclusives,
            Effect, PrepareOwner
<1> DEFINE s == PrepareOwner
<1>1. /\ Surely(s, 2, "owner") /\ Surely(s, 3, "review-material")
      /\ Surely(s, 4, "cycle-config") /\ Surely(s, 5, "genesis")
      /\ Surely(s, 6, "preparation-status")
  BY DEF Surely, Touches, Checks, Claims, Makes
<1>2. Len(s) = 6 /\ DOMAIN s = 1..6
  OBVIOUS
<1>3. \A i \in DOMAIN s : s[i].do \in Makes =>
        i \in {2, 3, 4, 5, 6}
  BY DEF Makes
<1>4. \A i \in DOMAIN s :
        s[i].do \in Makes => \A p, q \in s[i].at : p = q
  BY DEF Makes
<1>5. \A i \in {2, 3, 4, 5, 6} : s[i].do \in {"claim", "exclusive", "retain"}
  OBVIOUS
<1>6. \A i \in DOMAIN s : s[i].do \notin EffectNames
  BY DEF EffectNames
<1> HIDE DEF s
<1>8. Straight(s)
  BY <1>1, <1>2, <1>3, <1>4 DEF Straight, Surely, Touches, NonEmpty
<1>9. \A i, p : Touches(s, i, p) => i \in {2, 3, 4, 5, 6}
  BY <1>3 DEF Touches
<1>10. Fed("preparation", s) /\ Gated("preparation", s)
  <2>1. \A i : Touches(s, i, Gate("preparation"))
                => Claims(s, i, Gate("preparation"))
    BY <1>1, <1>8, <1>9, SurelyTouches, ClaimsTouch, OnePathEach,
       PreparationSeals
  <2> QED
    BY <1>6, <2>1, Effectless
<1>11. \A c \in Seals("preparation") : Closes(s, c) /\ Barred(s, c)
  BY <1>1, <1>8, <1>9, <1>5, SurelyTouches, OnePathEach, PreparationSeals
  DEF Closes, Barred
<1> QED
  BY <1>8, <1>10, <1>11, PreparationSeals DEF InOrder, s

LEMMA SealAdmissionInOrder ==
  InOrder("preparation", "seal-admission", SealAdmission)
<1> USE DEF Absent, Needs, Claim, Once, Replace, Retain, Writes, Exclusives,
            Effect, SealAdmission
<1> DEFINE s == SealAdmission
<1>1. /\ Surely(s, 2, "cycle-request")
  BY DEF Surely, Touches, Checks, Claims, Makes
<1>2. Len(s) = 2 /\ DOMAIN s = 1..2
  OBVIOUS
<1>3. \A i \in DOMAIN s : s[i].do \in Makes =>
        i \in {2}
  BY DEF Makes
<1>4. \A i \in DOMAIN s :
        s[i].do \in Makes => \A p, q \in s[i].at : p = q
  BY DEF Makes
<1>5. \A i \in {2} : s[i].do \in {"claim", "exclusive", "retain"}
  OBVIOUS
<1>6. \A i \in DOMAIN s : s[i].do \notin EffectNames
  BY DEF EffectNames
<1> HIDE DEF s
<1>8. Straight(s)
  BY <1>1, <1>2, <1>3, <1>4 DEF Straight, Surely, Touches, NonEmpty
<1>9. \A i, p : Touches(s, i, p) => i \in {2}
  BY <1>3 DEF Touches
<1>10. Fed("preparation", s) /\ Gated("preparation", s)
  <2>1. \A i : Touches(s, i, Gate("preparation"))
                => Claims(s, i, Gate("preparation"))
    BY <1>1, <1>8, <1>9, SurelyTouches, ClaimsTouch, OnePathEach,
       PreparationSeals
  <2> QED
    BY <1>6, <2>1, Effectless
<1>11. \A c \in Seals("preparation") : Closes(s, c) /\ Barred(s, c)
  BY <1>1, <1>8, <1>9, <1>5, SurelyTouches, OnePathEach, PreparationSeals
  DEF Closes, Barred
<1> QED
  BY <1>8, <1>10, <1>11, PreparationSeals DEF InOrder, s

LEMMA EnrollCallerInOrder ==
  InOrder("preparation", "enroll-caller", EnrollCaller)
<1> USE DEF Absent, Needs, Claim, Once, Replace, Retain, Writes, Exclusives,
            Effect, EnrollCaller, CallerInputs
<1> DEFINE s == EnrollCaller
<1>1. /\ Surely(s, 2, "caller")
  BY DEF Surely, Touches, Checks, Claims, Makes
<1>2. Len(s) = 3 /\ DOMAIN s = 1..3
  OBVIOUS
<1>3. \A i \in DOMAIN s : s[i].do \in Makes =>
        i \in {2}
  BY DEF Makes
<1>4. \A i \in DOMAIN s :
        s[i].do \in Makes => \A p, q \in s[i].at : p = q
  BY DEF Makes
<1>5. \A i \in {2} : s[i].do \in {"claim", "exclusive", "retain"}
  OBVIOUS
<1>6. \A i \in DOMAIN s : s[i].do \notin EffectNames
  BY DEF EffectNames
<1> HIDE DEF s
<1>8. Straight(s)
  BY <1>1, <1>2, <1>3, <1>4 DEF Straight, Surely, Touches, NonEmpty
<1>9. \A i, p : Touches(s, i, p) => i \in {2}
  BY <1>3 DEF Touches
<1>10. Fed("preparation", s) /\ Gated("preparation", s)
  <2>1. \A i : Touches(s, i, Gate("preparation"))
                => Claims(s, i, Gate("preparation"))
    BY <1>1, <1>8, <1>9, SurelyTouches, ClaimsTouch, OnePathEach,
       PreparationSeals
  <2> QED
    BY <1>6, <2>1, Effectless
<1>11. \A c \in Seals("preparation") : Closes(s, c) /\ Barred(s, c)
  BY <1>1, <1>8, <1>9, <1>5, SurelyTouches, OnePathEach, PreparationSeals
  DEF Closes, Barred
<1> QED
  BY <1>8, <1>10, <1>11, PreparationSeals DEF InOrder, s

LEMMA ClosureBuildInOrder ==
  InOrder("closure", "closure-build", ClosureBuild)
<1> USE DEF Absent, Needs, Claim, Once, Replace, Retain, Writes, Exclusives,
            Effect, ClosureBuild
<1> DEFINE s == ClosureBuild
<1>1. /\ Surely(s, 2, "closure-owner") /\ Surely(s, 3, "checkpoint")
      /\ Surely(s, 4, "wheel-requirements")
      /\ Surely(s, 6, "requirements.lock") /\ Surely(s, 7, "venv")
      /\ Surely(s, 8, "switchyard-source") /\ Surely(s, 9, "built")
      /\ Surely(s, 10, "closure") /\ Claims(s, 2, "closure-owner")
  BY DEF Surely, Touches, Checks, Claims, Makes
<1>2. Len(s) = 11 /\ DOMAIN s = 1..11
  OBVIOUS
<1>3. \A i \in DOMAIN s : s[i].do \in Makes =>
        i \in {2, 3, 4, 6, 7,
            8, 9, 10}
  BY DEF Makes
<1>4. \A i \in DOMAIN s :
        s[i].do \in Makes => \A p, q \in s[i].at : p = q
  BY DEF Makes
<1>5. \A i \in {2, 3, 4, 6, 10} : s[i].do \in {"claim", "exclusive", "retain"}
  OBVIOUS
<1>6. \A i \in DOMAIN s : s[i].do \in EffectNames => i \in {5}
  BY DEF EffectNames
<1>7. /\ s[5].do = "download"
      /\ s[5].at = {"wheel-requirements"}
  OBVIOUS
<1> HIDE DEF s
<1>8. Straight(s)
  BY <1>1, <1>2, <1>3, <1>4 DEF Straight, Surely, Touches, NonEmpty
<1>9. \A i, p : Touches(s, i, p) => i \in {2, 3, 4, 6, 7, 8, 9, 10}
  BY <1>3 DEF Touches
<1>10. Fed("closure", s) /\ Gated("closure", s)
  <2>1. Fed("closure", s)
    BY <1>1, <1>8, <1>9, <1>6, <1>7, SurelyTouches, ClaimsTouch,
    OnePathEach, ClosureSeals
    DEF Fed, Straight, EffectNames
  <2>2. Gated("closure", s)
    BY <1>1, <1>8, <1>9, <1>6, <1>7, SurelyTouches, ClaimsTouch,
    OnePathEach, ClosureSeals
    DEF Gated, Straight, Single, EffectNames
  <2> QED
    BY <2>1, <2>2
<1>11. \A c \in Seals("closure") : Closes(s, c) /\ Barred(s, c)
  BY <1>1, <1>8, <1>9, <1>5, SurelyTouches, OnePathEach, ClosureSeals
  DEF Closes, Barred
<1> QED
  BY <1>8, <1>10, <1>11, ClosureSeals DEF InOrder, s

LEMMA ClosureUnitInOrder ==
  InOrder("closure", "closure-unit", ClosureUnit)
<1> USE DEF Absent, Needs, Claim, Once, Replace, Retain, Writes, Exclusives,
            Effect, ClosureUnit, ClosureBuild
<1> DEFINE s == ClosureUnit
<1>1. /\ Checks(s, 1, "records") /\ Surely(s, 2, "records")
      /\ Surely(s, 3, "run.log") /\ Surely(s, 4, "records-checkpoint")
      /\ Surely(s, 5, "inputs.sha256") /\ Surely(s, 7, "closure-owner")
      /\ Surely(s, 8, "checkpoint") /\ Surely(s, 9, "wheel-requirements")
      /\ Surely(s, 11, "requirements.lock") /\ Surely(s, 12, "venv")
      /\ Surely(s, 13, "switchyard-source") /\ Surely(s, 14, "built")
      /\ Surely(s, 15, "closure") /\ Surely(s, 17, "allocation-final")
      /\ Surely(s, 18, "terminal") /\ Claims(s, 7, "closure-owner")
  BY SMTT(30) DEF Surely, Touches, Checks, Claims, Makes
<1>2. Len(s) = 18 /\ DOMAIN s = 1..18
  OBVIOUS
<1>3. \A i \in DOMAIN s : s[i].do \in Makes =>
        i \in {2, 3, 4, 5, 7,
            8, 9, 11, 12, 13, 14, 15, 17, 18}
  BY DEF Makes
<1>4. \A i \in DOMAIN s :
        s[i].do \in Makes => \A p, q \in s[i].at : p = q
  BY DEF Makes
<1>5. \A i \in {2, 7, 8, 9, 11, 15} : s[i].do \in {"claim", "exclusive",
                "retain"}
  OBVIOUS
<1>6. \A i \in DOMAIN s : s[i].do \in EffectNames => i \in {10}
  BY DEF EffectNames
<1>7. /\ s[10].do = "download"
      /\ s[10].at = {"wheel-requirements"}
  OBVIOUS
<1> HIDE DEF s
<1>8. Straight(s)
  BY <1>1, <1>2, <1>3, <1>4 DEF Straight, Surely, Touches, NonEmpty
<1>9. \A i, p : Touches(s, i, p) => i \in {2, 3, 4, 5, 7, 8, 9, 11, 12, 13,
                                           14, 15, 17, 18}
  BY <1>3 DEF Touches
<1>10. Fed("closure", s) /\ Gated("closure", s)
  <2>1. Fed("closure", s)
    BY <1>1, <1>8, <1>9, <1>6, <1>7, SurelyTouches, ClaimsTouch,
    OnePathEach, ClosureSeals
    DEF Fed, Straight, EffectNames
  <2>2. Gated("closure", s)
    BY <1>1, <1>8, <1>9, <1>6, <1>7, SurelyTouches, ClaimsTouch,
    OnePathEach, ClosureSeals
    DEF Gated, Straight, Single, EffectNames
  <2> QED
    BY <2>1, <2>2
<1>11. \A c \in Seals("closure") : Closes(s, c) /\ Barred(s, c)
  BY <1>1, <1>8, <1>9, <1>5, SurelyTouches, OnePathEach, ClosureSeals
  DEF Closes, Barred
<1> QED
  BY <1>8, <1>10, <1>11, ClosureSeals DEF InOrder, s

\* Which script goes by which name, and on which host.
LEMMA ScriptTable ==
  /\ Script("canary-observation") = CanaryObservation
  /\ Script("nq-config") = NqConfig
  /\ Script("attention-config") = AttentionConfig
  /\ Script("ag-docket") = AgDocket
  /\ Script("grant-a") = Grant("grant-a")
  /\ Script("grant-b") = Grant("grant-b")
  /\ Script("mandate") = Mandate
  /\ Script("consumer-config") = ConsumerConfig
  /\ Script("prepare-target") = PrepareTarget
  /\ Script("run-target") = RunTarget
  /\ Script("prepare-controller") = PrepareController
  /\ Script("observe-controller") = ObserveController
  /\ Script("local-fixture") = LocalFixture
  /\ Script("service-fixture") = ServiceFixture({})
  /\ Script("try") = TryConstellation
  /\ Script("capture") = Capture
  /\ Script("tick") = Tick
  /\ Script("prepare-plan") = PreparePlan
  /\ Script("prepare-ports") = PreparePorts
  /\ Script("prepare-owner") = PrepareOwner
  /\ Script("seal-admission") = SealAdmission
  /\ Script("enroll-caller") = EnrollCaller
  /\ Script("closure-build") = ClosureBuild
  /\ Script("closure-unit") = ClosureUnit
  BY Zenon DEF Script

\* The scripts of each host; any other host has none.
LEMMA ScriptsTable ==
  /\ ScriptsOf("observation") = {"canary-observation", "nq-config",
                                 "attention-config"}
  /\ ScriptsOf("action") = {"ag-docket", "grant-a", "grant-b", "mandate",
                            "consumer-config"}
  /\ ScriptsOf("target") = {"prepare-target", "run-target"}
  /\ ScriptsOf("controller") = {"prepare-controller", "observe-controller"}
  /\ ScriptsOf("fixture") = {"local-fixture", "service-fixture", "try"}
  /\ ScriptsOf("capture") = {"capture"}
  /\ ScriptsOf("adapter") = {"tick"}
  /\ ScriptsOf("preparation") = {"prepare-plan", "prepare-ports",
                                 "prepare-owner", "seal-admission",
                                 "enroll-caller"}
  /\ ScriptsOf("closure") = {"closure-build", "closure-unit"}
  BY Zenon DEF ScriptsOf

LEMMA SomeHost ==
  ASSUME NEW h, NEW n \in ScriptsOf(h)
  PROVE  h \in {"observation", "action", "target", "controller", "fixture",
                "capture", "adapter", "preparation", "closure"}
  BY Zenon DEF ScriptsOf

\* Every script of every host has the order the rest of the proof needs.
LEMMA Ordered == \A h : Orderly(h)
<1> SUFFICES ASSUME NEW h, NEW n \in ScriptsOf(h)
             PROVE  InOrder(h, n, Script(n))
  BY DEF Orderly
<1>1. CASE h = "observation"
  BY <1>1, ScriptTable, ScriptsTable, CanaryObservationInOrder,
     NqConfigInOrder, AttentionConfigInOrder
<1>2. CASE h = "action"
  BY <1>2, ScriptTable, ScriptsTable, AgDocketInOrder, GrantAInOrder,
     GrantBInOrder, MandateInOrder, ConsumerConfigInOrder
<1>3. CASE h = "target"
  BY <1>3, ScriptTable, ScriptsTable, PrepareTargetInOrder, RunTargetInOrder
<1>4. CASE h = "controller"
  BY <1>4, ScriptTable, ScriptsTable, PrepareControllerInOrder,
     ObserveControllerInOrder
<1>5. CASE h = "fixture"
  BY <1>5, ScriptTable, ScriptsTable, LocalFixtureInOrder,
     ServiceFixtureInOrder, TryInOrder
<1>6. CASE h = "capture"
  BY <1>6, ScriptTable, ScriptsTable, CaptureInOrder
<1>7. CASE h = "adapter"
  BY <1>7, ScriptTable, ScriptsTable, TickInOrder
<1>8. CASE h = "preparation"
  BY <1>8, ScriptTable, ScriptsTable, PreparePlanInOrder, PreparePortsInOrder,
     PrepareOwnerInOrder, SealAdmissionInOrder, EnrollCallerInOrder
<1>9. CASE h = "closure"
  BY <1>9, ScriptTable, ScriptsTable, ClosureBuildInOrder, ClosureUnitInOrder
<1> QED
  BY <1>1, <1>2, <1>3, <1>4, <1>5, <1>6, <1>7, <1>8, <1>9, SomeHost

\* What a script makes is a path of its host.
LEMMA PathTouched ==
  ASSUME NEW h, NEW n \in ScriptsOf(h), NEW i, NEW p, Touches(Script(n), i, p)
  PROVE  p \in Paths(h)
  BY DEF Paths, Touches

\* Each seal is made by some script, and with it the host has its group.
LEMMA GroupOnHost ==
  ASSUME NEW h, NEW c \in Seals(h), NEW n \in ScriptsOf(h), NEW i,
         Touches(Script(n), i, c)
  PROVE  Group(c) \cup {c} \subseteq Paths(h)
<1>1. Closes(Script(n), c)
  BY Ordered DEF Orderly, InOrder
<1>2. ASSUME NEW p \in Group(c)
      PROVE  p \in Paths(h)
  <2>1. PICK k \in 1..(i - 1) : Surely(Script(n), k, p)
    BY <1>1 DEF Closes
  <2> QED
    BY <2>1, PathTouched DEF Surely
<1>3. c \in Paths(h)
  BY PathTouched
<1> QED
  BY <1>2, <1>3

\* The step that makes each seal.
LEMMA SealMakers ==
  /\ Touches(AgDocket, 15, "identity")
  /\ Touches(PrepareTarget, 10, "m2-identity")
  /\ Touches(RunTarget, 18, "active.sqlite")
  /\ Touches(RunTarget, 25, "target-result")
  /\ Touches(ObserveController, 10, "controller-result")
  /\ Touches(LocalFixture, 9, "gateway")
  /\ Touches(TryConstellation, 14, "receipt")
  /\ Touches(Capture, 1, "occurrence")
  /\ Touches(CanaryObservation, 6, "nqd-ops.toml")
  /\ Touches(CanaryObservation, 10, "attention.toml")
  /\ Touches(PreparePlan, 10, "preparation-finished")
  /\ Touches(PreparePorts, 9, "ports-finished")
  /\ Touches(PrepareOwner, 6, "preparation-status")
  /\ Touches(SealAdmission, 2, "cycle-request")
  /\ Touches(EnrollCaller, 2, "caller")
  /\ Touches(ClosureBuild, 10, "closure")
  /\ Touches(ClosureUnit, 18, "terminal")
  BY DEF Touches, Makes, Absent, Needs, Claim, Once, Replace, Retain, Writes,
         Exclusives, Effect, AgDocket, AgDocketGuard, AttentionConfig,
         CallerInputs, CanaryObservation, Capture, ClosureBuild, ClosureUnit,
         EnrollCaller, Enrolled, LocalFixture, NqConfig, ObserveController,
         OwnAndApply, PrepareOwner, PreparePlan, PreparePorts, PrepareTarget,
         RunTarget, RunTargetGuard, SealAdmission, ServiceFixture,
         SupportEnrollment, TryConstellation, Bound, Collected,
         PrepareTargetGuard

LEMMA SealedHost ==
  ASSUME NEW h, NEW c \in Seals(h)
  PROVE  h \in {"action", "target", "controller", "fixture", "capture",
                "observation", "preparation", "closure"}
  BY Zenon DEF Seals

\* Sealed groups are on their host, and none of them is ever retired.
LEMMA SealedGroups == \A h : Sealed(h)
<1> SUFFICES ASSUME NEW h, NEW c \in Seals(h)
             PROVE  Group(c) \cup {c} \subseteq Paths(h)
  <2>1. {"grant",
         "grant.enrollment"} \cap (Group("identity") \cup {"identity"}) = {}
    BY ActionSeals
  <2> QED
    BY <2>1, ActionSeals DEF Sealed
<1>1. CASE h = "action"
  BY <1>1, ActionSeals, SealMakers, ScriptTable, ScriptsTable, GroupOnHost
<1>2. CASE h = "target"
  BY <1>2, TargetSeals, SealMakers, ScriptTable, ScriptsTable, GroupOnHost
<1>3. CASE h = "controller"
  BY <1>3, ControllerSeals, SealMakers, ScriptTable, ScriptsTable, GroupOnHost
<1>4. CASE h = "fixture"
  BY <1>4, FixtureSeals, SealMakers, ScriptTable, ScriptsTable, GroupOnHost
<1>5. CASE h = "capture"
  BY <1>5, CaptureSeals, SealMakers, ScriptTable, ScriptsTable, GroupOnHost
<1>6. CASE h = "observation"
  BY <1>6, ObservationSeals, SealMakers, ScriptTable, ScriptsTable,
     GroupOnHost
<1>7. CASE h = "preparation"
  BY <1>7, PreparationSeals, SealMakers, ScriptTable, ScriptsTable,
     GroupOnHost
<1>8. CASE h = "closure"
  BY <1>8, ClosureSeals, SealMakers, ScriptTable, ScriptsTable, GroupOnHost
<1> QED
  BY <1>1, <1>2, <1>3, <1>4, <1>5, <1>6, <1>7, <1>8, SealedHost

\* The grants and their journals are paths of the canary's host.
LEMMA ActionPaths ==
  {"grant", "grant.enrollment", "journal-a",
   "journal-b"} \subseteq Paths("action")
<1>1. /\ Touches(Grant("grant-a"), 2, "journal-a")
      /\ Touches(Grant("grant-a"), 3, "grant")
      /\ Touches(Grant("grant-a"), 4, "grant.enrollment")
      /\ Touches(Grant("grant-b"), 2, "journal-b")
  BY DEF Touches, Makes, Grant, Journal, Absent, Claim, Writes
<1> QED
  BY <1>1, ScriptTable, ScriptsTable, PathTouched

(******************************* the moves *********************************)

FileStates(n) ==
  {Nothing} \cup {Torn(r) : r \in 1..n} \cup {Whole(r) : r \in 1..n}

Plan == Script(job.name)

Going ==
  /\ Len(ran) >= 1
  /\ job = [name |-> ran[Len(ran)], run |-> Len(ran), at |-> job.at]
  /\ job.at \in 1..(Len(Plan) + 1)

Typed ==
  /\ host \in Hosts
  /\ ran \in Seq(ScriptsOf(host)) /\ Len(ran) <= MaxRuns[host]
  /\ files \in [Paths(host) -> FileStates(Len(ran))]
  /\ job = Idle \/ Going
  /\ \A e \in effects : e.run \in 1..Len(ran)

\* A script under way is one of the host's, and it has an order.
LEMMA UnderWay ==
  ASSUME Typed, job # Idle
  PROVE  /\ Going /\ job.at \in Nat \ {0} /\ job.run \in Nat \ {0}
         /\ job.run = Len(ran) /\ job.name = ran[Len(ran)]
         /\ job.name \in ScriptsOf(host)
         /\ Straight(Plan)
<1>1. Going /\ ran \in Seq(ScriptsOf(host))
  BY DEF Typed
<1>2. /\ job.name = ran[Len(ran)] /\ job.run = Len(ran)
      /\ Len(ran) \in Nat \ {0}
  BY <1>1 DEF Going
<1>3. job.name \in ScriptsOf(host)
  BY <1>1, <1>2
<1>4. Straight(Plan)
  BY <1>3, Ordered DEF Orderly, InOrder, Plan
<1>5. job.at \in Nat \ {0}
  BY <1>1, <1>4 DEF Going, Straight
<1> QED
  BY <1>1, <1>2, <1>3, <1>4, <1>5

\* The one path of a step that makes a file.
LEMMA OnePath ==
  ASSUME Typed, Busy, Step.do \in Makes
  PROVE  /\ Step = Plan[job.at] /\ Step.at = {Path}
         /\ Touches(Plan, job.at, Path) /\ Path \in Paths(host)
<1>1. /\ job # Idle /\ job.at <= Len(Plan) /\ Step = Plan[job.at]
  BY DEF Busy, Step, Plan
<1>2. job.at \in DOMAIN Plan /\ job.name \in ScriptsOf(host)
  BY <1>1, UnderWay DEF Straight
<1>3. Step.at # {} /\ \A p, q \in Step.at : p = q
  BY <1>1, <1>2, UnderWay DEF Straight, NonEmpty
<1>4. Path \in Step.at
  BY <1>3 DEF Path
<1>5. Step.at = {Path}
  BY <1>3, <1>4
<1>6. Touches(Plan, job.at, Path)
  BY <1>1, <1>2, <1>4 DEF Touches
<1>7. Path \in Paths(host)
  BY <1>1, <1>2, <1>4 DEF Paths, Plan
<1> QED
  BY <1>1, <1>5, <1>6, <1>7

\* What any step does, told by the order of the script under way.
On == job' = [job EXCEPT !.at = @ + 1]
Still == UNCHANGED <<host, ran>>

Pass ==
  /\ On /\ Still /\ files' = files /\ job.at \in DOMAIN Plan
  /\ \A p : Touches(Plan, job.at, p) =>
       Plan[job.at].do = "once" /\ files[p] \notin {Nothing, Torn(job.run)}
  /\ \A p : Checks(Plan, job.at, p) => files[p] = Nothing
  /\ Plan[job.at].do = "needs" => \A p \in Plan[job.at].at : IsWhole(p)
  /\ \/ effects' = effects
     \/ /\ Plan[job.at].do \in EffectNames
        /\ \A p \in Plan[job.at].at : IsWhole(p)
        /\ Done(Plan[job.at].do, job.run, Plan[job.at].at)

Tear(p) ==
  /\ Touches(Plan, job.at, p) /\ job' = job /\ Still
  /\ files' = [files EXCEPT ![p] = Torn(job.run)] /\ effects' = effects
  /\ Plan[job.at].do \notin {"claim", "replace"}
  /\ Plan[job.at].do = "write" \/ files[p] = Nothing

Complete(p) ==
  /\ Touches(Plan, job.at, p) /\ On /\ Still
  /\ files' = [files EXCEPT ![p] = Whole(job.run)] /\ effects' = effects
  /\ Plan[job.at].do = "claim" => files[p] = Nothing
  /\ Plan[job.at].do \notin {"claim", "replace"} => files[p] = Torn(job.run)

Stop ==
  /\ job' = Idle /\ Still /\ files' = files /\ effects' = effects

Discard(p) ==
  /\ Touches(Plan, job.at, p) /\ job' = Idle /\ Still
  /\ files[p] = Torn(job.run)
  /\ files' = [files EXCEPT ![p] = Nothing] /\ effects' = effects

Drive == Pass \/ (\E p \in Paths(host) : Tear(p) \/ Complete(p) \/ Discard(p))

\* A script's own steps are these, the first step and the steps outside it
\* apart.
LEMMA Driving ==
  ASSUME Typed,
         Check \/ MakeClaim \/ BeginFile \/ FillFile \/ ReplaceFile \/ Act
           \/ Fail \/ Crash \/ Finish
  PROVE  job # Idle /\ (Drive \/ Stop)
<1>0. job # Idle
  BY DEF Check, MakeClaim, BeginFile, FillFile, ReplaceFile, Act, Fail,
         Crash, Finish, Doing, Busy
<1>1. ASSUME Busy
      PROVE  Step = Plan[job.at] /\ job.at \in DOMAIN Plan
  BY <1>1, UnderWay DEF Busy, Step, Plan, Straight
<1>2. CASE Check
  <2>1. Busy /\ Step.do \in {"absent", "needs"}
    BY <1>2 DEF Check, Doing
  <2>2. CASE ~ChecksOut
    BY <1>0, <1>2, <2>2 DEF Check, Stop, Still
  <2>3. CASE ChecksOut
    <3>1. ASSUME NEW p, Checks(Plan, job.at, p)
          PROVE  files[p] = Nothing
      <4>1. Step.do = "absent" /\ p \in Step.at
        BY <1>1, <2>1, <3>1 DEF Checks
      <4> QED
        BY <2>3, <4>1, Zenon DEF ChecksOut
    <3>2. \A p : ~Touches(Plan, job.at, p)
      BY <1>1, <2>1 DEF Touches, Makes
    <3>m. Step.do = "needs" => \A p \in Step.at : IsWhole(p)
      BY <2>1, <2>3, Zenon DEF ChecksOut
    <3>3. Pass
      BY <1>1, <1>2, <2>1, <2>3, <3>m, <3>1, <3>2
      DEF Check, Pass, On, Still, Advance
    <3> QED
      BY <1>0, <3>3 DEF Drive
  <2> QED
    BY <2>2, <2>3
<1>3. CASE MakeClaim
  <2>1. Busy /\ Step.do = "claim" /\ Step.do \in Makes
    BY <1>3 DEF MakeClaim, Doing, Makes
  <2>2. CASE files[Path] # Nothing
    BY <1>0, <1>3, <2>2 DEF MakeClaim, Stop, Still
  <2>3. CASE files[Path] = Nothing
    <3>1. Complete(Path)
      BY <1>3, <2>1, <2>3, OnePath
      DEF MakeClaim, Complete, On, Still, Advance, Put
    <3> QED
      BY <1>0, <2>1, <3>1, OnePath DEF Drive
  <2> QED
    BY <2>2, <2>3
<1>4. CASE BeginFile
  <2>1. /\ Busy /\ Step.do \in {"write", "once", "exclusive", "retain"}
        /\ Step.do \in Makes
    BY <1>4 DEF BeginFile, Doing, Makes
  <2>2. CASE Step.do = "write" \/ files[Path] = Nothing
    <3>1. Tear(Path)
      BY <1>4, <2>1, <2>2, OnePath DEF BeginFile, Tear, Still, Put
    <3> QED
      BY <1>0, <2>1, <3>1, OnePath DEF Drive
  <2>3. CASE ~(Step.do = "write" \/ files[Path] = Nothing) /\ Step.do = "once"
    <3>1. /\ Path \in Step.at /\ files[Path] \notin {Nothing, Torn(job.run)}
      BY <1>4, <2>1, <2>3, OnePath DEF BeginFile, Begun
    <3>2. \A p : Touches(Plan, job.at, p) => p = Path
      BY <1>1, <2>1, OnePath DEF Touches
    <3>3. Pass
      BY <1>1, <1>4, <2>1, <2>3, <3>1, <3>2
      DEF BeginFile, Pass, Checks, On, Still, Advance
    <3> QED
      BY <1>0, <3>3 DEF Drive
  <2>4. CASE ~(Step.do = "write" \/ files[Path] = Nothing) /\ Step.do # "once"
    BY <1>0, <1>4, <2>4 DEF BeginFile, Stop, Still
  <2> QED
    BY <2>2, <2>3, <2>4
<1>5. CASE FillFile
  <2>1. /\ Busy /\ Step.do \in {"write", "once", "exclusive", "retain"}
        /\ Step.do \in Makes
    BY <1>5 DEF FillFile, Doing, Makes
  <2>2. Complete(Path)
    BY <1>5, <2>1, OnePath
    DEF FillFile, Complete, On, Still, Advance, Put, Begun
  <2> QED
    BY <1>0, <2>1, <2>2, OnePath DEF Drive
<1>6. CASE ReplaceFile
  <2>1. Busy /\ Step.do = "replace" /\ Step.do \in Makes
    BY <1>6 DEF ReplaceFile, Doing, Makes
  <2>2. Complete(Path)
    BY <1>6, <2>1, OnePath
    DEF ReplaceFile, Complete, On, Still, Advance, Put
  <2> QED
    BY <1>0, <2>1, <2>2, OnePath DEF Drive
<1>7. CASE Act
  <2>1. Busy /\ Step.do \in EffectNames
    BY <1>7 DEF Act, Doing
  <2>2. \A p : ~Touches(Plan, job.at, p) /\ ~Checks(Plan, job.at, p)
    BY <1>1, <2>1 DEF Touches, Checks, Makes, EffectNames
  <2>m. Step.do # "needs"
    BY <2>1 DEF EffectNames
  <2>3. Pass
    BY <1>1, <1>7, <2>1, <2>m, <2>2 DEF Act, Pass, On, Still, Advance
  <2> QED
    BY <1>0, <2>3 DEF Drive
<1>8. CASE Fail
  <2>1. CASE Step.do = "retain" /\ Begun
    <3>1. Busy /\ Step.do \in Makes
      BY <1>8, <2>1 DEF Fail, Makes
    <3>2. Discard(Path)
      BY <1>8, <2>1, <3>1, OnePath
      DEF Fail, AfterFailure, Discard, Still, Begun
    <3> QED
      BY <1>0, <3>1, <3>2, OnePath DEF Drive
  <2>2. CASE ~(Step.do = "retain" /\ Begun)
    BY <1>0, <1>8, <2>2 DEF Fail, AfterFailure, Stop, Still
  <2> QED
    BY <2>1, <2>2
<1>9. CASE Crash \/ Finish
  BY <1>0, <1>9 DEF Crash, Finish, Stop, Still
<1> QED
  BY <1>2, <1>3, <1>4, <1>5, <1>6, <1>7, <1>8, <1>9

(******************************** the types ********************************)

LEMMA Retirement ==
  ASSUME Typed, NEW p \in {"grant", "grant.enrollment"}, Retire(p)
  PROVE  /\ host = "action" /\ job = Idle /\ files[p] # Nothing
         /\ files' = [files EXCEPT ![p] = Nothing]
         /\ UNCHANGED <<host, job, ran, effects>>
  BY DEF Retire, Put

LEMMA TypesStep ==
  ASSUME Typed, [Next]_vars
  PROVE  Typed'
<1> USE HostScriptsAssumption
<1>t. /\ host \in Hosts /\ ran \in Seq(ScriptsOf(host))
      /\ Len(ran) \in Nat /\ Len(ran) <= MaxRuns[host] /\ MaxRuns[host] \in Nat
      /\ files \in [Paths(host) -> FileStates(Len(ran))]
      /\ job = Idle \/ Going
      /\ \A e \in effects : e.run \in 1..Len(ran)
  BY DEF Typed
<1>s. ASSUME UNCHANGED <<host, ran>>
      PROVE  /\ host' \in Hosts /\ ran' \in Seq(ScriptsOf(host'))
             /\ Len(ran') <= MaxRuns[host']
             /\ (\A e \in effects' : e.run \in 1..Len(ran)) =>
                  \A e \in effects' : e.run \in 1..Len(ran')
             /\ files' \in [Paths(host) -> FileStates(Len(ran))] =>
                  files' \in [Paths(host') -> FileStates(Len(ran'))]
  BY <1>s, <1>t
<1>f. ASSUME NEW p, NEW f \in FileStates(Len(ran)),
             files' = [files EXCEPT ![p] = f]
      PROVE  files' \in [Paths(host) -> FileStates(Len(ran))]
  BY <1>f, <1>t
<1>1. ASSUME NEW name \in ScriptsOf(host), Start(name)
      PROVE  Typed'
  <2>1. /\ ran' = Append(ran, name) /\ host' = host /\ files' = files
        /\ effects' = effects /\ Len(ran) < MaxRuns[host]
        /\ job' = [name |-> name, run |-> Len(ran) + 1, at |-> 1]
    BY <1>1 DEF Start
  <2>2. /\ ran' \in Seq(ScriptsOf(host)) /\ Len(ran') = Len(ran) + 1
        /\ ran'[Len(ran) + 1] = name
    BY <1>t, <2>1
  <2>3. Going'
    <3>1. job'.name = name /\ job'.run = Len(ran) + 1 /\ job'.at = 1
      BY <2>1
    <3>2. Len(Script(name)) \in Nat
      BY Ordered DEF Orderly, InOrder, Straight
    <3> QED
      BY <1>t, <2>1, <2>2, <3>1, <3>2 DEF Going, Plan
  <2>4. files' \in [Paths(host') -> FileStates(Len(ran'))]
    <3>1. FileStates(Len(ran)) \subseteq FileStates(Len(ran'))
      BY <1>t, <2>2 DEF FileStates
    <3> QED
      BY <1>t, <2>1, <3>1
  <2>5. \A e \in effects' : e.run \in 1..Len(ran')
    BY <1>t, <2>1, <2>2
  <2> QED
    BY <1>t, <2>1, <2>2, <2>3, <2>4, <2>5 DEF Typed
<1>2. CASE Check \/ MakeClaim \/ BeginFile \/ FillFile \/ ReplaceFile \/ Act
             \/ Fail \/ Crash \/ Finish
  <2>1. job # Idle /\ (Drive \/ Stop)
    BY <1>2, Driving
  <2>2. /\ Going /\ Straight(Plan) /\ job.run = Len(ran) /\ job.run >= 1
        /\ job.name = ran[Len(ran)]
    BY <2>1, UnderWay
  <2>3. ASSUME On, Still, job.at \in DOMAIN Plan
        PROVE  Going'
    <3>1. /\ job'.name = job.name /\ job'.run = job.run
          /\ job' = [name |-> job.name, run |-> job.run, at |-> job.at + 1]
      BY <2>2, <2>3 DEF On, Going
    <3>2. Plan' = Plan /\ ran' = ran /\ job'.at = job.at + 1
      BY <2>3, <3>1 DEF Plan, Still
    <3>3. job.at + 1 \in 1..(Len(Plan) + 1)
      BY <2>2, <2>3 DEF Straight
    <3> QED
      BY <2>2, <3>1, <3>2, <3>3 DEF Going
  <2>4. ASSUME Still, job' = job
        PROVE  Going'
    BY <2>2, <2>4 DEF Going, Still, Plan
  <2>5. /\ Torn(job.run) \in FileStates(Len(ran))
        /\ Whole(job.run) \in FileStates(Len(ran))
        /\ Nothing \in FileStates(Len(ran))
    BY <1>t, <2>2 DEF FileStates
  <2>6. CASE Stop
    BY <1>s, <1>t, <2>6 DEF Stop, Still, Typed
  <2>7. CASE Pass
    <3>1. \A e \in effects' : e.run \in 1..Len(ran)
      BY <1>t, <2>2, <2>7 DEF Pass, Done
    <3> QED
      BY <1>s, <1>t, <2>3, <2>7, <3>1 DEF Pass, Still, Typed
  <2>8. ASSUME NEW p \in Paths(host), Tear(p)
        PROVE  Typed'
    BY <1>s, <1>f, <1>t, <2>4, <2>5, <2>8 DEF Tear, Still, Typed
  <2>9. ASSUME NEW p \in Paths(host), Complete(p)
        PROVE  Typed'
    BY <1>s, <1>f, <1>t, <2>3, <2>5, <2>9 DEF Complete, Touches, Still, Typed
  <2>10. ASSUME NEW p \in Paths(host), Discard(p)
         PROVE  Typed'
    BY <1>s, <1>f, <1>t, <2>5, <2>10 DEF Discard, Still, Typed
  <2> QED
    BY <2>1, <2>6, <2>7, <2>8, <2>9, <2>10 DEF Drive
<1>3. ASSUME NEW p \in {"grant", "grant.enrollment"}, Retire(p)
      PROVE  Typed'
  <2>1. /\ files' = [files EXCEPT ![p] = Nothing]
        /\ UNCHANGED <<host, job, ran, effects>>
    BY <1>3, Retirement
  <2>2. files' \in [Paths(host) -> FileStates(Len(ran))]
    BY <1>f, <2>1 DEF FileStates
  <2>3. job' = Idle \/ Going'
    BY <1>t, <2>1 DEF Going, Plan
  <2> QED
    BY <1>s, <1>t, <2>1, <2>2, <2>3 DEF Typed
<1>4. CASE UseGrant
  <2>1. /\ files["grant"].state = "whole" /\ host = "action"
        /\ UNCHANGED <<host, files, job, ran>>
        /\ \A e \in effects' : e \in effects \/ e.run = files["grant"].run
    BY <1>4 DEF UseGrant, Done, IsWhole
  <2>2. "grant" \in Paths(host)
    BY <2>1, ActionPaths
  <2>3. files["grant"].run \in 1..Len(ran)
    BY <1>t, <2>1, <2>2 DEF FileStates, Nothing, Torn, Whole
  <2>4. job' = Idle \/ Going'
    BY <1>t, <2>1 DEF Going, Plan
  <2> QED
    BY <1>s, <1>t, <2>1, <2>3, <2>4 DEF Typed
<1>5. CASE UNCHANGED vars
  BY <1>5 DEF Typed, Going, Plan, vars
<1> QED
  BY <1>1, <1>2, <1>3, <1>4, <1>5 DEF Next

(***************************** how far a run is ****************************)

\* What the run under way has made is there and its own.
Built ==
  job # Idle =>
    \A p \in Paths(host), i \in 1..(job.at - 1) :
      Surely(Plan, i, p) => files[p] = Whole(job.run)

\* What it looked for is still missing, or it made it itself.
Cleared ==
  job # Idle =>
    \A p \in Paths(host), i \in 1..(job.at - 1) :
      Checks(Plan, i, p) =>
        files[p] \in {Nothing, Torn(job.run), Whole(job.run)}

\* What bears its stamp it has made, or is making.
Own ==
  job # Idle =>
    \A p \in Paths(host) :
      files[p] \in {Torn(job.run), Whole(job.run)} =>
        \E k \in 1..job.at :
          /\ Touches(Plan, k, p)
          /\ k = job.at => files[p] = Torn(job.run)

Progress == Built /\ Cleared /\ Own

LEMMA PathsOfPlan ==
  ASSUME Typed, job # Idle, NEW i \in DOMAIN Plan, NEW p \in Plan[i].at
  PROVE  p \in Paths(host)
  BY UnderWay DEF Paths, Plan

LEMMA ProgressStep ==
  ASSUME Typed, Progress, [Next]_vars
  PROVE  Progress'
<1>t. files \in [Paths(host) -> FileStates(Len(ran))] /\ Len(ran) \in Nat
  BY DEF Typed
<1>1. ASSUME NEW name \in ScriptsOf(host), Start(name)
      PROVE  Progress'
  <2>1. /\ job'.at = 1 /\ job'.run = Len(ran) + 1
        /\ files' = files /\ host' = host
    BY <1>1 DEF Start
  <2>2. ASSUME NEW p \in Paths(host)
        PROVE  files[p] \notin {Torn(Len(ran) + 1), Whole(Len(ran) + 1)}
    <3>1. files[p] \in FileStates(Len(ran))
      BY <1>t
    <3> QED
      BY <1>t, <3>1 DEF FileStates, Torn, Whole, Nothing
  <2>3. Own'
    BY <2>1, <2>2 DEF Own
  <2>4. Built' /\ Cleared'
    BY <2>1 DEF Built, Cleared
  <2> QED
    BY <2>3, <2>4 DEF Progress
<1>2. CASE Check \/ MakeClaim \/ BeginFile \/ FillFile \/ ReplaceFile \/ Act
             \/ Fail \/ Crash \/ Finish
  <2>1. job # Idle /\ (Drive \/ Stop)
    BY <1>2, Driving
  <2>2. /\ Straight(Plan) /\ job.at \in Nat \ {0} /\ job.run \in Nat \ {0}
        /\ job = [name |-> job.name, run |-> job.run, at |-> job.at]
    BY <2>1, UnderWay DEF Going
  <2>3. ASSUME On
        PROVE  job'.at = job.at + 1 /\ job'.run = job.run /\ Plan' = Plan
    BY <2>2, <2>3 DEF On, Plan
  <2>4. CASE job' = Idle
    BY <2>4 DEF Progress, Built, Cleared, Own
  <2>5. CASE Pass
    <3>1. /\ files' = files /\ host' = host /\ On /\ job.at \in DOMAIN Plan
          /\ job'.at = job.at + 1 /\ job'.run = job.run /\ Plan' = Plan
      BY <2>3, <2>5 DEF Pass, Still
    <3>2. ASSUME NEW p \in Paths(host), Checks(Plan, job.at, p)
          PROVE  files[p] = Nothing
      BY <2>5, <3>2 DEF Pass
    <3>3. Cleared'
      <4>1. \A i \in 1..(job'.at - 1) : i \in 1..(job.at - 1) \/ i = job.at
        BY <2>2, <3>1
      <4> QED
        BY <2>1, <3>1, <3>2, <4>1 DEF Progress, Cleared
    <3>4. ASSUME NEW p \in Paths(host), Touches(Plan, job.at, p)
          PROVE  /\ ~Surely(Plan, job.at, p)
                 /\ files[p] # Torn(job.run)
      <4>1. /\ Plan[job.at].do = "once"
            /\ files[p] \notin {Nothing, Torn(job.run)}
        BY <2>5, <3>4 DEF Pass
      <4>2. ASSUME NEW j \in 1..(job.at - 1), Checks(Plan, j, p)
            PROVE  FALSE
        <5>1. files[p] = Whole(job.run)
          BY <2>1, <4>1, <4>2 DEF Progress, Cleared
        <5>2. PICK k \in 1..job.at : /\ Touches(Plan, k, p)
                                     /\ k = job.at => files[p] = Torn(job.run)
          BY <2>1, <5>1 DEF Progress, Own
        <5>3. k = job.at
          BY <2>2, <3>4, <5>2 DEF Straight
        <5> QED
          BY <4>1, <5>2, <5>3
      <4> QED
        BY <4>1, <4>2 DEF Surely
    <3>5. Built'
      <4>1. \A i \in 1..(job'.at - 1) : i \in 1..(job.at - 1) \/ i = job.at
        BY <2>2, <3>1
      <4>2. \A p \in Paths(host) : ~Surely(Plan, job.at, p)
        BY <3>4 DEF Surely
      <4> QED
        BY <2>1, <3>1, <4>1, <4>2 DEF Progress, Built
    <3>6. Own'
      <4>1. SUFFICES ASSUME NEW p \in Paths(host),
                            files[p] \in {Torn(job.run), Whole(job.run)}
                     PROVE  \E k \in 1..(job.at + 1) :
                              /\ Touches(Plan, k, p)
                              /\ k = job.at + 1 => files[p] = Torn(job.run)
        BY <3>1 DEF Own
      <4>2. PICK k \in 1..job.at : /\ Touches(Plan, k, p)
                                   /\ k = job.at => files[p] = Torn(job.run)
        BY <2>1, <4>1 DEF Progress, Own
      <4>3. k \in 1..(job.at + 1) /\ k # job.at + 1
        BY <2>2, <4>2
      <4> QED
        BY <4>2, <4>3
    <3> QED
      BY <3>3, <3>5, <3>6 DEF Progress
  <2>6. ASSUME NEW q \in Paths(host), Tear(q)
        PROVE  Progress'
    <3>1. /\ job' = job /\ host' = host /\ Plan' = Plan
          /\ Touches(Plan, job.at, q)
          /\ files' = [files EXCEPT ![q] = Torn(job.run)]
      BY <2>6 DEF Tear, Still, Plan
    <3>2. /\ files'[q] = Torn(job.run)
          /\ \A p \in Paths(host) : p # q => files'[p] = files[p]
      BY <1>t, <3>1
    <3>3. \A i \in 1..(job.at - 1) : \A p : Surely(Plan, i, p) => p # q
      BY <2>2, <3>1 DEF Surely, Straight
    <3>4. Built'
      BY <3>1, <3>2, <3>3 DEF Progress, Built
    <3>5. Cleared'
      BY <3>1, <3>2 DEF Progress, Cleared
    <3>6. Own'
      <4>1. job.at \in 1..job.at
        BY <2>2
      <4> QED
        BY <3>1, <3>2, <4>1 DEF Progress, Own
    <3> QED
      BY <3>4, <3>5, <3>6 DEF Progress
  <2>7. ASSUME NEW q \in Paths(host), Complete(q)
        PROVE  Progress'
    <3>1. /\ host' = host /\ Touches(Plan, job.at, q)
          /\ files' = [files EXCEPT ![q] = Whole(job.run)]
          /\ job'.at = job.at + 1 /\ job'.run = job.run /\ Plan' = Plan
      BY <2>3, <2>7 DEF Complete, Still
    <3>2. /\ files'[q] = Whole(job.run)
          /\ \A p \in Paths(host) : p # q => files'[p] = files[p]
      BY <1>t, <3>1
    <3>3. \A i \in 1..(job'.at - 1) : i \in 1..(job.at - 1) \/ i = job.at
      BY <2>2, <3>1
    <3>4. Built'
      <4>1. \A p : Surely(Plan, job.at, p) => p = q
        BY <2>2, <3>1 DEF Surely, Touches, Straight
      <4> QED
        BY <2>1, <3>1, <3>2, <3>3, <4>1 DEF Progress, Built
    <3>5. Cleared'
      <4>1. \A p : ~Checks(Plan, job.at, p)
        BY <3>1 DEF Checks, Touches, Makes
      <4> QED
        BY <2>1, <3>1, <3>2, <3>3, <4>1 DEF Progress, Cleared
    <3>6. Own'
      <4>1. SUFFICES ASSUME NEW p \in Paths(host),
                            files'[p] \in {Torn(job.run), Whole(job.run)}
                     PROVE  \E k \in 1..(job.at + 1) :
                              /\ Touches(Plan, k, p)
                              /\ k = job.at + 1 => files'[p] = Torn(job.run)
        BY <3>1 DEF Own
      <4>2. CASE p = q
        BY <2>2, <3>1, <4>2
      <4>3. CASE p # q
        <5>1. PICK k \in 1..job.at : Touches(Plan, k, p)
          BY <2>1, <3>2, <4>1, <4>3 DEF Progress, Own
        <5> QED
          BY <2>2, <5>1
      <4> QED
        BY <4>2, <4>3
    <3> QED
      BY <3>4, <3>5, <3>6 DEF Progress
  <2> QED
    BY <2>1, <2>4, <2>5, <2>6, <2>7 DEF Drive, Stop, Discard
<1>3. ASSUME NEW p \in {"grant", "grant.enrollment"}, Retire(p)
      PROVE  Progress'
  BY <1>3, Retirement DEF Progress, Built, Cleared, Own
<1>4. CASE UseGrant \/ UNCHANGED vars
  <2>1. host' = host /\ job' = job /\ files' = files /\ Plan' = Plan
    BY <1>4 DEF UseGrant, vars, Plan
  <2> QED
    BY <2>1 DEF Progress, Built, Cleared, Own
<1> QED
  BY <1>1, <1>2, <1>3, <1>4 DEF Next

(******************************** the effects ******************************)

\* Files are followed through any step by these four ways to change them.
LEMMA FilesStep ==
  ASSUME Typed, [Next]_vars, NEW p \in Paths(host), files'[p] # files[p]
  PROVE  \/ /\ job # Idle /\ job.at \in DOMAIN Plan
            /\ Tear(p) \/ Complete(p) \/ Discard(p)
         \/ /\ host = "action" /\ p \in {"grant", "grant.enrollment"}
            /\ Retire(p) /\ files'[p] = Nothing
<1>t. files \in [Paths(host) -> FileStates(Len(ran))]
  BY DEF Typed
<1>1. CASE \E name \in ScriptsOf(host) : Start(name)
  BY <1>1 DEF Start
<1>2. CASE Check \/ MakeClaim \/ BeginFile \/ FillFile \/ ReplaceFile \/ Act
             \/ Fail \/ Crash \/ Finish
  <2>1. job # Idle /\ (Drive \/ Stop)
    BY <1>2, Driving
  <2>2. PICK q \in Paths(host) : Tear(q) \/ Complete(q) \/ Discard(q)
    BY <2>1 DEF Drive, Stop, Pass
  <2>3. p = q /\ job.at \in DOMAIN Plan
    BY <1>t, <2>2 DEF Tear, Complete, Discard, Touches
  <2> QED
    BY <2>1, <2>2, <2>3
<1>3. ASSUME NEW q \in {"grant", "grant.enrollment"}, Retire(q)
      PROVE  /\ host = "action" /\ p = q /\ Retire(p)
             /\ files'[p] = Nothing
  BY <1>t, <1>3, Retirement
<1>4. CASE UseGrant \/ UNCHANGED vars
  BY <1>4 DEF UseGrant, vars
<1> QED
  BY <1>1, <1>2, <1>3, <1>4 DEF Next

\* The gate of an effect that must not come twice is its run's for good.
GateKept ==
  \A e \in effects :
    e.by \in Single => /\ Gate(host) \in Paths(host)
                       /\ files[Gate(host)] = Whole(e.run)

\* An effect of the run under way came from a step that is behind.
EffectBehind ==
  job # Idle =>
    \A e \in effects :
      e.by \in Single /\ e.run = job.run =>
        \E i \in 1..(job.at - 1) : i \in DOMAIN Plan /\ Plan[i].do = e.by

\* A grant goes with the journal that its own run claimed.
GrantJournalled ==
  host = "action" /\ files["grant"] # Nothing =>
    files[Journal(ran[files["grant"].run])] = Whole(files["grant"].run)

EffectInv ==
  GateKept /\ EffectBehind /\ GrantJournalled /\ EffectOnce
    /\ EffectsUseTheirOwnRun

LEMMA JournalNames ==
  \A n : /\ Journal(n) \in Journals /\ Journal(n) # "grant"
         /\ Journal(n) \in Paths("action")
  BY ActionPaths DEF Journal, Journals

LEMMA GateUntouched ==
  ASSUME Typed, GateKept, [Next]_vars, NEW e \in effects, e.by \in Single
  PROVE  files'[Gate(host)] = files[Gate(host)]
<1>1. Gate(host) \in Paths(host) /\ files[Gate(host)] = Whole(e.run)
  BY DEF GateKept
<1>2. files[Gate(host)] # Nothing /\ files[Gate(host)] # Torn(job.run)
  BY <1>1 DEF Nothing, Torn, Whole
<1>3. host = "action" => Gate(host) \notin {"grant", "grant.enrollment"}
  BY Zenon DEF Gate
<1>4. ASSUME job # Idle, Touches(Plan, job.at, Gate(host))
      PROVE  Plan[job.at].do = "claim"
  BY <1>4, UnderWay, Ordered DEF Orderly, InOrder, Gated, Claims, Plan
<1>5. ~(job # Idle /\ (Tear(Gate(host)) \/ Complete(Gate(host))
                         \/ Discard(Gate(host))))
  BY <1>2, <1>4 DEF Tear, Complete, Discard
<1> QED
  BY <1>1, <1>3, <1>5, FilesStep

\* What was started stays on record.
LEMMA RanKept ==
  ASSUME Typed, [Next]_vars, NEW r \in 1..Len(ran)
  PROVE  ran'[r] = ran[r]
<1>1. Drive \/ Stop => ran' = ran
  BY DEF Drive, Stop, Pass, Tear, Complete, Discard, Still
<1>2. ASSUME NEW name, Start(name)
      PROVE  ran'[r] = ran[r]
  BY <1>2 DEF Start, Typed
<1> QED
  BY <1>1, <1>2, Driving, Retirement DEF Next, UseGrant, vars

\* A script makes what its steps touch.
LEMMA MadeTouched ==
  ASSUME NEW n
  PROVE  \A p : p \in MadeBy(n) <=> \E k : Touches(Script(n), k, p)
  BY DEF MadeBy, Touches

LEMMA JournalStep ==
  ASSUME Typed, Progress, GrantJournalled, [Next]_vars
  PROVE  GrantJournalled'
<1>t. /\ files \in [Paths(host) -> FileStates(Len(ran))]
      /\ ran \in Seq(ScriptsOf(host)) /\ Len(ran) \in Nat
  BY DEF Typed
<1>h. host' = host
  <2>1. Drive \/ Stop => host' = host
    BY DEF Drive, Stop, Pass, Tear, Complete, Discard, Still
  <2> QED
    BY <2>1, Driving, Retirement DEF Next, Start, UseGrant, vars
<1> SUFFICES ASSUME host = "action", files'["grant"] # Nothing
             PROVE  files'[Journal(ran'[files'["grant"].run])]
                      = Whole(files'["grant"].run)
  BY <1>h DEF GrantJournalled
<1>p. "grant" \in Paths(host)
  BY ActionPaths
<1>r. \A r \in 1..Len(ran) : ran'[r] = ran[r]
  BY RanKept
<1>1. CASE files'["grant"] # files["grant"]
  <2>1. /\ job # Idle /\ job.at \in DOMAIN Plan
        /\ Tear("grant") \/ Complete("grant")
    <3>1. ~Discard("grant")
      BY <1>p, <1>t DEF Discard
    <3> QED
      BY <1>1, <1>p, <3>1, FilesStep
  <2>2. /\ Touches(Plan, job.at, "grant")
        /\ files'["grant"] \in {Torn(job.run), Whole(job.run)}
        /\ \A q \in Paths(host) : q # "grant" => files'[q] = files[q]
    BY <1>p, <1>t, <2>1 DEF Tear, Complete
  <2>3. /\ job.name \in ScriptsOf(host) /\ job.run \in 1..Len(ran)
        /\ job.name = ran[job.run]
    BY <1>t, <2>1, UnderWay
  <2>4. PICK k \in 1..(job.at - 1) : Claims(Plan, k, Journal(job.name))
    BY <2>2, <2>3, Ordered DEF Orderly, InOrder, Journalled, Plan
  <2>5. Surely(Plan, k, Journal(job.name))
    BY <2>4 DEF Claims, Surely, Touches, Makes
  <2>6. files[Journal(job.name)] = Whole(job.run)
    BY <2>1, <2>5, JournalNames DEF Progress, Built
  <2>7. files'["grant"].run = job.run
    BY <2>2 DEF Torn, Whole
  <2> QED
    BY <1>r, <2>2, <2>3, <2>6, <2>7, JournalNames
<1>2. CASE files'["grant"] = files["grant"]
  <2> DEFINE r == files["grant"].run
             j == Journal(ran[r])
  <2>1. files["grant"] # Nothing /\ files[j] = Whole(r)
    BY <1>2 DEF GrantJournalled
  <2>2. r \in 1..Len(ran)
    <3>1. files["grant"] \in FileStates(Len(ran))
      BY <1>p, <1>t
    <3> QED
      BY <2>1, <3>1 DEF FileStates, Torn, Whole
  <2>3. files[j] # Nothing /\ files[j] # Torn(job.run)
    BY <2>1 DEF Nothing, Torn, Whole
  <2>4. j \in Journals /\ j \in Paths(host)
    BY JournalNames
  <2>5. ASSUME job # Idle, Touches(Plan, job.at, j)
        PROVE  Plan[job.at].do = "claim"
    BY <2>4, <2>5, UnderWay, Ordered
    DEF Orderly, InOrder, Journalled, Claims, Plan
  <2>6. ~(job # Idle /\ (Tear(j) \/ Complete(j) \/ Discard(j)))
    BY <2>3, <2>5 DEF Tear, Complete, Discard
  <2>7. j \notin {"grant", "grant.enrollment"}
    BY <2>4 DEF Journals
  <2>8. files'[j] = files[j]
    BY <2>4, <2>6, <2>7, FilesStep
  <2> QED
    BY <1>2, <1>r, <2>1, <2>2, <2>8
<1> QED
  BY <1>1, <1>2

\* The resolver's use reads what one run wrote.
LEMMA UseOfOneRun ==
  ASSUME Typed, GrantJournalled, UseGrant
  PROVE  \E e : /\ effects' = effects \cup {e} /\ e.by = "use"
                /\ \A p \in DOMAIN e.read : e.read[p] = e.run
<1> DEFINE r == files["grant"].run
           S == {"grant", "grant.enrollment", Journal(ran[r])}
           e == [by |-> "use", run |-> r, read |-> [p \in S |-> files[p].run]]
<1>1. /\ host = "action" /\ files["grant"].state = "whole"
      /\ files["grant"].run = files["grant.enrollment"].run
      /\ effects' = effects \cup {e}
  BY DEF UseGrant, IsWhole, Done
<1>2. files[Journal(ran[r])].run = r
  BY <1>1 DEF GrantJournalled, Nothing, Whole
<1>3. \A p \in S : files[p].run = r
  BY <1>1, <1>2
<1>4. e.by = "use" /\ \A p \in DOMAIN e.read : e.read[p] = e.run
  BY <1>3
<1> QED
  BY <1>1, <1>4

\* A step of the script under way that acts.
LEMMA ActOfThisRun ==
  ASSUME Typed, Progress, EffectInv, job # Idle, Pass, effects' # effects
  PROVE  \E e : /\ effects' = effects \cup {e} /\ e.run = job.run
                /\ e.by = Plan[job.at].do /\ DOMAIN e.read = Plan[job.at].at
                /\ \A p \in DOMAIN e.read : e.read[p] = files[p].run
                /\ \A p \in DOMAIN e.read \ Handed(e) : e.read[p] = e.run
                /\ e.by \in Single =>
                     /\ Gate(host) \in Paths(host)
                     /\ files[Gate(host)] = Whole(job.run)
                     /\ \A f \in effects : f.by # e.by
<1> DEFINE d == Plan[job.at].do
           S == Plan[job.at].at
           e == [by |-> d, run |-> job.run,
                 read |-> [p \in S |-> files[p].run]]
<1>1. /\ effects' = effects \cup {e} /\ job.at \in DOMAIN Plan
      /\ d \in EffectNames
  BY DEF Pass, Done
<1>2. /\ Fed(host, Plan) /\ Gated(host, Plan) /\ Straight(Plan)
      /\ job.at \in Nat \ {0}
  BY UnderWay, Ordered DEF Orderly, InOrder, Plan
<1>3. ASSUME NEW k \in 1..(job.at - 1), NEW p, Surely(Plan, k, p)
      PROVE  p \in Paths(host) /\ files[p] = Whole(job.run)
  <2>1. p \in Paths(host)
    BY <1>3, PathsOfPlan DEF Surely, Touches
  <2> QED
    BY <1>3, <2>1 DEF Progress, Built
<1>4. ASSUME NEW p \in S, p \in MadeBy(job.name)
      PROVE  files[p].run = job.run
  <2>1. PICK k : Touches(Plan, k, p)
    BY <1>4, MadeTouched DEF Plan
  <2>2. PICK i \in 1..(job.at - 1) : Surely(Plan, i, p)
    BY <1>1, <1>2, <2>1 DEF Fed
  <2> QED
    BY <1>3, <2>2 DEF Whole
<1>5. ASSUME d \in Single
      PROVE  /\ Gate(host) \in Paths(host)
             /\ files[Gate(host)] = Whole(job.run)
             /\ \A f \in effects : f.by # d
  <2>1. PICK k \in 1..(job.at - 1) : Claims(Plan, k, Gate(host))
    BY <1>1, <1>2, <1>5 DEF Gated
  <2>2. Surely(Plan, k, Gate(host))
    BY <2>1 DEF Claims, Surely, Touches, Makes
  <2>3. Gate(host) \in Paths(host) /\ files[Gate(host)] = Whole(job.run)
    BY <1>3, <2>2
  <2>4. ASSUME NEW f \in effects, f.by = d
        PROVE  FALSE
    <3>1. Whole(f.run) = Whole(job.run)
      BY <1>5, <2>3, <2>4 DEF EffectInv, GateKept
    <3>2. f.run = job.run
      BY <3>1 DEF Whole
    <3>3. PICK i \in 1..(job.at - 1) : i \in DOMAIN Plan /\ Plan[i].do = d
      BY <1>5, <2>4, <3>2 DEF EffectInv, EffectBehind
    <3>4. i = job.at
      BY <1>1, <1>2, <1>5, <3>3 DEF Gated
    <3> QED
      BY <1>2, <3>3, <3>4
  <2> QED
    BY <2>3, <2>4
<1>6. /\ e.run = job.run /\ e.by = d
      /\ DOMAIN e.read = S /\ \A p \in S : e.read[p] = files[p].run
  OBVIOUS
<1>7. Handed(e) = S \ MadeBy(job.name)
  <2>1. job.name = ran[job.run]
    BY UnderWay
  <2> QED
    BY <1>6, <2>1 DEF Handed
<1> HIDE DEF e
<1>8. \A p \in DOMAIN e.read \ Handed(e) : e.read[p] = e.run
  BY <1>4, <1>6, <1>7
<1> QED
  BY <1>1, <1>5, <1>6, <1>8

LEMMA EffectStep ==
  ASSUME Typed, Progress, EffectInv, [Next]_vars
  PROVE  EffectInv'
<1>g. \A f \in effects : f.by \in Single =>
        /\ Gate(host) \in Paths(host) /\ files[Gate(host)] = Whole(f.run)
        /\ files'[Gate(host)] = files[Gate(host)]
  BY GateUntouched DEF EffectInv, GateKept
<1>j. GrantJournalled'
  BY JournalStep DEF EffectInv
<1>h. \A f \in effects : Handed(f)' = Handed(f)
  BY RanKept DEF Handed, Typed
<1>s. ASSUME effects' = effects, host' = host, EffectBehind'
      PROVE  EffectInv'
  <2>1. EffectsUseTheirOwnRun'
    BY <1>h, <1>s DEF EffectInv, EffectsUseTheirOwnRun
  <2>2. GateKept' /\ EffectOnce'
    BY <1>g, <1>s DEF EffectInv, GateKept, EffectOnce
  <2> QED
    BY <1>j, <1>s, <2>1, <2>2 DEF EffectInv
<1>1. ASSUME NEW name \in ScriptsOf(host), Start(name)
      PROVE  EffectInv'
  <2>1. /\ effects' = effects /\ host' = host /\ job'.run = Len(ran) + 1
        /\ Len(ran) \in Nat /\ \A e \in effects : e.run \in 1..Len(ran)
    BY <1>1 DEF Start, Typed
  <2>2. EffectBehind'
    BY <2>1 DEF EffectBehind
  <2> QED
    BY <1>s, <2>1, <2>2
<1>2. CASE Check \/ MakeClaim \/ BeginFile \/ FillFile \/ ReplaceFile \/ Act
             \/ Fail \/ Crash \/ Finish
  <2>1. job # Idle /\ (Drive \/ Stop)
    BY <1>2, Driving
  <2>2. /\ job.at \in Nat \ {0}
        /\ job = [name |-> job.name, run |-> job.run, at |-> job.at]
    BY <2>1, UnderWay DEF Going
  <2>3. host' = host
    BY <2>1 DEF Drive, Stop, Pass, Tear, Complete, Discard, Still
  <2>4. ASSUME effects' = effects
        PROVE  EffectBehind'
    <3>1. CASE job' = Idle
      BY <3>1 DEF EffectBehind
    <3>2. CASE job' = job
      BY <2>4, <3>2 DEF EffectInv, EffectBehind, Plan
    <3>3. CASE On
      <4>1. job'.run = job.run /\ job'.at = job.at + 1 /\ Plan' = Plan
        BY <2>2, <3>3 DEF On, Plan
      <4>2. 1..(job.at - 1) \subseteq 1..(job.at + 1 - 1)
        BY <2>2
      <4> QED
        BY <2>1, <2>2, <2>4, <4>1, <4>2 DEF EffectInv, EffectBehind
    <3> QED
      BY <2>1, <3>1, <3>2, <3>3 DEF Drive, Stop, Pass, Tear, Complete, Discard
  <2>5. CASE effects' = effects
    BY <1>s, <2>3, <2>4, <2>5
  <2>6. CASE effects' # effects
    <3>1. Pass
      BY <2>1, <2>6 DEF Drive, Stop, Tear, Complete, Discard
    <3>2. PICK e : /\ effects' = effects \cup {e} /\ e.run = job.run
                   /\ e.by = Plan[job.at].do
                   /\ \A p \in DOMAIN e.read \ Handed(e) :
                        e.read[p] = e.run
                   /\ e.by \in Single =>
                        /\ Gate(host) \in Paths(host)
                        /\ files[Gate(host)] = Whole(job.run)
                        /\ \A f \in effects : f.by # e.by
      BY <2>1, <2>6, <3>1, ActOfThisRun
    <3>3. /\ job'.run = job.run /\ job'.at = job.at + 1 /\ Plan' = Plan
          /\ files' = files /\ job.at \in DOMAIN Plan
      BY <2>2, <3>1 DEF Pass, On, Plan
    <3>h. Handed(e)' = Handed(e)
      BY <3>1 DEF Handed, Pass, Still
    <3>4. EffectsUseTheirOwnRun'
      BY <1>h, <3>2, <3>h DEF EffectInv, EffectsUseTheirOwnRun
    <3>5. EffectOnce'
      BY <3>2 DEF EffectInv, EffectOnce, Single
    <3>6. GateKept'
      BY <1>g, <2>3, <3>2, <3>3 DEF GateKept
    <3>7. EffectBehind'
      <4>1. SUFFICES ASSUME NEW f \in effects', f.by \in Single,
                            f.run = job.run
                     PROVE  \E i \in 1..(job.at + 1 - 1) :
                              i \in DOMAIN Plan /\ Plan[i].do = f.by
        BY <2>2, <3>3 DEF EffectBehind
      <4>2. CASE f = e
        BY <2>2, <3>2, <3>3, <4>2
      <4>3. CASE f \in effects
        <5>1. PICK i \in 1..(job.at - 1) : /\ i \in DOMAIN Plan
                                           /\ Plan[i].do = f.by
          BY <2>1, <4>1, <4>3 DEF EffectInv, EffectBehind
        <5> QED
          BY <2>2, <5>1
      <4> QED
        BY <3>2, <4>2, <4>3
    <3> QED
      BY <1>j, <3>4, <3>5, <3>6, <3>7 DEF EffectInv
  <2> QED
    BY <2>5, <2>6
<1>3. ASSUME NEW p \in {"grant", "grant.enrollment"}, Retire(p)
      PROVE  EffectInv'
  <2>1. /\ effects' = effects /\ host' = host /\ job' = job /\ job = Idle
    BY <1>3, Retirement
  <2>2. EffectBehind'
    BY <2>1 DEF EffectBehind
  <2> QED
    BY <1>s, <2>1, <2>2
<1>4. CASE UseGrant
  <2>1. PICK e : /\ effects' = effects \cup {e} /\ e.by = "use"
                 /\ \A p \in DOMAIN e.read : e.read[p] = e.run
    BY <1>4, UseOfOneRun DEF EffectInv
  <2>2. host' = host /\ files' = files /\ job' = job /\ Plan' = Plan
    BY <1>4 DEF UseGrant, Plan
  <2>3. e.by \notin Single
    BY <2>1 DEF Single
  <2>4. EffectsUseTheirOwnRun'
    <3>1. \A p \in DOMAIN e.read \ Handed(e)' : e.read[p] = e.run
      BY <2>1
    <3> QED
      BY <1>h, <2>1, <3>1 DEF EffectInv, EffectsUseTheirOwnRun
  <2>5. EffectOnce'
    BY <2>1 DEF EffectInv, EffectOnce
  <2>6. GateKept' /\ EffectBehind'
    BY <2>1, <2>2, <2>3 DEF EffectInv, GateKept, EffectBehind
  <2> QED
    BY <1>j, <2>4, <2>5, <2>6 DEF EffectInv
<1>5. CASE UNCHANGED vars
  <2>1. /\ effects' = effects /\ host' = host /\ job' = job /\ Plan' = Plan
    BY <1>5 DEF vars, Plan
  <2> QED
    BY <1>s, <2>1 DEF EffectInv, EffectBehind
<1> QED
  BY <1>1, <1>2, <1>3, <1>4, <1>5 DEF Next

(********************************* the seals *******************************)

\* Whatever is on the host where a seal should be, even torn, has everything
\* it stands for beside it, of its own run.
SealInv ==
  \A c \in Seals(host) :
    files[c] # Nothing => \A p \in Group(c) : files[p] = Whole(files[c].run)

\* Once a seal is there its group is touched by nobody, and the seal only by
\* the run that is writing it.
LEMMA GroupUntouched ==
  ASSUME Typed, Progress, SealInv, job # Idle,
         NEW c \in Seals(host), files[c] # Nothing,
         NEW p \in Group(c) \cup {c}, Tear(p) \/ Complete(p) \/ Discard(p)
  PROVE  p = c /\ files[c] = Torn(job.run)
<1>1. /\ Straight(Plan) /\ Closes(Plan, c) /\ Barred(Plan, c)
      /\ job.at \in Nat \ {0} /\ Touches(Plan, job.at, p)
  BY UnderWay, Ordered DEF Orderly, InOrder, Plan, Tear, Complete, Discard
<1>2. /\ c \in Paths(host) /\ Group(c) \cup {c} \subseteq Paths(host)
      /\ files[c] \in FileStates(Len(ran))
      /\ \A q \in Group(c) : files[q] = Whole(files[c].run)
  BY SealedGroups DEF Sealed, Typed, SealInv
<1>3. files[c] \in {Torn(files[c].run), Whole(files[c].run)}
  BY <1>2 DEF FileStates, Torn, Whole
<1>4. ASSUME files[c].run = job.run
      PROVE  p = c /\ files[c] = Torn(job.run)
  <2>1. PICK k \in 1..job.at : /\ Touches(Plan, k, c)
                               /\ k = job.at => files[c] = Torn(job.run)
    BY <1>2, <1>3, <1>4 DEF Progress, Own
  <2>2. CASE p = c
    <3>1. k = job.at
      BY <1>1, <2>1, <2>2 DEF Straight
    <3> QED
      BY <2>1, <2>2, <3>1
  <2>3. CASE p # c
    <3>1. PICK i \in 1..(k - 1) : Surely(Plan, i, p)
      BY <1>1, <2>1, <2>3 DEF Closes
    <3>2. i = job.at
      BY <1>1, <3>1 DEF Surely, Straight
    <3> QED
      BY <1>1, <2>1, <3>1, <3>2
  <2> QED
    BY <2>2, <2>3
<1>5. CASE Plan[job.at].do \in {"claim", "exclusive", "retain"}
  <2>1. files[p] = Nothing \/ files[p] = Torn(job.run)
    BY <1>5 DEF Tear, Complete, Discard
  <2>2. p \in Group(c) => files[p] = Whole(files[c].run)
    BY <1>2
  <2>3. p \notin Group(c)
    BY <2>1, <2>2 DEF Nothing, Torn, Whole
  <2> QED
    BY <2>1, <2>3
<1>6. ASSUME NEW j \in 1..(job.at - 1), NEW q \in Group(c) \cup {c},
             Checks(Plan, j, q) \/ Surely(Plan, j, q)
      PROVE  p = c /\ files[c] = Torn(job.run)
  <2>1. files[q] \in {Nothing, Torn(job.run), Whole(job.run)}
    BY <1>2, <1>6 DEF Progress, Built, Cleared
  <2>2. CASE q = c
    BY <1>4, <2>1, <2>2 DEF Torn, Whole
  <2>3. CASE q \in Group(c)
    <3>1. files[q] = Whole(files[c].run)
      BY <1>2, <2>3
    <3>2. files[c].run = job.run
      BY <2>1, <3>1 DEF Nothing, Torn, Whole
    <3> QED
      BY <1>4, <3>2
  <2> QED
    BY <2>2, <2>3
<1> QED
  BY <1>1, <1>5, <1>6 DEF Barred

LEMMA NeverRetired ==
  ASSUME NEW c \in Seals(host), NEW p \in Group(c) \cup {c}, host = "action"
  PROVE  p \notin {"grant", "grant.enrollment"}
  BY SealedGroups DEF Sealed

LEMMA SealStep ==
  ASSUME Typed, Progress, SealInv, [Next]_vars
  PROVE  SealInv'
<1>h. host' = host
  <2>1. Drive \/ Stop => host' = host
    BY DEF Drive, Stop, Pass, Tear, Complete, Discard, Still
  <2> QED
    BY <2>1, Driving, Retirement DEF Next, Start, UseGrant, vars
<1> SUFFICES ASSUME NEW c \in Seals(host), files'[c] # Nothing,
                    NEW p \in Group(c)
             PROVE  files'[p] = Whole(files'[c].run)
  BY <1>h DEF SealInv
<1>1. /\ c \in Paths(host) /\ p \in Paths(host)
      /\ files \in [Paths(host) -> FileStates(Len(ran))]
  BY SealedGroups DEF Sealed, Typed
<1>2. CASE files'[c] # files[c]
  <2>1. job # Idle /\ (Tear(c) \/ Complete(c))
    BY <1>1, <1>2, FilesStep DEF Discard
  <2>2. /\ Touches(Plan, job.at, c) /\ files'[c].run = job.run
        /\ \A q \in Paths(host) : q # c => files'[q] = files[q]
    BY <1>1, <2>1 DEF Tear, Complete, Torn, Whole
  <2>3. Straight(Plan) /\ Closes(Plan, c) /\ job.at \in Nat
    BY <2>1, UnderWay, Ordered DEF Orderly, InOrder, Plan
  <2>4. PICK k \in 1..(job.at - 1) : Surely(Plan, k, p)
    BY <2>2, <2>3 DEF Closes
  <2>5. files[p] = Whole(job.run)
    BY <1>1, <2>1, <2>4 DEF Progress, Built
  <2>6. p # c
    BY <2>2, <2>3, <2>4 DEF Surely, Straight
  <2> QED
    BY <1>1, <2>2, <2>5, <2>6
<1>3. CASE files'[c] = files[c]
  <2>1. files[p] = Whole(files[c].run)
    BY <1>3 DEF SealInv
  <2>2. files'[p] = files[p]
    BY <1>1, <1>3, FilesStep, GroupUntouched, NeverRetired
  <2> QED
    BY <1>3, <2>1, <2>2
<1> QED
  BY <1>2, <1>3

LEMMA ClaimStep ==
  ASSUME Typed, Progress, SealInv, [Next]_vars, NEW c \in Seals(host)
  PROVE  /\ IsWhole(c) => files'[c] = files[c]
         /\ files[c] # Nothing =>
              \A p \in Kept(c) : files'[p] = files[p]
<1>1. Group(c) \cup {c} \subseteq Paths(host)
  BY SealedGroups DEF Sealed
<1>2. ASSUME files[c] # Nothing, NEW p \in Group(c) \cup {c},
             files'[p] # files[p]
      PROVE  p = c /\ files[c] = Torn(job.run)
  BY <1>1, <1>2, FilesStep, GroupUntouched, NeverRetired
<1>3. ASSUME IsWhole(c)
      PROVE  files'[c] = files[c]
  BY <1>2, <1>3 DEF IsWhole, Nothing, Torn
<1>4. ASSUME files[c] # Nothing, NEW p \in Kept(c)
      PROVE  files'[p] = files[p]
  <2>1. p \in Group(c)
    BY DEF Group
  <2>2. files[p] = Whole(files[c].run)
    BY <1>4, <2>1 DEF SealInv
  <2>3. p # c \/ files[c] # Torn(job.run)
    BY <2>2 DEF Torn, Whole
  <2> QED
    BY <1>2, <1>4, <2>1, <2>3
<1> QED
  BY <1>3, <1>4

(****************************** the enrollment *****************************)

\* What is on the host was made by the script whose run it bears.
Stamped ==
  \A p \in Paths(host) :
    files[p] # Nothing => p \in MadeBy(ran[files[p].run])

\* run-target is past its first step only with the identity there.
IdentityMet ==
  host = "target" /\ job # Idle /\ job.name = "run-target" /\ job.at > 1 =>
    IsWhole("m2-identity")

EnrolledInv == Stamped /\ IdentityMet /\ EffectsUseOneEnrollment

LEMMA StampedStep ==
  ASSUME Typed, Stamped, host' = host, [Next]_vars
  PROVE  Stamped'
<1>t. /\ files \in [Paths(host) -> FileStates(Len(ran))]
      /\ Len(ran) \in Nat
  BY DEF Typed
<1> SUFFICES ASSUME NEW p \in Paths(host), files'[p] # Nothing
             PROVE  p \in MadeBy(ran'[files'[p].run])
  BY DEF Stamped
<1>1. CASE files'[p] = files[p]
  <2>1. files[p] \in FileStates(Len(ran)) /\ files[p] # Nothing
    BY <1>t, <1>1
  <2>2. files[p].run \in 1..Len(ran)
    BY <2>1 DEF FileStates, Torn, Whole
  <2> QED
    BY <1>1, <2>1, <2>2, RanKept DEF Stamped
<1>2. CASE files'[p] # files[p]
  <2>1. /\ job # Idle /\ Touches(Plan, job.at, p) /\ Still
        /\ Tear(p) \/ Complete(p)
    BY <1>t, <1>2, FilesStep DEF Tear, Complete, Discard
  <2>2. files'[p].run = job.run
    BY <1>t, <2>1 DEF Tear, Complete, Torn, Whole
  <2>3. job.name = ran[job.run] /\ ran' = ran
    BY <2>1, UnderWay DEF Still
  <2>4. p \in MadeBy(job.name)
    BY <2>1, MadeTouched DEF Plan
  <2> QED
    BY <2>2, <2>3, <2>4
<1> QED
  BY <1>1, <1>2

\* The identity, once whole, stays as it is.
LEMMA IdentityKept ==
  ASSUME Typed, Progress, SealInv, [Next]_vars, host = "target",
         IsWhole("m2-identity")
  PROVE  files'["m2-identity"] = files["m2-identity"]
<1>1. "m2-identity" \in Seals(host)
  BY TargetSeals
<1> QED
  BY <1>1, ClaimStep

\* run-target begins by looking for the identity.
LEMMA IdentityFirst ==
  /\ Script("run-target")[1].do = "needs"
  /\ Script("run-target")[1].at = {"m2-identity"}
<1>1. /\ RunTarget[1].do = "needs"
      /\ RunTarget[1].at = {"m2-identity"}
  BY DEF RunTarget, RunTargetGuard, SupportEnrollment, Bound, Collected,
         Absent, Needs, Claim, Writes, Effect
<1> QED
  BY <1>1, ScriptTable

LEMMA IdentityStep ==
  ASSUME Typed, Progress, SealInv, IdentityMet, [Next]_vars
  PROVE  IdentityMet'
<1> SUFFICES ASSUME host' = "target", job' # Idle, job'.name = "run-target",
                    job'.at > 1
             PROVE  files'["m2-identity"].state = "whole"
  BY DEF IdentityMet, IsWhole
<1>1. ASSUME NEW name, Start(name)
      PROVE  FALSE
  BY <1>1 DEF Start
<1>2. CASE Check \/ MakeClaim \/ BeginFile \/ FillFile \/ ReplaceFile \/ Act
             \/ Fail \/ Crash \/ Finish
  <2>1. job # Idle /\ Drive
    BY <1>2, Driving DEF Stop
  <2>2. /\ host = "target"
        /\ job' = job \/ On
    BY <2>1 DEF Drive, Pass, Tear, Complete, Discard, Still
  <2>3. /\ job.at \in Nat \ {0}
        /\ job = [name |-> job.name, run |-> job.run, at |-> job.at]
    BY <2>1, UnderWay DEF Going
  <2>4. /\ job.name = "run-target"
        /\ \/ job'.at = job.at
           \/ On /\ job'.at = job.at + 1
    <3>1. CASE job' = job
      BY <3>1
    <3>2. CASE On
      <4>1. job' = [name |-> job.name, run |-> job.run, at |-> job.at + 1]
        BY <2>3, <3>2 DEF On
      <4> QED
        BY <3>2, <4>1
    <3> QED
      BY <2>2, <3>1, <3>2
  <2>5. CASE job.at > 1
    BY <2>1, <2>2, <2>4, <2>5, IdentityKept DEF IdentityMet, IsWhole
  <2>6. CASE job.at = 1
    <3>1. On /\ Plan[job.at].do = "needs" /\ Plan[job.at].at = {"m2-identity"}
      BY <2>4, <2>6, IdentityFirst DEF Plan
    <3>2. Pass
      BY <2>1, <3>1 DEF Drive, Tear, Complete, Discard, Touches, Makes
    <3> QED
      BY <3>1, <3>2 DEF Pass, IsWhole
  <2> QED
    BY <2>3, <2>5, <2>6
<1>3. ASSUME NEW p \in {"grant", "grant.enrollment"}, Retire(p)
      PROVE  FALSE
  BY <1>3, Retirement
<1>4. CASE UseGrant
  BY <1>4 DEF UseGrant
<1>5. CASE UNCHANGED vars
  BY <1>5 DEF vars, IdentityMet, IsWhole
<1> QED
  BY <1>1, <1>2, <1>3, <1>4, <1>5 DEF Next

\* What a preparation hands over belongs to its seal; the preparation of the
\* target makes all of it.
LEMMA GivenByHost ==
  /\ \A h : Given(h) # {} => h \in {"target", "controller"}
  /\ Given("target") \subseteq Group("m2-identity")
  /\ \A p \in Given("target") :
       \E k : Touches(Script("prepare-target"), k, p)
<1>1. /\ Given("target") = {"subject", "nq.toml", "trust", "issuer.pk8",
                            "resolvers"}
      /\ \A h : h \notin {"target", "controller"} => Given(h) = {}
  BY Zenon DEF Given
<1>2. /\ Touches(PrepareTarget, 3, "nq.toml")
      /\ Touches(PrepareTarget, 4, "subject")
      /\ Touches(PrepareTarget, 7, "issuer.pk8")
      /\ Touches(PrepareTarget, 8, "trust")
      /\ Touches(PrepareTarget, 9, "resolvers")
  BY DEF Touches, Makes, PrepareTarget, PrepareTargetGuard, Absent, Writes,
         Claim
<1> HIDE DEF Given
<1> QED
  BY <1>1, <1>2, TargetSeals, ScriptTable

\* What an effect of the script under way was handed is the preparation's.
LEMMA HandedByPreparation ==
  ASSUME Typed, Progress, EffectInv, SealInv, IdentityMet, job # Idle, Pass,
         Plan[job.at].do \in EffectNames,
         NEW p \in Plan[job.at].at, p \notin MadeBy(job.name)
  PROVE  \/ host = "controller"
         \/ host = "target" /\ files["m2-identity"] = Whole(files[p].run)
<1>1. /\ Fed(host, Plan) /\ job.name \in ScriptsOf(host)
      /\ job.at \in Nat \ {0} /\ job.at \in DOMAIN Plan
  BY UnderWay, Ordered DEF Orderly, InOrder, Plan, Pass
<1>2. \A k : ~Touches(Plan, k, p)
  BY MadeTouched DEF Plan
<1>3. p \in Given(host)
  BY <1>1, <1>2, SurelyTouches DEF Fed
<1>4. CASE host = "target"
  <2>1. job.name = "run-target"
    BY <1>1, <1>2, <1>3, <1>4, GivenByHost, ScriptsTable DEF Plan
  <2>2. job.at > 1
    <3>1. job.at # 1
      BY <2>1, IdentityFirst DEF Plan, EffectNames
    <3> QED
      BY <1>1, <3>1
  <2>3. IsWhole("m2-identity")
    BY <1>4, <2>1, <2>2 DEF IdentityMet
  <2>4. "m2-identity" \in Seals(host) /\ "m2-identity" \in Paths(host)
    BY <1>4, TargetSeals, SealedGroups DEF Sealed
  <2>5. files["m2-identity"] \in FileStates(Len(ran))
    BY <2>4 DEF Typed
  <2>6. /\ files["m2-identity"] # Nothing
        /\ files["m2-identity"] = Whole(files["m2-identity"].run)
    BY <2>3, <2>5 DEF IsWhole, FileStates, Nothing, Torn, Whole
  <2>7. files[p] = Whole(files["m2-identity"].run)
    BY <1>3, <1>4, <2>4, <2>6, GivenByHost DEF SealInv
  <2> QED
    BY <1>4, <2>6, <2>7 DEF Whole
<1>5. CASE host # "target"
  BY <1>3, <1>5, GivenByHost
<1> QED
  BY <1>4, <1>5

\* The resolver is handed nothing that the grant's script did not make.
LEMMA UseOfOwnFiles ==
  ASSUME Typed, GrantJournalled, Stamped, UseGrant
  PROVE  \E e : effects' = effects \cup {e} /\ Handed(e) = {}
<1> DEFINE r == files["grant"].run
           S == {"grant", "grant.enrollment", Journal(ran[r])}
           e == [by |-> "use", run |-> r, read |-> [p \in S |-> files[p].run]]
<1>1. /\ host = "action" /\ files["grant"].state = "whole"
      /\ files["grant.enrollment"].state = "whole"
      /\ files["grant"].run = files["grant.enrollment"].run
      /\ effects' = effects \cup {e}
  BY DEF UseGrant, IsWhole, Done
<1>2. files[Journal(ran[r])] = Whole(r)
  BY <1>1 DEF GrantJournalled, Nothing
<1>3. \A p \in S : files[p] # Nothing /\ files[p].run = r
  BY <1>1, <1>2 DEF Nothing, Whole
<1>4. S \subseteq Paths(host)
  BY <1>1, ActionPaths, JournalNames
<1>5. S \subseteq MadeBy(ran[r])
  BY <1>3, <1>4 DEF Stamped
<1>6. DOMAIN e.read = S /\ e.run = r
  OBVIOUS
<1>7. Handed(e) = {}
  BY <1>5, <1>6 DEF Handed
<1> QED
  BY <1>1, <1>7

LEMMA EnrollmentStep ==
  ASSUME Typed, Progress, EffectInv, SealInv, EnrolledInv, [Next]_vars
  PROVE  EnrolledInv'
<1>h. host' = host
  <2>1. Drive \/ Stop => host' = host
    BY DEF Drive, Stop, Pass, Tear, Complete, Discard, Still
  <2> QED
    BY <2>1, Driving, Retirement DEF Next, Start, UseGrant, vars
<1>1. Stamped' /\ IdentityMet'
  BY <1>h, StampedStep, IdentityStep DEF EnrolledInv
<1>2. ASSUME NEW e \in effects, NEW p \in Handed(e)'
      PROVE  \/ host = "controller"
             \/ host = "target" /\ files'["m2-identity"] = Whole(e.read[p])
  <2>1. p \in Handed(e)
    BY <1>2, RanKept DEF Handed, Typed
  <2>2. \/ host = "controller"
        \/ host = "target" /\ files["m2-identity"] = Whole(e.read[p])
    BY <2>1 DEF EnrolledInv, EffectsUseOneEnrollment
  <2>3. files["m2-identity"] = Whole(e.read[p]) => IsWhole("m2-identity")
    BY DEF Whole, IsWhole
  <2> QED
    BY <2>2, <2>3, IdentityKept
<1>3. ASSUME NEW e \in effects', e \notin effects, NEW p \in Handed(e)'
      PROVE  \/ host = "controller"
             \/ host = "target" /\ files'["m2-identity"] = Whole(e.read[p])
  <2>1. CASE UseGrant
    <3>1. PICK f : effects' = effects \cup {f} /\ Handed(f) = {}
      BY <2>1, UseOfOwnFiles DEF EffectInv, EnrolledInv
    <3>2. e = f /\ ran' = ran
      BY <1>3, <2>1, <3>1 DEF UseGrant
    <3> QED
      BY <1>3, <3>1, <3>2 DEF Handed
  <2>2. CASE ~UseGrant
    <3>1. job # Idle /\ Drive
      BY <1>3, <2>2, Driving, Retirement DEF Next, Start, Stop, vars
    <3>2. Pass
      BY <1>3, <3>1 DEF Drive, Tear, Complete, Discard
    <3>3. PICK f : /\ effects' = effects \cup {f} /\ f.run = job.run
                   /\ DOMAIN f.read = Plan[job.at].at
                   /\ \A q \in DOMAIN f.read : f.read[q] = files[q].run
      BY <1>3, <3>1, <3>2, ActOfThisRun
    <3>4. /\ e = f /\ ran' = ran /\ files' = files
          /\ Plan[job.at].do \in EffectNames
      BY <1>3, <3>2, <3>3 DEF Pass, Still
    <3>5. p \in Plan[job.at].at /\ p \notin MadeBy(job.name)
      BY <1>3, <3>1, <3>3, <3>4, UnderWay DEF Handed
    <3> QED
      BY <3>1, <3>2, <3>3, <3>4, <3>5, HandedByPreparation DEF EnrolledInv
  <2> QED
    BY <2>1, <2>2
<1>4. EffectsUseOneEnrollment'
  BY <1>h, <1>2, <1>3 DEF EffectsUseOneEnrollment
<1> QED
  BY <1>1, <1>4 DEF EnrolledInv

(******************************** theorems *********************************)

ScriptInv == Typed /\ Progress /\ EffectInv /\ SealInv /\ EnrolledInv

LEMMA ScriptInvariance == Spec => []ScriptInv
<1>1. Init => ScriptInv
  <2> SUFFICES ASSUME Init
               PROVE  ScriptInv
    OBVIOUS
  <2>1. /\ host \in Hosts /\ job = Idle /\ ran = <<>> /\ effects = {}
        /\ files = [p \in Paths(host) |-> Nothing]
    BY DEF Init
  <2>2. Typed
    <3>1. ran \in Seq(ScriptsOf(host)) /\ Len(ran) = 0 /\ MaxRuns[host] \in Nat
      BY <2>1, HostScriptsAssumption
    <3>2. files \in [Paths(host) -> FileStates(Len(ran))]
      BY <2>1 DEF FileStates
    <3> QED
      BY <2>1, <3>1, <3>2 DEF Typed
  <2>3. Progress
    BY <2>1 DEF Progress, Built, Cleared, Own
  <2>4. EffectInv
    <3>1. GrantJournalled
      BY <2>1, ActionPaths DEF GrantJournalled
    <3> QED
      BY <2>1, <3>1
      DEF EffectInv, GateKept, EffectBehind, EffectOnce,
          EffectsUseTheirOwnRun
  <2>5. SealInv
    BY <2>1, SealedGroups DEF SealInv, Sealed
  <2>6. EnrolledInv
    BY <2>1 DEF EnrolledInv, Stamped, IdentityMet, EffectsUseOneEnrollment
  <2> QED
    BY <2>2, <2>3, <2>4, <2>5, <2>6 DEF ScriptInv
<1>2. ScriptInv /\ [Next]_vars => ScriptInv'
  BY TypesStep, ProgressStep, EffectStep, SealStep, EnrollmentStep
  DEF ScriptInv
<1> QED
  BY <1>1, <1>2, PTL DEF Spec

\* A script never runs past its end, and whatever is on the host, and every
\* effect, is of a run that was started.
THEOREM TypeCorrect == Spec => []TypeOK
<1>1. ScriptInv => TypeOK
  <2> SUFFICES ASSUME ScriptInv
               PROVE  TypeOK
    OBVIOUS
  <2>1. /\ files \in [Paths(host) -> FileStates(Len(ran))]
        /\ Len(ran) <= MaxRuns[host] /\ DOMAIN ran = 1..Len(ran)
        /\ \A e \in effects : e.run \in 1..Len(ran)
    BY DEF ScriptInv, Typed
  <2>2. job = Idle \/ (/\ job.run = Len(ran) /\ job.name = ran[job.run]
                       /\ job.at \in 1..(Len(Script(job.name)) + 1))
    BY DEF ScriptInv, Typed, Going, Plan
  <2>3. \A p \in DOMAIN files :
          files[p] = Nothing \/ \E r \in DOMAIN ran :
                                  files[p] \in {Torn(r), Whole(r)}
    <3>1. ASSUME NEW p \in Paths(host)
          PROVE  files[p] = Nothing \/ \E r \in 1..Len(ran) :
                                         files[p] \in {Torn(r), Whole(r)}
      <4>1. files[p] \in FileStates(Len(ran))
        BY <2>1
      <4> QED
        BY <4>1 DEF FileStates
    <3> QED
      BY <2>1, <3>1
  <2> QED
    BY <2>1, <2>2, <2>3 DEF TypeOK
<1> QED
  BY <1>1, ScriptInvariance, PTL

\* However often the scripts of a host are stopped and run again, a dispatch,
\* an acquisition, an apply or a download happens at most once.
THEOREM OnceOnAHost == Spec => []EffectOnce
<1>1. ScriptInv => EffectOnce
  BY DEF ScriptInv, EffectInv
<1> QED
  BY <1>1, ScriptInvariance, PTL

\* Of the files its own script makes, no program is ever given one that an
\* earlier run left behind; what the programs of the target are handed by an
\* earlier script, whichever of them it is, is of the one preparation whose
\* identity is on the host; no other host but a controller hands them any.
THEOREM InputsTogether == Spec => []InputsBelongTogether
<1>1. ScriptInv => InputsBelongTogether
  BY DEF ScriptInv, EffectInv, EnrolledInv, InputsBelongTogether
<1> QED
  BY <1>1, ScriptInvariance, PTL

\* A file that closes a script is whole only beside everything it stands for,
\* all written by one run; the artifact of the controller's result excepted.
THEOREM SealsVouch == Spec => []SealVouches
<1>1. ScriptInv => SealVouches
  <2> SUFFICES ASSUME ScriptInv, NEW c \in Seals(host), IsWhole(c),
                      NEW p \in Kept(c)
               PROVE  files[p] = files[c]
    BY DEF SealVouches
  <2>1. c \in Paths(host) /\ files[c] \in FileStates(Len(ran))
    BY SealedGroups DEF Sealed, ScriptInv, Typed
  <2>2. files[c] = Whole(files[c].run) /\ files[c] # Nothing
    BY <2>1 DEF FileStates, IsWhole, Nothing, Torn, Whole
  <2>3. p \in Group(c)
    BY DEF Group
  <2> QED
    BY <2>2, <2>3 DEF ScriptInv, SealInv
<1> QED
  BY <1>1, ScriptInvariance, PTL

\* No later run rewrites a seal, or anything a seal stands for once the seal
\* is begun; the artifact of the controller's result excepted.
THEOREM ClaimsHold == Spec => ClaimHolds
<1>1. ScriptInv /\ [Next]_vars =>
        [\A c \in Seals(host) :
           /\ IsWhole(c) => files'[c] = files[c]
           /\ files[c] # Nothing =>
                \A p \in Kept(c) : files'[p] = files[p]]_vars
  BY ClaimStep DEF ScriptInv
<1> QED
  BY <1>1, ScriptInvariance, PTL DEF Spec, ClaimHolds
=============================================================================
