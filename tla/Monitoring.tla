----------------------------- MODULE Monitoring -----------------------------
(* From the host posture to the alerts: the publisher of the posture       *)
(* artifact, the status-site renderer, the textfile exporter and the alert *)
(* rules (constellation-beta.rules.yml), each on a timer of its own and    *)
(* each of which may stop for good.  One tick is one evaluation interval;  *)
(* a render and an export each take less than one (StatusSite has the      *)
(* steps of a render).  A run that is killed or cannot write changes       *)
(* nothing, so it is not a step.                                           *)
EXTENDS Exporter

CONSTANTS
  Watched,         \* the inputs whose alerts are followed
  FreshFor,        \* what an artifact has left when it is published
  TlsProbe,        \* FALSE: the renderer runs with --no-tls
  ExporterMaxAge,  \* ExporterStale: the age of the last run, and its "for"
  ExporterFor,
  StaleAge,        \* StatusSiteRenderStale
  StaleFor,
  UnreadableFor,   \* ExporterInputUnreadable
  UnknownFor       \* HostPostureUnknownPersisting

ASSUME IntervalAssumption ==
  /\ {FreshFor, ExporterMaxAge, ExporterFor, StaleAge, StaleFor,
      UnreadableFor, UnknownFor} \subseteq Nat
  /\ TlsProbe \in BOOLEAN
  /\ Watched \subseteq Input \ {"render_timings"}
  /\ "status_json" \in Watched

\* As shipped (300 s and 5 m, within 900 s): a stopped exporter is reported
\* before the site it no longer reads can be stale.
ASSUME SiteAssumption == ExporterMaxAge + ExporterFor <= StaleAge

VARIABLES
  artifact,  \* the current posture artifact
  site,      \* status.json, and whether it can be read
  prom,      \* the exporter's file
  pending,   \* per rule, the evaluations in a row it has held for
  silent     \* history: those in a row that found the site stale, and no
             \* alert of the three that could say so

vars == <<artifact, site, prom, pending, silent>>

\* How long a stopped exporter goes unnoticed, and how long a stale site
\* does, whatever else stops meanwhile.
Notice == ExporterMaxAge + ExporterFor
Patience == StaleFor + UnreadableFor

\* The caps of the clocks: beyond them no rule or property looks.
MaxAge == 1 + IF StaleAge > ExporterMaxAge THEN StaleAge ELSE ExporterMaxAge
Cap(age) == IF age > MaxAge THEN MaxAge ELSE age
Floor(left, least) == IF left < least THEN least ELSE left

Rule == {"ExporterStale", "StatusSiteRenderStale",
         "HostPostureUnknownPersisting"} \cup Watched

For(rule) ==
  CASE rule = "ExporterStale" -> ExporterFor
    [] rule = "StatusSiteRenderStale" -> StaleFor
    [] rule = "HostPostureUnknownPersisting" -> UnknownFor
    [] OTHER -> UnreadableFor

\* One type invariant for the module.
TypeOK ==
  /\ artifact \in [left : (-Notice - 1) .. FreshFor, state : PostureState]
  /\ site \in [readable : BOOLEAN, doc : Status]
  /\ site.doc.age <= MaxAge
  /\ prom \in [age : 0 .. MaxAge, reg : Registry]
  /\ DOMAIN prom.reg.ok \in {Input, Input \ Sections}
  /\ DOMAIN pending = Rule
  /\ \A rule \in Rule : pending[rule] \in 0 .. For(rule) + 1
  /\ silent \in 0 .. Patience + 1
-----------------------------------------------------------------------------
\* The document of a render that begins and ends now.
Document ==
  [age : {0}, posture : {artifact.state, "unavailable"},
   left : {Floor(artifact.left, -1)},
   tls : IF TlsProbe THEN BOOLEAN ELSE {FALSE}]

NoFailure == [i \in Plain |-> [raises |-> FALSE, added |-> Rank]]

Init ==
  /\ artifact = [left |-> FreshFor, state |-> "unknown"]
  /\ site = [readable |-> TRUE,
             doc |-> [age |-> 0, posture |-> "unknown", left |-> FreshFor,
                      tls |-> TlsProbe]]
  /\ prom = [age |-> 0, reg |-> Collect(site.doc, NoFailure)]
  /\ pending = [rule \in Rule |-> 0]
  /\ silent = 0

\* External: a new artifact becomes current.
PublishArtifact ==
  /\ artifact' \in [left : {FreshFor}, state : PostureState]
  /\ UNCHANGED <<site, prom, pending, silent>>

Render ==
  /\ site' \in [readable : {TRUE}, doc : Document]
  /\ UNCHANGED <<artifact, prom, pending, silent>>

\* status.json is removed or loses its permissions.
LoseStatus ==
  /\ site.readable
  /\ site' = [site EXCEPT !.readable = FALSE]
  /\ UNCHANGED <<artifact, prom, pending, silent>>

\* A run of the exporter: every input is read, and the file is replaced.
Export ==
  /\ \E attempts \in [Plain -> Attempt] :
       prom' = [age |-> 0,
                reg |-> Collect(IF site.readable THEN site.doc ELSE NoStatus,
                                attempts)]
  /\ UNCHANGED <<artifact, site, pending, silent>>
-----------------------------------------------------------------------------
(* The alert rules, on the file as it is scraped. *)

Holds(rule, file) ==
  CASE rule = "ExporterStale" -> file.age > ExporterMaxAge
    [] rule = "StatusSiteRenderStale" -> file.reg.rendered > StaleAge
    [] rule = "HostPostureUnknownPersisting" -> file.reg.posture = "unknown"
    [] OTHER -> rule \in DOMAIN file.reg.ok /\ ~file.reg.ok[rule]

Older(file) ==
  [file EXCEPT !.age = Cap(@ + 1),
               !.reg.rendered = IF @ = -1 THEN -1 ELSE Cap(@ + 1)]

\* vmalert: a rule that has held for longer than its "for" fires.
Evaluated(rule, file) ==
  IF ~Holds(rule, file) THEN 0
  ELSE IF pending[rule] > For(rule) THEN pending[rule]
  ELSE pending[rule] + 1

Firing(rule) == pending[rule] > For(rule)

SiteAlarm ==
  Firing("ExporterStale") \/ Firing("StatusSiteRenderStale")
    \/ Firing("status_json")

\* Time passes and every rule is evaluated.
Tick ==
  /\ artifact' = [artifact EXCEPT !.left = Floor(@ - 1, -Notice - 1)]
  /\ site' = [site EXCEPT !.doc.age = Cap(@ + 1),
                          !.doc.left = Floor(@ - 1, -1)]
  /\ prom' = Older(prom)
  /\ pending' = [rule \in Rule |-> Evaluated(rule, prom')]
  /\ silent' = IF site'.doc.age <= StaleAge \/ SiteAlarm' THEN 0
               ELSE IF silent > Patience THEN silent ELSE silent + 1

Next == PublishArtifact \/ Render \/ LoseStatus \/ Export \/ Tick

Spec == Init /\ [][Next]_vars
-----------------------------------------------------------------------------
(* Properties. *)

\* A posture other than unknown is not shown for long past the artifact's
\* fresh_until, whichever of the three programs stopped: either the exporter
\* has turned it to unknown or ExporterStale fires.
StalePostureIsNotSilent ==
  prom.reg.posture \in Conclusion /\ artifact.left < -Notice =>
    Firing("ExporterStale")

\* A status site that is no longer rendered, with or without a readable
\* status.json, is never without an alert for long, although what stops or
\* vanishes next can end the alert that told of it.
StaleSiteIsNotSilent == silent <= Patience

\* In the exporter's file an input is marked 1 exactly when all its samples
\* are there, and one marked 0 or not at all has none, but for the one-hot
\* state of an unavailable posture; also when inputs share a family (guard).
InputMatchesFamilies ==
  \A i \in Input :
    LET there == prom.reg.families[Family(i)] \cap Samples(i)
    IN IF i \in DOMAIN prom.reg.ok /\ prom.reg.ok[i]
       THEN i # "status_json" => there = Samples(i)
       ELSE there \subseteq
              (IF i = "host_posture" THEN {<<i, 1>>} ELSE {})

\* An alert says that "the telemetry machinery or the host looks wrong"
\* (constellation-beta.rules.yml): none fires for an input that the
\* deployment does not provide.
InputAlarmMeansFault == Firing("tls") => TlsProbe
=============================================================================
