----------------------------- MODULE HostScripts -----------------------------
(* The owner's scripts: the enrollment of the canary and of the disposable  *)
(* fixture, the M2 target and controller, the capture of an objective       *)
(* occurrence, the site adapter's tick, the preparation of a reviewed copy  *)
(* and of its Python closure. Each is a straight line of file  *)
(* operations and native calls that may stop anywhere: a program refuses, a *)
(* write fails, the host goes down. Nothing rolls back, and the next        *)
(* invocation meets what the last one left. What protects the host are the  *)
(* existence checks at the top, the exclusive creations on the way, and     *)
(* that the file the others read is written last.                           *)
(*                                                                          *)
(* A script is the sequence of its steps; one operator runs one at a time.  *)
(* A file is stamped with the run that wrote it: two files of one run agree *)
(* on key, subject and digests, two of different runs need not.             *)
EXTENDS Integers, Sequences

CONSTANTS Hosts,     \* the hosts whose scripts this instance runs
          MaxRuns    \* bound: invocations on each host

ASSUME HostScriptsAssumption == MaxRuns \in [Hosts -> Nat]

VARIABLES host,      \* which host this behaviour is on
          files,     \* path -> what is there: state and the run that wrote it
          job,       \* the script under way: name, run, next step
          ran,       \* names of the scripts started, in order
          effects    \* what native programs did, and the run each input was of

vars == <<host, files, job, ran, effects>>

(***************************** kinds of step *******************************)

\* Every file operation opens, truncates or creates first and fills later,
\* so a stop in between leaves a torn file. Directories appear at once.
Absent(S)      == <<[do |-> "absent", at |-> S]>>
Needs(S)       == <<[do |-> "needs", at |-> S]>>
Claim(p)       == <<[do |-> "claim", at |-> {p}]>>
Once(p)        == <<[do |-> "once", at |-> {p}]>>
Replace(p)     == <<[do |-> "replace", at |-> {p}]>>
Retain(p)      == <<[do |-> "retain", at |-> {p}]>>
Writes(s)      == [i \in DOMAIN s |-> [do |-> "write", at |-> {s[i]}]]
Exclusives(s)  == [i \in DOMAIN s |-> [do |-> "exclusive", at |-> {s[i]}]]
Effect(e, S)   == <<[do |-> e, at |-> S]>>

EffectNames == {"evaluate", "observe", "acquire", "cycle", "authorize",
                "dispatch", "accept", "apply", "download"}

\* The kinds of step that put something on the host.
Makes == {"claim", "once", "replace", "retain", "write", "exclusive"}

(************************ canary: enroll-remediation ***********************)

NqConfig == Absent({"nqd-ops.toml"}) \o Writes(<<"nqd-ops.toml">>)

AttentionConfig == Absent({"attention.toml"}) \o Writes(<<"attention.toml">>)

\* Mutant: the key a failed enrollment left is not looked for.
AgDocketGuardMutant ==
  Absent({"runtime-profile", "identity", "effectd.deployment"})

\* "resolvers" are the three wrappers, "plans" the two start plans.
AgDocketGuard ==
  Absent({"runtime-profile", "identity", "issuer.pem", "effectd.deployment"})
AgDocket ==
  AgDocketGuard \o Once("issuer.pem") \o Needs({"issuer.pem"})
  \o Writes(<<"issuer.pk8", "docket-trust", "resolvers", "mandates",
              "template", "plan-enrollment", "catalog", "enrollment",
              "runtime-profile", "effectd.deployment", "plans",
              "identity">>)

Journal(name) == IF name = "grant-a" THEN "journal-a" ELSE "journal-b"

Grant(name) ==
  Absent({"grant", "grant.enrollment"}) \o Claim(Journal(name))
  \o Writes(<<"grant", "grant.enrollment">>)

Mandate == Writes(<<"mandates">>)

ConsumerConfig ==
  Absent({"consumer"}) \o Needs({"identity"}) \o Writes(<<"consumer">>)

\* enroll-canary-observation.sh; "nq.db" stands for init, test and admit. It
\* lies in the state directory: without that there is none.
CanaryObservation ==
  Absent({"canary.service", "nqd-ops.service", "nqd-ops.toml",
          "attention.toml", "nq-ops", "nq.db"})
  \o Writes(<<"canary.service", "nqd-ops.service">>) \o Once("nq-ops")
  \o NqConfig \o Needs({"nqd-ops.toml"}) \o Once("nq.db")
  \o AttentionConfig
  \o Writes(<<"local-inbox">>)
  \o Effect("evaluate", {"nqd-ops.toml", "nq.db", "attention.toml"})

(****************************** M2 candidate *******************************)

\* Mutant: an enrollment that was sealed is prepared again.
PrepareTargetGuardMutant == Absent({})

PrepareTargetGuard == Absent({"m2-identity"})
PrepareTarget ==
  PrepareTargetGuard \o Writes(<<"fixture.service", "nq.toml", "subject">>)
  \o Claim("private")
  \o Writes(<<"issuer.pem", "issuer.pk8", "trust", "resolvers",
              "m2-identity">>)

\* NQ observes under the enrolled configuration; its artifact is kept.
Collected(label) == Effect("observe", {"nq.toml"}) \o Writes(<<label>>)

\* What the acquisition's configuration names by path, digest or value.
Bound(baseline, custody, config) ==
  {"subject", "nq.toml", baseline, custody, config}

\* Mutant: the custody directory may be there already.
SupportEnrollmentMutant(baseline, custody, config) ==
  Needs({"subject"}) \o Once(custody) \o Writes(<<config>>)
  \o Effect("acquire", Bound(baseline, custody, config))

\* An exclusive custody directory, its configuration, then the acquisition.
SupportEnrollment(baseline, custody, config) ==
  Needs({"subject"}) \o Claim(custody) \o Writes(<<config>>)
  \o Effect("acquire", Bound(baseline, custody, config))

\* Mutant: a second run finds out about the first one only at its custody.
RunTargetGuardMutant == Needs({"m2-identity"})

\* "active.sqlite" is the campaign database the Nightshift cycle opens.
RunTargetGuard == Needs({"m2-identity"}) \o Absent({"active.sqlite"})
RunTarget ==
  RunTargetGuard \o Collected("before")
  \o Writes(<<"mandates", "catalog", "enrollment", "runtime-profile",
              "effectd.deployment">>)
  \o Needs({"subject"}) \o Writes(<<"plan">>)
  \o SupportEnrollment("before", "pulse-before", "before-pulse")
  \o Writes(<<"cycle">>)
  \o Effect("cycle", {"cycle", "before-pulse", "nq.toml", "resolvers",
                      "runtime-profile"})
  \o Writes(<<"active.sqlite">>)
  \o Effect("authorize", {"active.sqlite", "catalog", "mandates",
                          "resolvers"})
  \o Writes(<<"execution-standing", "standing.enrollment">>)
  \o Effect("dispatch", {"active.sqlite", "runtime-profile", "plan", "trust",
                         "effectd.deployment", "issuer.pk8",
                         "execution-standing", "standing.enrollment"})
  \o Collected("target-after") \o Writes(<<"target-result">>)

\* Nothing is looked for, and nothing seals what these two say together.
PrepareController == Writes(<<"subject", "nq.toml">>)

ObserveController ==
  Collected("controller-after")
  \o SupportEnrollment("controller-after", "pulse-after", "after-pulse")
  \o Needs({"subject"}) \o Writes(<<"controller-query">>)
  \o Needs({"subject"}) \o Writes(<<"controller-result">>)

(*********************** fixture, capture and adapter **********************)

Enrolled == {"owned", "live-cohort", "gateway"}

\* Exactly one apply, behind an exclusive directory and exclusive files.
OwnAndApply(units, confined) ==
  Absent(Enrolled) \o Claim("owned")
  \o Exclusives(<<"OWNERSHIP", "request", "admission">> \o units)
  \o Effect("apply", {"OWNERSHIP", "request", "admission"} \cup confined)
  \o Exclusives(<<"live-cohort", "gateway">>)

LocalFixture == OwnAndApply(<<"fixture.service">>, {})
ServiceFixture(confined) == OwnAndApply(<<>>, confined)

\* The reader that apply starts is confined to loopback by the drop-in, a
\* file in a directory of its own.
TryConstellation ==
  Absent({"owned", "reader.service.d", "loopback.conf"})
  \o Absent({"candidate"}) \o Writes(<<"candidate">>)
  \o Once("reader.service.d") \o Writes(<<"loopback.conf">>)
  \o ServiceFixture({"loopback.conf"}) \o Writes(<<"receipt">>)

Capture == Retain("occurrence") \o Effect("accept", {"occurrence"})

\* The configuration first, the request second: both replaced whole.
BuildRequest ==
  Needs({"artifact"}) \o Replace("pulse-load-support") \o Replace("current")

\* ExecStart, the cycle, is reached only when every ExecStartPre succeeded.
Tick ==
  Writes(<<"artifact">>) \o BuildRequest
  \o Effect("cycle", {"pulse-load-support", "current"})

(*********************** preparation of a reviewed copy ********************)

\* Files written in a row that nobody reads here are one path. "plans.sqlite"
\* is what Maude's store keeps while it checks and compiles.
PreparePlan ==
  Claim("maude-plan") \o Exclusives(<<"preparation-started">>)
  \o Writes(<<"plans.sqlite">>)
  \o Exclusives(<<"binding", "validator-config", "handoff">>)
  \o Claim("executor-state")
  \o Exclusives(<<"executor-config", "plan-validation",
                  "preparation-finished">>)

\* The native programs write the launchers and the seed.
PreparePorts ==
  Claim("ports") \o Exclusives(<<"ports-started">>) \o Claim("docket-state")
  \o Exclusives(<<"docket-standing-config">>)
  \o Writes(<<"launchers", "issuer-seed">>)
  \o Exclusives(<<"issuer.pk8", "docket-root-enrollment", "ports-finished">>)

PrepareOwner ==
  Needs({"binding", "docket-root-enrollment"}) \o Claim("owner")
  \o Exclusives(<<"review-material", "cycle-config", "genesis",
                  "preparation-status">>)

SealAdmission == Needs({"binding"}) \o Exclusives(<<"cycle-request">>)

\* The inputs are hashed, and after the write read once more and compared.
CallerInputs ==
  {"binding", "cycle-request", "executor-config", "review-material",
   "cycle-config", "docket-standing-config"}
EnrollCaller ==
  Needs(CallerInputs) \o Exclusives(<<"caller">>)
  \o Needs(CallerInputs \cup {"caller"})

\* The owner's root is claimed before the one download. Its seal is written
\* before the last check, of the space it takes.
ClosureBuild ==
  Absent({"closure-owner"}) \o Claim("closure-owner")
  \o Exclusives(<<"checkpoint", "wheel-requirements">>)
  \o Effect("download", {"wheel-requirements"})
  \o Exclusives(<<"requirements.lock">>)
  \o Writes(<<"venv", "switchyard-source", "built">>)
  \o Exclusives(<<"closure">>) \o Needs({"closure"})

\* The durable envelope; "terminal" is a terminal.json with exit code 0.
ClosureUnit ==
  Absent({"closure-owner", "records"}) \o Claim("records")
  \o Writes(<<"run.log", "records-checkpoint", "inputs.sha256">>)
  \o ClosureBuild \o Writes(<<"allocation-final", "terminal">>)

(***************************** scripts and files ***************************)

ScriptsOf(h) ==
  CASE h = "observation" -> {"canary-observation", "nq-config",
                             "attention-config"}
    [] h = "action"      -> {"ag-docket", "grant-a", "grant-b", "mandate",
                             "consumer-config"}
    [] h = "target"      -> {"prepare-target", "run-target"}
    [] h = "controller"  -> {"prepare-controller", "observe-controller"}
    [] h = "fixture"     -> {"local-fixture", "service-fixture", "try"}
    [] h = "capture"     -> {"capture"}
    [] h = "adapter"     -> {"tick"}
    [] h = "preparation" -> {"prepare-plan", "prepare-ports",
                             "prepare-owner", "seal-admission",
                             "enroll-caller"}
    [] h = "closure"     -> {"closure-build", "closure-unit"}
    [] OTHER             -> {}

Script(name) ==
  CASE name = "canary-observation" -> CanaryObservation
    [] name = "nq-config"          -> NqConfig
    [] name = "attention-config"   -> AttentionConfig
    [] name = "ag-docket"          -> AgDocket
    [] name \in {"grant-a", "grant-b"} -> Grant(name)
    [] name = "mandate"            -> Mandate
    [] name = "consumer-config"    -> ConsumerConfig
    [] name = "prepare-target"     -> PrepareTarget
    [] name = "run-target"         -> RunTarget
    [] name = "prepare-controller" -> PrepareController
    [] name = "observe-controller" -> ObserveController
    [] name = "local-fixture"      -> LocalFixture
    [] name = "service-fixture"    -> ServiceFixture({})
    [] name = "try"                -> TryConstellation
    [] name = "capture"            -> Capture
    [] name = "tick"               -> Tick
    [] name = "prepare-plan"       -> PreparePlan
    [] name = "prepare-ports"      -> PreparePorts
    [] name = "prepare-owner"      -> PrepareOwner
    [] name = "seal-admission"     -> SealAdmission
    [] name = "enroll-caller"      -> EnrollCaller
    [] name = "closure-build"      -> ClosureBuild
    [] name = "closure-unit"       -> ClosureUnit

\* What a script itself puts on the host.
MadeBy(name) ==
  UNION {Script(name)[i].at :
           i \in {k \in DOMAIN Script(name) : Script(name)[k].do \in Makes}}

Paths(h) ==
  UNION {UNION {Script(n)[i].at : i \in DOMAIN Script(n)} : n \in ScriptsOf(h)}

Idle == [name |-> "none", run |-> 0, at |-> 0]

Nothing == [state |-> "absent", run |-> 0]
Torn(r) == [state |-> "torn", run |-> r]
Whole(r) == [state |-> "whole", run |-> r]

IsWhole(p) == files[p].state = "whole"

Init ==
  /\ host \in Hosts
  /\ files = [p \in Paths(host) |-> Nothing]
  /\ job = Idle
  /\ ran = <<>>
  /\ effects = {}

(********************************* running *********************************)

Busy == job # Idle /\ job.at <= Len(Script(job.name))
Step == Script(job.name)[job.at]
Doing(kinds) == Busy /\ Step.do \in kinds
Path == CHOOSE p \in Step.at : TRUE

\* Mutant: a step after the last one.
AdvanceMutant == job' = [job EXCEPT !.at = @ + 2]

Advance == job' = [job EXCEPT !.at = @ + 1]
Put(p, f) == files' = [files EXCEPT ![p] = f]

Start(name) ==
  /\ job = Idle
  /\ Len(ran) < MaxRuns[host]
  /\ ran' = Append(ran, name)
  /\ job' = [name |-> name, run |-> Len(ran) + 1, at |-> 1]
  /\ UNCHANGED <<host, files, effects>>

\* A check that is met; one that is not ends the script.
ChecksOut ==
  CASE Step.do = "absent" -> \A p \in Step.at : files[p] = Nothing
    [] OTHER              -> \A p \in Step.at : IsWhole(p)

Check ==
  /\ Doing({"absent", "needs"})
  /\ IF ChecksOut THEN Advance ELSE job' = Idle
  /\ UNCHANGED <<host, files, ran, effects>>

\* mkdir without exist_ok: atomic, and refused by whatever is there.
MakeClaim ==
  /\ Doing({"claim"})
  /\ IF files[Path] = Nothing
       THEN Put(Path, Whole(job.run)) /\ Advance
       ELSE job' = Idle /\ UNCHANGED files
  /\ UNCHANGED <<host, ran, effects>>

Begun == files[Path] = Torn(job.run)

\* A write truncates what it finds; an exclusive creation refuses it; a file
\* made once is kept as found.
BeginFile ==
  /\ Doing({"write", "once", "exclusive", "retain"})
  /\ ~Begun
  /\ IF Step.do = "write" \/ files[Path] = Nothing
       THEN Put(Path, Torn(job.run)) /\ UNCHANGED job
       ELSE /\ IF Step.do = "once" THEN Advance ELSE job' = Idle
            /\ UNCHANGED files
  /\ UNCHANGED <<host, ran, effects>>

FillFile ==
  /\ Doing({"write", "once", "exclusive", "retain"})
  /\ Begun
  /\ Put(Path, Whole(job.run))
  /\ Advance
  /\ UNCHANGED <<host, ran, effects>>

\* Written under another name, synced, then renamed over the old file.
ReplaceFile ==
  /\ Doing({"replace"})
  /\ Put(Path, Whole(job.run))
  /\ Advance
  /\ UNCHANGED <<host, ran, effects>>

Done(e, run, S) ==
  effects' = effects \cup
    {[by |-> e, run |-> run, read |-> [p \in S |-> files[p].run]]}

\* A native program reads its inputs whole and acts, or refuses: see Fail.
Act ==
  /\ Doing(EffectNames)
  /\ \A p \in Step.at : IsWhole(p)
  /\ Done(Step.do, job.run, Step.at)
  /\ Advance
  /\ UNCHANGED <<host, files, ran>>

\* A program refuses or a write fails: the script exits there. Only the
\* capture takes its own partial file away.
AfterFailure ==
  IF Step.do = "retain" /\ Begun
    THEN [files EXCEPT ![Path] = Nothing] ELSE files

Fail ==
  /\ Busy
  /\ files' = AfterFailure
  /\ job' = Idle
  /\ UNCHANGED <<host, ran, effects>>

\* The host goes down or the script is killed.
Crash ==
  /\ Busy
  /\ job' = Idle
  /\ UNCHANGED <<host, files, ran, effects>>

Finish ==
  /\ job # Idle /\ ~Busy
  /\ job' = Idle
  /\ UNCHANGED <<host, files, ran, effects>>

(**************************** outside the scripts **************************)

\* The owner retires a grant: its two files go, in either order.
Retire(p) ==
  /\ host = "action" /\ job = Idle
  /\ files[p] # Nothing
  /\ Put(p, Nothing)
  /\ UNCHANGED <<host, job, ran, effects>>

\* The grant resolver spends a use: the grant is the one the enrollment's
\* digest pins, and the use is counted in the grant's journal.
UseGrant ==
  /\ host = "action"
  /\ IsWhole("grant") /\ IsWhole("grant.enrollment")
  /\ files["grant"].run = files["grant.enrollment"].run
  /\ LET r == files["grant"].run
     IN Done("use", r, {"grant", "grant.enrollment", Journal(ran[r])})
  /\ UNCHANGED <<host, files, job, ran>>

Next ==
  \/ \E name \in ScriptsOf(host) : Start(name)
  \/ Check \/ MakeClaim \/ BeginFile \/ FillFile \/ ReplaceFile \/ Act
  \/ Fail \/ Crash \/ Finish
  \/ \E p \in {"grant", "grant.enrollment"} : Retire(p)
  \/ UseGrant

Spec == Init /\ [][Next]_vars

(******************************** properties *******************************)

\* Shape of the state: a script never runs past its end, and nothing on the
\* host is of a run that has not started.
TypeOK ==
  /\ job = Idle \/ /\ job.run = Len(ran) /\ job.name = ran[job.run]
                   /\ job.at \in 1..(Len(Script(job.name)) + 1)
  /\ Len(ran) <= MaxRuns[host]
  /\ \A p \in DOMAIN files :
       files[p] = Nothing \/ \E r \in DOMAIN ran :
                               files[p] \in {Torn(r), Whole(r)}
  /\ \A e \in effects : e.run \in DOMAIN ran

\* The files that close a script, or a part of it that stands alone.
Seals(h) ==
  CASE h = "action"      -> {"identity"}
    [] h = "target"      -> {"m2-identity", "active.sqlite", "target-result"}
    [] h = "controller"  -> {"controller-result"}
    [] h = "fixture"     -> {"gateway", "receipt"}
    [] h = "capture"     -> {"occurrence"}
    [] h = "observation" -> {"nqd-ops.toml", "attention.toml"}
    [] h = "preparation" -> {"preparation-finished", "ports-finished",
                             "preparation-status", "cycle-request",
                             "caller"}
    [] h = "closure"     -> {"closure", "terminal"}
    [] OTHER             -> {}

\* What a seal stands for: its readers take the others to be there and to go
\* with it. Some stand for nothing but themselves.
Vouched(c) ==
  CASE c = "identity" ->
         {"issuer.pem", "issuer.pk8", "docket-trust", "resolvers",
          "template", "plan-enrollment", "catalog", "enrollment",
          "runtime-profile", "effectd.deployment", "plans"}
    [] c = "m2-identity" ->
         {"fixture.service", "nq.toml", "subject", "private", "issuer.pem",
          "issuer.pk8", "trust", "resolvers"}
    [] c = "active.sqlite" ->
         {"before", "mandates", "catalog", "enrollment", "runtime-profile",
          "effectd.deployment", "plan", "pulse-before", "before-pulse",
          "cycle"}
    [] c = "controller-result" ->
         {"controller-after", "pulse-after", "after-pulse",
          "controller-query"}
    [] c = "target-result" ->
         {"before", "target-after", "active.sqlite", "runtime-profile",
          "plan", "execution-standing", "standing.enrollment"}
    [] c = "gateway" ->
         {"owned", "OWNERSHIP", "request", "admission", "live-cohort"}
    [] c = "receipt" -> {"gateway", "loopback.conf", "candidate"}
    [] c = "preparation-finished" ->
         {"maude-plan", "preparation-started", "plans.sqlite", "binding",
          "validator-config", "handoff", "executor-state", "executor-config",
          "plan-validation"}
    [] c = "ports-finished" ->
         {"ports", "ports-started", "launchers", "docket-standing-config",
          "issuer-seed", "issuer.pk8", "docket-root-enrollment"}
    [] c = "preparation-status" ->
         {"owner", "review-material", "cycle-config", "genesis"}
    [] c = "closure" ->
         {"checkpoint", "wheel-requirements", "requirements.lock", "venv",
          "switchyard-source", "built"}
    [] c = "terminal" ->
         {"records-checkpoint", "inputs.sha256", "closure",
          "allocation-final"}
    [] OTHER -> {}

\* The one file of them all that a later run may write again under a whole
\* seal: a second observe-controller collects its artifact anew before the
\* custody directory refuses it.
Exposed == {"controller-after"}
Kept(c) == Vouched(c) \ Exposed

\* A rerun after a failed enrollment could keep a key, a profile or a
\* subject of the failed run. A file that closes a script is there whole
\* only with everything it stands for, all of its own run; the artifact that
\* the controller's result names is the exception (Exposed).
SealVouches ==
  \A c \in Seals(host) :
    IsWhole(c) => \A p \in Kept(c) : files[p] = files[c]

\* The runbook says that the exact NQ artifacts are adjacent to the result
\* of the target and to that of the controller. Whoever reads a result, with
\* no script running, finds beside it the artifact it names, not another's.
Artifacts == {"before", "target-after", "controller-after"}
ExactArtifactsAdjacent ==
  job = Idle =>
    \A c \in Seals(host) \cap {"target-result", "controller-result"} :
      \A p \in Vouched(c) \cap Artifacts :
        IsWhole(c) /\ IsWhole(p) => files[p] = files[c]

\* Once a seal, a campaign or a captured response is on the host, even half
\* written, no later invocation rewrites it or what it stands for, Exposed
\* apart.
ClaimHolds ==
  [][\A c \in Seals(host) :
       /\ IsWhole(c) => files'[c] = files[c]
       /\ files[c] # Nothing =>
            \A p \in Kept(c) : files'[p] = files[p]]_vars

\* What an effect read that its own script does not make: it was handed it.
Handed(e) == DOMAIN e.read \ MadeBy(ran[e.run])

\* Of the files its own script makes, a native program acts on this run's.
EffectsUseTheirOwnRun ==
  \A e \in effects : \A p \in DOMAIN e.read \ Handed(e) : e.read[p] = e.run

\* What it is handed on the target is of the preparation whose seal is on the
\* host. A controller has no such seal: see PrepareController.
EffectsUseOneEnrollment ==
  \A e \in effects : \A p \in Handed(e) :
    \/ host = "controller"
    \/ host = "target" /\ files["m2-identity"] = Whole(e.read[p])

\* What a native program acts on belongs together, however often the scripts
\* were stopped and run again. Files its own script makes are of this run,
\* never left by an earlier one: a cycle never pairs one tick's configuration
\* with another's request, a grant never inherits a used journal. Only the M2
\* scripts act on what an earlier script prepared: on the target subject,
\* configuration, key, trust and resolvers are all of the one preparation
\* whose identity is there.
InputsBelongTogether == EffectsUseTheirOwnRun /\ EffectsUseOneEnrollment

\* A dispatch, an acquisition, an apply, a download happens at most once on a
\* host, however often its script is stopped and run again.
EffectOnce ==
  \A e, f \in effects :
    e.by = f.by /\ e.by \in {"dispatch", "acquire", "apply",
                                   "download"} => e = f
=============================================================================
