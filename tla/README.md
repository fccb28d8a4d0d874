# Verification of the constellation reference site

TLA+ models of the programs under `src/constellation`, the TLC runs that check them on small
instances, and TLAPS proofs of what matters most for every value of the constants.
Paths below are relative to `src/`; `RLC` stands for
`constellation/examples/reviewed_local_copy` and `OBS` for
`constellation/combined-candidate/observability`.

The repository is a website with a body of operational programs kept beside it. Most of its
files are pages and evidence; its own logic is in a few Python programs that drive native
programs (`nq`, `nightshift`, `ag`, `foreman`, `docket`, a review provider) which are not in
this repository. Those native programs are modelled from how these programs use them.

## 1. Inventory

| Component | Code | State it keeps | Operations |
|---|---|---|---|
| Reviewed local copy caller | `RLC/reviewed_action.py`, `continue_reviewed_action.py`, `prepare_review_candidate.py`, `prepare_finite_run.py` | a lock file per owner directory; per invocation an output directory of started and finished records, retained outputs, one terminal; a mandate | the modes `execute`, `review-only`, `continue`, `recover`, `inspect` |
| Native call collector | `RLC/reviewed_action.py`, `Caller.call` | the started record, two kept streams, the finished record | one native call under an output bound and a deadline |
| Status site renderer | `OBS/status-site/render_status.py`, its unit and timer | `projection.sqlite`, `status.json`, `render-timings.json`, `index.html` | a render every 300 s |
| Textfile exporter | `OBS/exporter/constellation-textfile-exporter.py`, its unit and timer | one `.prom` file | a run every 60 s |
| Alert rules | `OBS/central/rules/constellation-beta.rules.yml` | vmalert's pending times | an evaluation every 30 s |
| Site adapter | `combined-candidate/site-adapter` | the posture artifact, `pulse-load-support`, the request it names as `current` | `tick.sh`, `build_request.py`, then the cycle |
| Canary enrollment | `combined-candidate/scripts`, `try` | configurations, a key, an identity, grants with a journal directory each, ownership of the fixture | `ag-docket`, `grant`, `mandate`, `consumer-config`, `nq-config`, `attention-config`, the two fixtures, `try` |
| M2 candidate target | `constellation/m2-candidate/m2.py` | an identity and its keys, a campaign database, custody directories | `prepare-target`, `run-target`, `prepare-controller`, `observe-controller` |
| Integration contract | `tools/integration_contract` | none: one document is read, judged and reported on | load, validate, preflight of every operation and of the integration |
| Objective occurrence capture | `examples/capture_objective_occurrence.py` | the retained response, a sealed copy of its checker | fetch, retain, accept |
| Reviewed local copy preparation | `RLC/prepare_plan.py`, `prepare_local_ports.py`, `prepare_owner.py`, `seal_admission.py`, `enroll_caller.py` | a plan, ports and an owner directory, an admission request, the caller's configuration, all created exclusively | five one-shot scripts, each reading what earlier ones left |
| Python closure seal | `RLC/prepare_public_python_closure.py`, `run_public_python_closure_001.sh` | an owner root with a sealed environment, a records directory | one build with one download |
| Checks and page renderers | `tools/check_*.py`, `tools/render_*.py` | none | one-shot |

**Interaction.** Two operators (or one operator twice) may start callers over the same owner
directory; they meet at the lock and at the records the native programs keep there. A caller
runs its native programs through the collector and decides on their answers. The attention
evaluator (not in this repository) writes `report.json`; the posture publisher writes its
artifact; the renderer reads both and publishes; the exporter reads what the renderer
published, and the alert rules read what the exporter wrote. There are no calls between those
programs: only files, replaced atomically one at a time, and timers that may stop. The owner's
scripts meet only through what an earlier run left on the host: a script that finds a file of
another one cannot tell whether the run that wrote it ended. The contract tool reads a document
its author may be saving, and reports per operation what blocks it, and for the document
whether its wiring is complete.

**Hard behaviours.** For the caller: a crash or a timeout between any two steps, a native
program that outlives its caller, an answer lost after the act it reports, deadlines that pass
while a program runs, and two invocations racing. For the collector: two pipes, a bound, a
deadline, a helper that keeps a pipe open. For the renderer: four files published one by one
under a time limit that no input knows of. For exporter and alerts: any of the programs
stopping, and an input that vanishes together with the series its alert needs. For the
owner's scripts: none of them rolls back, each may stop between any two file operations and is
then run again. For the contract: chains and cycles of evidence, receipts that an operation
waits for and is itself to produce, and an exclusion several operations declare, each in its
own entry. For a file that is read: a save between two of the reader's calls.

**What makes each correct.** One provider request, one grant, one spend, one copy, one
settlement for one occurrence, authority that never outlives the review it rests on, and
evidence on disk before an act (caller). A finished record only for complete output, no child
left, no wedge (collector). Files in order, an all-clear only on a recent report (renderer).
Marks that agree with the samples, no silent staleness (exporter and alerts). The file that
closes a script vouches for the others, all of one run, and an effect happens once and on its
own run's inputs (scripts). An operation is released only on accepted evidence down to its last
issuer, a complete contract never waits on itself, and facts do not change what is said of the
wiring (contract). What is accepted is one version somebody saved (file reads).

The hazards this code is exposed to are listed, each at its line and with the properties that
cover it, in `PROJECT.json`.

## 2. Modules

| Module | Models | Relation |
|---|---|---|
| `Occurrence` | abstract: the promise of the reviewed copy, without callers, locks, records or time | |
| `NativeCall` | abstract: what a native call promises its caller | |
| `ReviewedAction` | the callers, all modes, over one owner directory, with the native programs | implements `Occurrence` and, for each invocation, `NativeCall` |
| `Collector` | one native call, byte counts and process life included | implements `NativeCall` |
| `StatusSite` | one renderer under its timer and unit | |
| `Exporter` | operators: registry, guard, sections of the status document | used by `Monitoring` |
| `Monitoring` | posture publisher, renderer, exporter and alert rules on their timers | composes the three programs |
| `Contract` | operators: what `validate_contract` accepts | |
| `Preflight` | operators: blockers of an operation and of the integration | extends `Contract` |
| `Draft` | a document under edits and the report on each state of it | extends `Preflight` |
| `HostScripts` | the owner's scripts as step sequences, run, stopped and run again on one host | |
| `FileReads` | `load_contract` and `sealed_checker` against concurrent saves | |
| `RecursionTheorems` | induction and recursion along a well-founded relation, over sets | used by `Draft_proofs`, `Monitoring_proofs` |
| `MC*` | instances for TLC; `MCDraft` holds the documents and edits, `MCHost` composes `HostScripts` and `FileReads` | |
| `*_proofs` | theorems, checked by TLAPS | |

### ReviewedAction

State: `now` (one tick is 30 s), `lock` (holder of `reviewed-action-caller.lock`), `proc[c]`
(an invocation's mode, stage, the deadlines it computed, the state of its native program),
`out[c]` (its output directory: started and finished records, the retained verdict, candidate
and times, the terminal) and `owner` (what the native programs keep: AG state, Foreman
initialised, provider requests, review custody, mandate, grants, spends, attempts, copies,
settlement).

Actions: `StartFresh`, `StartContinue`, `StartRecover` are `main` and `continue_...` up to the
first native call, the lock included; `Begin` writes the started record, `Spawn` runs the
program, `Collect` judges its answer and moves to the `Successor` stage, `CollectRefusal` and
`Abandon` are its refusal and its timeout, `OpenMandate` and `FillMandate` the exclusive
creation and the write of the mandate, `PrepareRun` the run input, `RefuseNext` a guard that
fails before the next call, `Finish` the terminal of success, `Crash` a caller that dies
anywhere. The `Native...` and `Run...` actions are the programs; they run on when their caller
is gone (`Orphan`), and each may answer, refuse, or act and never answer.

What is abstracted: digests, pins and contents (what a stage decides on is kept, e.g. the
verdict and the proposal's state); requiring standing, the brief and the other checks inside a
native stage are part of that stage; run input and run identity are one step; a torn started
or finished record counts as the record it was to become or as absent, not as a third case.
The five owners' programs are external: they refuse an operation whose precondition in the
owner's state fails, which is what the stages rely on.

### Collector

State: per stream the writers holding it, bytes written, in the pipe, kept and on disk; the
registered and the ready streams; the program, its helper; the clock of the call; the finished
record. The actions follow `Caller.call` statement by statement: `Announce`, `FailEarly`,
`Spawn`, `Select`, `ReadBlock`, `BoundExceeded`, `ReadEnd`, `WaitForExit`, `WaitTimedOut`,
`CollectionTimedOut`, `Cleanup` (TERM), `GraceOver` (KILL), `Reap`, `Close`, `Record`. The
program and its helper write, close and exit as they like.

### StatusSite

State: the clock, `report` (as the evaluator left it), `render` (phase, the time it fixed, its
outstanding call), `doc` (what it has loaded), `site` (the four published files, each with the
run it is from) and `ended` (how the last two renders ended). The phases are the calls of
`build_status` and then the four writes of `main`, in their order; a call answers or expires
at its own limit; `StopRender` is `TimeoutStartSec`, `Start` the timer. `odd` is a value that
passes through unconverted and is no string: the page's escaping raises on it
(`PageRaises`), after `status.json` was published. Local reads and writes take no time; the
Nightshift store's own wait for a lock (5 s) is left out, and every bound on a render's
duration comes from the unit's limit, not from the sum of its inputs.

### Exporter and Monitoring

`Exporter` has the registry as families of samples, `Guarded` (the snapshot and rollback of
`guard`), `WithStatus` (`load_optional`, `c_status` and the posture and TLS sections) and
`Collect`. An input read by a collector of its own is a member of `Plain`; the collectors are
not told apart beyond the family they write, since `guard` treats them alike. `Monitoring`
makes a render and an export one step each (a run that fails to write changes nothing and is a
stutter) and adds the rules. One tick is one evaluation; ages are capped one past the largest
limit any rule compares with; `SiteAssumption` relates the shipped limits. Left out: the scrape itself and its `up` series, and the
fallback file, which needs a document the shipped renderer never writes or exhausted memory.

### Contract, Preflight and Draft

A document is a record of collections, each a function from ids (so an id is unique, which the
validator checks first). `ValidContract` is the conjunction of the validator's checks in its
own groups: sources, authorities, the execution boundary with its delegates, exclusions and
technical facts (`BoundaryOK`), gates, credentials, receipts with their semantic roles
(`RoleOK`), the evidence of attempts and phases (`EvidenceOK`), resources, privacy, repair,
recovery, cleanup, references between operations, the direction of receipts (`DirectionsOK`),
the interface closure and the assessment. `Blockers` is `preflight`'s list for one operation
as a set of `<<code, subject>>`; `IntegrationBlockers` selects the codes that make an
integration incomplete. `EvidenceSearch` is the search along issuers' evidence with its shared
`seen` set and its path, in the order the document lists the references: a recursive function
of a call (`Calls`: the references left, the path, what was seen), whose body is `Visit`; every
diagnostic of a receipt goes through it.

`Draft` has the document, the number of edits, the assessment time and the report of the last
run of the command line. `EditField` and `EditPart` change one field of one entry or one whole
part, `Reassess` is a later run. Left out of the documents: texts, formats and the types of
single values; `None` is JSON null and `Undeclared` an absent key. An execution boundary's
overclaims are a set of names, empty in a valid document.

### HostScripts

State: the host, `files` (absent, torn or whole, and the run that wrote it), the script under
way with its next step, the scripts started so far, and `effects` (what a native program did,
and the run of every file it was given, by path or by digest in its configuration). A script is the sequence of its steps: `Absent` and
`Needs` are the existence checks, `Claim` a `mkdir` that refuses what is there, `Once` a file
made if missing, `Writes` an open that truncates, `Exclusives` an exclusive creation,
`Retain` the capture's creation with its clean-up, `Replace` a write under another name and a
rename, `Effect` a native program. Every write is two steps (`BeginFile`, `FillFile`), so a
stop leaves a torn file; `Fail` is a refusal or a failed write, `Crash` the host going down.
The preparation of a reviewed copy and the Python closure are hosts of their own here: their
scripts claim a directory, fill it exclusively and write the record that closes it last. The
closure's seal is written before the last check, of the space it takes, so a seal says nothing
of that; the record with exit code 0 does. `Retire` is the owner taking a grant away, `UseGrant` the resolver spending a use of it.
The stamps stand for contents: two files of one run agree on key, subject and digests, two of
different runs need not. An effect acts on files its own script made (`MadeBy`) and on files an
earlier script handed it (`Handed`). Only the M2 scripts hand files on: `acquire` is given the
subject and `nq.toml` of the preparation beside its own baseline, custody and configuration
(`Bound`), `cycle` and `dispatch` the resolvers, the trust file and the issuer's key. On the
target the identity, written last, keeps all of these of one preparation. On the controller
nothing does: a `prepare-controller` that stops between its two writes (`m2.py:196`, 54) leaves
a new subject beside an old `nq.toml`, the model reaches that state and the next acquisition
takes both, and `InputsBelongTogether` names the controller as its exception. Nor does anything
keep `controller-after`: a second `observe-controller` collects it anew (`m2.py:198`) before its
custody directory refuses the run (201, 110), so it belongs to what the result stands for
(`Vouched`) and is the one file of them that is not kept (`Exposed`); `controller_rerun` shows
it, and `SealVouches` and `ClaimHolds` say everything else. NQ's own store and the other native
programs' are theirs. Files of one kind written in a row and read by the same readers are
one path where nothing separates them (`resolvers`, `plans`).

### FileReads

State: what each inode holds with its modification time, the inode the path names, a save
under way, the file system's clock, which does not tick at every write, and the reader. A save
renames a new file over the path (an inode number nobody holds may come back) or truncates the
file and fills it piece by piece. The reader takes a first look (`LStat`, the contract tool
only), opens, reads a piece per call and judges: the tool compares inode, size and times
before and after, the capture the digest of what it read, of which it then runs a sealed copy.

## 3. Runs

| Run | Shows |
|---|---|
| `reviewed_action` | two invocations in any mode: `OneProviderRequest`, `OneGrant`, `AuthorityWithinReview`, `SpendWithinOriginalDeadline`, `NoAuthorityWithoutAcceptedReview`, `EvidencePrecedesEffect`, `SuccessIsSettled`, `ReviewOnlyClaimHolds`; that it implements `Occurrence` and follows `NativeCall` |
| `reviewed_live` | every invocation ends, whatever its programs do |
| `reviewed_rejection` | *violation*: a rejected review never reaches the terminal promised for it |
| `collector` | a finished record vouches for complete output, no child is left, every call ends (`CallEnds`), both streams of a program that does its part are drained (`DrainsBothStreams`), with pipes smaller than its output; the call contract is implemented |
| `status_site` | files published in order, all-clear only on a recent report, stale means two lost renders |
| `status_stopped` | *violation*: inputs within their own limits stop the render |
| `status_timings` | *violation*: an export killed at its timeout leaves no duration |
| `monitoring` | a stale posture and a stale site are never silent for long; marks agree with samples |
| `monitoring_tls` | *violation*: a probe that is switched off raises an alarm |
| `contract` | over every document two edits away from two complete ones: an unblocked operation rests on accepted evidence (`PermittedIsSupported`), the search misses nothing and reports cycles exactly (`SearchIsExact`), a complete contract never waits on itself (`CompleteNeverWaitsOnItself`), an exclusion is declared alike by all that share it (`ReservationIsShared`); facts leave the wiring's report alone, settling one never blocks, and a receipt reaches only those that wait for it |
| `host_scripts` | every script stopped anywhere and run again: `SealVouches`, `ClaimHolds`, `InputsBelongTogether`, `EffectOnce`; a file read while it is saved: `AcceptedIsOneVersion` |
| `controller_rerun` | *violation*: a second `observe-controller` leaves the finished result beside another run's artifact |

**Bounds.** Two callers are enough for every race at the lock and for an orphan of one acting
in the middle of the other. The reviewed clock runs to 5 ticks with a review reserve of 2, a window of 3 and
a reserve of 1, so that each of the four terms of the window's end is the least in some run
and each deadline is met exactly, missed and made. The collector's pipe, block, bound and
output are chosen so that the bound is met exactly and exceeded by one, and a read takes part
of a pipe. `StatusSite` has a call of each kind, limits 2, 1 and 1 under a unit limit of 3
(shipped: 60, 20, 10 under 120), a period of 4 (300) and a stale age of 11 (900), the least
its assumption allows; 12 ticks hold three periods. `Monitoring` has no bound on time: its ages are capped; its waiting
times are small, and `Notice` and `Patience` are tight (one less is violated). `contract` makes two
edits (`MaxEdits`): one breaks the wiring or a fact, the second combines with it or repairs
it, and the time is before or at a boundary (`MaxNow`); its two documents are one whose operations
wait for each other's evidence through two issuers and one whose two effect operations want
the same exclusion. `host_scripts` runs four scripts on a host (`MaxRuns`): one that
fails, one that runs again, one in between and one after; five on the preparation's, which
takes five; hosts share no file, so each is explored on its own.
`FileReads` has two versions of two pieces, three inodes (the one read, the one the path names now, one to come back) and two clock ticks. Deadlock is not checked in
the runs whose clock, edits or scripts are bounded and whose invocations or call end.

**Fairness.** `reviewed_live` assumes weak fairness of each caller's own steps
(`CallerStep`): it is a running process whose waits all have a deadline. The native
programs owe nothing. `collector` assumes it of the caller's steps; its two liveness properties
say themselves what else they need. `CallEnds` holds if time passes and a process that was sent
KILL dies (`TimePasses`), whatever the program does; `DrainsBothStreams` does without the
clock and holds if the program writes what it has begun to write, exits and starts no helper
(`ProgramDoesItsPart`). No other run needs any.

**Findings** (each run shows the disagreement; the quotes are in `PROJECT.json`):
a rejected review ends in an error terminal because the projection raises before the
verifier is asked, although `RLC/README.md` promises a review-only result; the renderer's calls
each have a timeout but their sum may pass the unit's limit, although "an input must never
crash the render"; the export's duration is not recorded for an export that times out; the
shipped `--no-tls` makes `ExporterInputUnreadable` fire for ever; the runbook has readers find
the exact NQ artifacts beside the results, but a second `observe-controller` replaces the one that the
controller's result names before anything refuses it.

## 4. Proofs

TLAPS proves, for every value of the constants that satisfies the modules' assumptions:

| Theorem | Statement |
|---|---|
| `ReviewedAction_proofs!TypeCorrect` | `Spec => []TypeOK` |
| `ReviewedAction_proofs!LockExcludes` | at most one invocation runs at a time |
| `ReviewedAction_proofs!AskedOnce` | `Spec => []OneProviderRequest` |
| `ReviewedAction_proofs!GrantedOnce` | `Spec => []OneGrant` |
| `ReviewedAction_proofs!AuthorityBounded` | `Spec => []AuthorityWithinReview` |
| `ReviewedAction_proofs!SpentInTime` | `Spec => []SpendWithinOriginalDeadline` |
| `ReviewedAction_proofs!AcceptedBeforeAuthority` | `Spec => []NoAuthorityWithoutAcceptedReview` |
| `ReviewedAction_proofs!EvidenceFirst` | `Spec => []EvidencePrecedesEffect` |
| `ReviewedAction_proofs!SuccessSettled` | `Spec => []SuccessIsSettled` |
| `ReviewedAction_proofs!ClaimTrueWhenWritten` | `Spec => ReviewOnlyClaimHolds` |
| `ReviewedAction_proofs!OccurrenceImplemented` | `Spec => ImplementsOccurrence` |
| `ReviewedAction_proofs!CallContractKept` | `Spec => FollowsCallContract` |
| `Collector_proofs!CallTyped` | `Spec => []TypeOK` |
| `Collector_proofs!CallImplemented` | `Spec => ImplementsNativeCall` |
| `Collector_proofs!FinishedVouches` | `Spec => []FinishedIsComplete` |
| `Collector_proofs!ChildReaped` | `Spec => []NoChildLeft` |
| `StatusSite_proofs!TypeCorrect` | `Spec => []TypeOK` |
| `StatusSite_proofs!FilesInOrder` | `Spec => []PublishedInOrder` |
| `StatusSite_proofs!TwoLostWhenStale` | `Spec => []StaleMeansTwoLost` |
| `StatusSite_proofs!AllClearRests` | `Spec => AllClearIsRecent` |
| `FileReads_proofs!OneVersionAccepted` | `ReadSpec => []AcceptedIsOneVersion` |
| `HostScripts_proofs!TypeCorrect` | `Spec => []TypeOK` |
| `HostScripts_proofs!OnceOnAHost` | `Spec => []EffectOnce` |
| `HostScripts_proofs!InputsTogether` | `Spec => []InputsBelongTogether` |
| `HostScripts_proofs!SealsVouch` | `Spec => []SealVouches` |
| `HostScripts_proofs!ClaimsHold` | `Spec => ClaimHolds` |
| `Draft_proofs!TypeCorrect` | `Spec => []TypeOK` |
| `Draft_proofs!SearchExact` | `Spec => []SearchIsExact` |
| `Draft_proofs!PermittedSupported` | `Spec => []PermittedIsSupported` |
| `Draft_proofs!NeverWaitsOnItself` | `Spec => []CompleteNeverWaitsOnItself` |
| `Draft_proofs!ReservationsAreShared` | `Spec => []ReservationIsShared` |
| `Draft_proofs!WiringUntouched` | `Spec => FactsLeaveWiringAlone` |
| `Draft_proofs!SettlingHelps` | `Spec => SettlingNeverBlocks` |
| `Draft_proofs!IndependentStays` | `Spec => IndependentStaysIndependent` |
| `Monitoring_proofs!TypeCorrect` | `Spec => []TypeOK` |
| `Monitoring_proofs!StalePostureSeen` | `Spec => []StalePostureIsNotSilent` |
| `Monitoring_proofs!StaleSiteSeen` | `Spec => []StaleSiteIsNotSilent` |
| `Monitoring_proofs!MarksTrue` | `Spec => []InputMatchesFamilies` |

*AskedOnce.* `owner.requests <= 1` is not inductive: a second request is excluded by what
several parties remember. `RequestInv` adds that only the holder of the lock runs
(`MutualExclusion`); that every invocation is where its own records say (`InOrder`); that the
proposal never returns to its first state (`ProposalStays`), so that the first inspection
bars a second fresh invocation (`GenesisIsFirst`); that at most one invocation is past the
proposal (`OnlyOnePast`), the one whose orphan may still ask; and that a request is accounted for
by that invocation's stage or record (`RequestAccounted`).

*The caller's authority* (`ReviewedAction_proofs`, second part). None of these is inductive alone. `AuthorityInv`
is built in layers, each inductive relative to those before it: which stages a mode can be in
and which records an invocation that is there has left (`Routed`); that what it decided on is a
review some output retains (`Reviewed`); that AG's state says which acts were done (`Counted`);
that the window an invocation knows is the one computed from its times (`Windowed`); that the
one who holds the mandate is the one whose grant can exist (`Granting`); that mandate, grant
and run document fit the window, the review and the observation (`Bounded`); and that an act
has its records behind it (`Evident`). A crash, an orphan and a lost answer are steps like any
other: what an orphan may still do is said of the state of its program, not of its caller.

*Refinements.* A caller's step maps to a step of `Occurrence` when AG's state, a request, a
grant, a spend or a settlement changes, and to a stutter otherwise; the guards of the abstract
steps follow from `AuthorityInv`. `NativeCall` has one program, one finished record and one
answer per call; the stage of an invocation (`ReviewedAction`) or the program counter, process and record
(`Collector`) map to it, and the invariant of each says that the mapped guards hold.

*FinishedVouches and ChildReaped.* `CallInv` says stage by stage what is known: nothing before
the program is spawned, no byte lost and no open stream let go of in the loop, what `select`
reported still true at the read, an answer only with everything read, a record only with
everything on disk, and a program reaped before the pipes are closed.

*StatusSite.* `Inv` adds to the types that the timer keeps its pace (`Paced`), which file has
which run in each phase (`Ordered`), where an all-clear in the making comes from (`Sourced`)
and how far the published status can be behind the last start (`Behind`). The assumption
`RoomAssumption` (the unit's limit is within the period; two periods and a render are within
the stale age) is what the shipped numbers satisfy, and `TwoLostWhenStale` needs it.

*FileReads.* `ReadInv` says that every inode holds the head of one version (`Inodes`,
`Filling`) and that, while the opened inode shows the time it had at the opening and no write
hid in that tick, what was read is the beginning of what it holds (`ReadOfOpened`). Any other
write gives the inode a later time for good, since the clock never goes back; the comparison
after the last read needs nothing else.

*HostScripts.* What the proof needs of the scripts is static and checked script by script
(`InOrder`): no path is made twice (`Straight`), an effect's inputs are made before it by the
same script or are the ones the host's preparation hands it (`Fed`, `Given`), an effect that must not come twice stands behind a directory that only one run can claim (`Gated`), a seal
comes after its group (`Closes`), and every script that touches a sealed group is stopped
by what the group holds (`Barred`). `ScriptInv` says how far the run under way has come: what
it has made is there and its own (`Built`), what it looked for is missing or its own
(`Cleared`), what bears its stamp it made (`Own`), an effect has its gate behind it
(`GateKept`), and a seal, even a torn one, has its whole group, `Exposed` apart, of its own run
(`SealInv`). For what is handed over it adds that every file bears the stamp of a script that
makes it (`Stamped`) and that a `run-target` past its first step has met a whole identity
(`IdentityMet`): what the identity seals is then of its run (`SealInv`), and it is never
rewritten (`EnrolledInv`).
A step then is one of five moves (`Pass`, `Tear`, `Complete`, `Stop`, `Discard`), and the
invariant is proved per move.

*Draft.* The state's invariant is only that the report shown is the one of the document shown
(`Current`); the rest is about what `Report` computes of any document, of any size. Three
walks go along the evidence: the search of `receipt_diagnostics`, the work list of
`prerequisite_receipts`, and `Support`, which the properties use. All three are recursive
functions, so two things are proved of each: that a function satisfying its definition exists
(`RecursionTheorems!RecursionExists`: the calls decrease, for the search in the number of
receipts not yet seen and then in the references left), and, by induction on a set of
arguments, what it returns: the least set that holds the roots and the evidence of each of its
members. For the search the statement that is inductive says of every call what it adds to
`seen`, that a cycle it reports is one, and that below a receipt it has finished nothing rests
on itself unreported. `PermittedSupported` then reads off the parts of `Blockers` that nothing
is said of any root; `NeverWaitsOnItself` needs the validator's `GateOutputsOK` and a scope
gate for each prerequisite. The three action properties compare the reports on two documents
of equal `Wiring`: `Alike` lists what the report reads that then agrees, `NoWorse` what facts
must not lose, and one lemma per part of `Blockers` shows that a blocker after the edit was one
before it (`BlockersFollow`). `ShapeOK` and `StatesOK` are what these comparisons need of the
validator: which fields an entry has, and which values a fact can take.

*Monitoring.* `collect` is a fold over the inputs, again a recursive function: it exists by
`RecursionExists` (the inputs left are fewer), and by induction on the set of inputs gone
through, those are told apart by their marks and all the documents gave is as it was
(`ReadAfter`), in whatever order they come. That is `MarksTrue`, and it gives the other two what the
file says of the site (`Fresh`). `StalePostureSeen` needs that the document never has more left
than the artifact (`Believed`) and, while the file shows a posture, that the artifact has been
past its limit for no longer than the file's age or, once that is too old, than
`ExporterStale` has counted (`PostureHeld`). `StaleSiteSeen` needs more, since alerts may take
turns: a file whose document was read is of the site as it is or an older one, and one whose
document was not is older than any that is there now (`SiteRead`); a silence goes with an
exporter not yet known to have stopped (`SilenceEnds`); it is bounded by the count of the rule
that will end it (`SilenceCounted`), and the switch from an unreadable to a readable document
cannot carry a silence along, because the exporter's being stopped would have been reported
before. That takes `SiteAssumption`: ExporterStale's limit and waiting time are within
StatusSiteRenderStale's limit (shipped: 300 s and 5 m, 900 s). `TypeCorrect` and `MarksTrue` need
only that the inputs are finitely many.

Only model-checked: `EveryInvocationEnds`, `CallEnds` and `DrainsBothStreams`, which hold under
fairness and are out of TLAPS's reach.

## 5. Not modelled

*Integration contract:* types and formats of single values (a document of the model has the
shape the validator checks first), imports of other contracts, `repair_query`, wording and order
of diagnostics. *Enrollment and M2:* `check-canary-evidence.py` and `native-action.py` read and
print; `install.sh`, `inspect-candidate.sh` and the package steps of `try` unpack packages; the
native programs' own stores. *Site adapter:* which artifact is the newest and the arithmetic of
its slot. *Capture:* the bounds on the HTTP fetch. *Renderer:* timestamps ahead of the clock,
which have age 0 (`now` is the only clock of `StatusSite`). *Exporter:* its fallback file.
*Native calls:* an OSError between
`Popen` and the `try` (`reviewed_action.py:135-141`), which would leave the child running, and
write or sync errors on the kept output (151, 158, 160), which have no path of their own. *Caller:* a continuation's check of
its retained candidate and its taking of the lock are one step, the candidate being written
once; the inspection's answer is read when it is collected, and the comparison of the physical
result (323-328) is left out. *Contract:* `producerOperationRefs` is compared as a set.
The checks and page renderers under `tools/` are single passes over
repository files without state; of the preparation scripts and the closure, the contents
they assemble and compare, and the record the closure leaves of a failure; `spine-prework` holds identical earlier copies
of the monitoring programs; the central monitor is deployment files of third-party services;
the reader examples print. Pages, evidence files and releases are data.

## 6. Plan

Written, in this order: `Occurrence`, `NativeCall`, `ReviewedAction`, `Collector`,
`StatusSite`, `Exporter`, `Monitoring`, `Contract`, `Preflight`, `Draft`,
`HostScripts`, `FileReads`. Every invariant and every action property of the runs that pass has
its theorem. To come: shorter proofs where two components argue alike.
