----------------------------- MODULE StatusSite -----------------------------
(* The renderer of the status site (render_status.py) under its timer and  *)
(* its oneshot unit.  A render fixes its own time, loads its inputs one    *)
(* after the other, each with a timeout of its own, and then publishes     *)
(* projection.sqlite, status.json, render-timings.json and index.html, in  *)
(* that order, each by an atomic replacement.  The unit stops a render     *)
(* that takes too long; a crash stops it anywhere.                         *)
(*                                                                         *)
(* Of a document only what its readers decide on is kept.  The TLS probe   *)
(* is off (the unit passes --no-tls).  The shipped numbers, in seconds:    *)
(* NqLimit 60, CheckLimit 20, BuildLimit 10, Builds 6, RenderLimit 120,    *)
(* Period 300, ReportMaxAge 900, StaleAge 900.                             *)
EXTENDS Integers

CONSTANTS
  NqLimit,       \* timeout of `nq status export`
  CheckLimit,    \* timeout of one `nq saved-check result`
  Checks,        \* results the newest saved-check run holds
  BuildLimit,    \* timeout of one version query
  Builds,        \* version queries of a render
  RenderLimit,   \* TimeoutStartSec of the unit
  Period,        \* OnUnitActiveSec of the timer
  ReportMaxAge,  \* --report-max-age
  StaleAge,      \* the age at which StatusSiteRenderStale is pending
  MaxTime        \* bound on the clock, for checking

ASSUME LimitsAssumption ==
  /\ {NqLimit, CheckLimit, BuildLimit, RenderLimit, Period} \subseteq Nat \ {0}
  /\ {Checks, Builds, ReportMaxAge, StaleAge, MaxTime} \subseteq Nat

\* The unit's limit is within the period, and the age that counts as stale
\* leaves room for two periods and a render: 120 <= 300, 720 <= 900.
ASSUME RoomAssumption ==
  /\ RenderLimit <= Period
  /\ 2 * Period + RenderLimit <= StaleAge

VARIABLES
  clock,
  report,  \* report.json as the evaluator last left it
  render,  \* the running render: phase, its time, its outstanding call
  doc,     \* the document it builds, and its TIMINGS
  site,    \* the published files
  ended    \* how the last two renders ended, the last one first

vars == <<clock, report, render, doc, site, ended>>
-----------------------------------------------------------------------------
State == {"all_clear", "attention", "unknown"}
Loading == {"posture", "attention", "nqs", "saved", "nightshift", "builds"}
Publishing == {"projection", "status", "timings", "page"}
Calling == {"nqs", "saved", "builds"}
Ending == {"published", "write_failed", "raised", "crashed", "timed_out"}

Left == 0 .. 1 + Checks + Builds
Spent == 0 .. NqLimit + CheckLimit + BuildLimit
Time == 0 .. MaxTime
Run == 0 .. MaxTime
Report == [at : Time, active : BOOLEAN]
NoReport == [at |-> -1, active |-> FALSE]

\* One type invariant for the module.
TypeOK ==
  /\ clock \in Time
  /\ report \in Report \cup {NoReport}
  /\ render \in [phase : {"idle"} \cup Loading \cup Publishing, run : Run,
                  began : Time, left : Left, spent : Spent]
  /\ render.began <= clock
  /\ render.phase # "idle" => clock - render.began <= RenderLimit
  /\ doc \in [state : State, from : Time \cup {-1}, odd : BOOLEAN,
              nq : {"none", "ran", "expired"}, timed : BOOLEAN,
              error : BOOLEAN]
  /\ site \in
       [projection : Run,
        status : [run : Run, state : State, now : Time, error : BOOLEAN],
        timings : [run : Run, nq : {"none", "ran", "expired"},
                   timed : BOOLEAN],
        page : [run : Run, state : State]]
  /\ ended \in [last : Ending, before : Ending]

EmptyDoc ==
  [state |-> "unknown", from |-> -1, odd |-> FALSE, nq |-> "none",
   timed |-> FALSE, error |-> FALSE]

\* A first render has been published; the timer has just fired for it.
Init ==
  /\ clock = 0 /\ report = NoReport
  /\ render = [phase |-> "idle", run |-> 0, began |-> 0, left |-> 0,
               spent |-> 0]
  /\ doc = EmptyDoc
  /\ site = [projection |-> 0,
             status |-> [run |-> 0, state |-> "unknown", now |-> 0,
                         error |-> FALSE],
             timings |-> [run |-> 0, nq |-> "none", timed |-> FALSE],
             page |-> [run |-> 0, state |-> "unknown"]]
  /\ ended = [last |-> "published", before |-> "published"]
-----------------------------------------------------------------------------
(* The phases of a render. *)

\* Mutant: the timings are published before the status they belong to.
AfterTimingsFirst(phase) ==
  CASE phase = "posture" -> "attention" [] phase = "attention" -> "nqs"
    [] phase = "nqs" -> "saved" [] phase = "saved" -> "nightshift"
    [] phase = "nightshift" -> "builds" [] phase = "builds" -> "projection"
    [] phase = "projection" -> "timings" [] phase = "timings" -> "status"
    [] phase = "status" -> "page"

After(phase) ==
  CASE phase = "posture" -> "attention" [] phase = "attention" -> "nqs"
    [] phase = "nqs" -> "saved" [] phase = "saved" -> "nightshift"
    [] phase = "nightshift" -> "builds" [] phase = "builds" -> "projection"
    [] phase = "projection" -> "status" [] phase = "status" -> "timings"
    [] phase = "timings" -> "page"

\* The calls a phase begins with, when nothing it reads is missing.
CallsOf(phase) ==
  CASE phase = "nqs" -> 1 [] phase = "saved" -> Checks
    [] phase = "builds" -> Builds [] OTHER -> 0

LimitOf(phase) ==
  CASE phase = "nqs" -> NqLimit [] phase = "saved" -> CheckLimit
    [] phase = "builds" -> BuildLimit [] OTHER -> 0

Enter(phase) ==
  render' = [render EXCEPT !.phase = phase, !.left = CallsOf(phase),
                           !.spent = 0]

\* The run is over and its memory is gone.
End(how) ==
  /\ render' = [render EXCEPT !.phase = "idle", !.left = 0, !.spent = 0]
  /\ doc' = EmptyDoc
  /\ ended' = [last |-> how, before |-> ended.last]
-----------------------------------------------------------------------------
(* The timer and the unit. *)

\* The timer counts from the start of the last render and never overlaps.
Due == render.phase = "idle" /\ clock - render.began >= Period

Start ==
  /\ Due
  /\ render' = [phase |-> "posture", run |-> render.run + 1,
                began |-> clock, left |-> 0, spent |-> 0]
  /\ doc' = EmptyDoc
  /\ UNCHANGED <<clock, report, site, ended>>

\* Mutant: a oneshot unit has no limit of its own.
OverTimeNever == FALSE

OverTime == render.phase # "idle" /\ clock - render.began = RenderLimit

StopRender ==
  /\ OverTime
  /\ End("timed_out")
  /\ UNCHANGED <<clock, report, site>>

Crash ==
  /\ render.phase # "idle"
  /\ End("crashed")
  /\ UNCHANGED <<clock, report, site>>

\* Time passes between renders and while a call is outstanding, never past
\* the instant at which the timer or the unit acts.
Tick ==
  /\ clock < MaxTime /\ ~Due /\ ~OverTime
  /\ \/ render.phase = "idle" /\ UNCHANGED render
     \/ /\ render.left > 0 /\ render.spent < LimitOf(render.phase)
        /\ render' = [render EXCEPT !.spent = @ + 1]
  /\ clock' = clock + 1
  /\ UNCHANGED <<report, doc, site, ended>>
-----------------------------------------------------------------------------
(* The inputs. *)

\* The attention evaluator's pass replaces report.json.
Evaluate ==
  /\ report.at # clock
  /\ report' \in [at : {clock}, active : BOOLEAN]
  /\ UNCHANGED <<clock, render, doc, site, ended>>

\* report.json is missing, unreadable or of another schema.
LoseReport ==
  /\ report # NoReport /\ report' = NoReport
  /\ UNCHANGED <<clock, render, doc, site, ended>>

\* Mutant: the age of the report does not matter.
StateOfAnyAge(r) ==
  IF r = NoReport THEN "unknown"
  ELSE IF r.active THEN "attention" ELSE "all_clear"

\* Ages are measured at the time the render began.
StateOf(r) ==
  IF r = NoReport \/ render.began - r.at > ReportMaxAge THEN "unknown"
  ELSE IF r.active THEN "attention" ELSE "all_clear"

\* An odd document holds a value that is kept as it is and is no string.
LoadAttention ==
  /\ render.phase = "attention"
  /\ \E odd \in BOOLEAN :
       doc' = [doc EXCEPT !.state = StateOf(report), !.from = report.at,
                          !.odd = odd /\ report # NoReport]
  /\ Enter(After("attention"))
  /\ UNCHANGED <<clock, report, site, ended>>

\* The host posture and the Nightshift store: local reads.  A Nightshift
\* status that is not a string is kept; every posture field is converted.
LoadLocal ==
  /\ render.phase \in {"posture", "nightshift"}
  /\ \E odd \in IF render.phase = "nightshift" THEN BOOLEAN ELSE {FALSE} :
       doc' = [doc EXCEPT !.odd = @ \/ odd]
  /\ Enter(After(render.phase))
  /\ UNCHANGED <<clock, report, site, ended>>

\* nq is not on PATH, latest.json or the programs are missing, or every call
\* of the phase has ended.
LeaveCalls ==
  /\ render.phase \in Calling
  /\ render.left \in {0, CallsOf(render.phase)} /\ render.spent = 0
  /\ Enter(After(render.phase))
  /\ UNCHANGED <<clock, report, doc, site, ended>>

\* The wall time is taken when the command has returned, whatever its code.
Measured(d) == [d EXCEPT !.nq = "ran", !.timed = TRUE]

\* A command returns, with a document, an error or nonsense.
CallAnswers ==
  /\ render.phase \in Calling /\ render.left > 0
  /\ \E odd \in IF render.phase = "builds" THEN {FALSE} ELSE BOOLEAN :
       LET d == [doc EXCEPT !.odd = @ \/ odd]
       IN doc' = IF render.phase = "nqs" THEN Measured(d) ELSE d
  /\ render' = [render EXCEPT !.left = @ - 1, !.spent = 0]
  /\ UNCHANGED <<clock, report, site, ended>>

\* A command is killed at its timeout; the exception is caught.
CallExpires ==
  /\ render.phase \in Calling /\ render.left > 0
  /\ render.spent = LimitOf(render.phase)
  /\ doc' = IF render.phase = "nqs" THEN [doc EXCEPT !.nq = "expired"] ELSE doc
  /\ render' = [render EXCEPT !.left = @ - 1, !.spent = 0]
  /\ UNCHANGED <<clock, report, site, ended>>
-----------------------------------------------------------------------------
(* Publication. *)

\* projection.sqlite is built aside and moved into place, or the failure is
\* noted in the document and the old one stays.
PublishProjection ==
  /\ render.phase = "projection"
  /\ \E error \in BOOLEAN :
       /\ doc' = [doc EXCEPT !.error = error]
       /\ site' = IF error THEN site
                  ELSE [site EXCEPT !.projection = render.run]
  /\ Enter(After("projection"))
  /\ UNCHANGED <<clock, report, ended>>

PublishStatus ==
  /\ render.phase = "status"
  /\ site' = [site EXCEPT !.status =
                [run |-> render.run, state |-> doc.state,
                 now |-> render.began, error |-> doc.error]]
  /\ Enter(After("status"))
  /\ UNCHANGED <<clock, report, doc, ended>>

PublishTimings ==
  /\ render.phase = "timings"
  /\ site' = [site EXCEPT !.timings =
                [run |-> render.run, nq |-> doc.nq, timed |-> doc.timed]]
  /\ Enter(After("timings"))
  /\ UNCHANGED <<clock, report, doc, ended>>

PublishPage ==
  /\ render.phase = "page" /\ ~doc.odd
  /\ site' = [site EXCEPT !.page = [run |-> render.run, state |-> doc.state]]
  /\ End("published")
  /\ UNCHANGED <<clock, report>>

\* The page escapes strings only.
PageRaises ==
  /\ render.phase = "page" /\ doc.odd
  /\ End("raised")
  /\ UNCHANGED <<clock, report, site>>

\* A temporary file cannot be written or moved into place.
WriteFails ==
  /\ render.phase \in {"status", "timings", "page"}
  /\ End("write_failed")
  /\ UNCHANGED <<clock, report, site>>
-----------------------------------------------------------------------------
RenderStep ==
  \/ LoadAttention \/ LoadLocal \/ LeaveCalls \/ CallAnswers \/ CallExpires
  \/ PublishProjection \/ PublishStatus \/ PublishTimings \/ PublishPage
  \/ PageRaises \/ WriteFails

Next ==
  \/ Start \/ StopRender \/ Crash \/ Tick \/ Evaluate \/ LoseReport
  \/ RenderStep

Spec == Init /\ [][Next]_vars
-----------------------------------------------------------------------------
(* Properties. *)

\* Whatever stops a render and wherever, the page never shows a render that
\* the timings do not have, nor the timings one that status.json does not
\* have; a status that mentions no projection error has its projection, or
\* a later one; and a render that ended by itself left nothing of an older
\* one (render_status.py main).
PublishedInOrder ==
  /\ site.page.run <= site.timings.run /\ site.timings.run <= site.status.run
  /\ site.page.run = site.status.run => site.page.state = site.status.state
  /\ IF site.status.error THEN site.projection # site.status.run
                          ELSE site.projection >= site.status.run
  /\ render.phase = "idle" /\ ended.last = "published" =>
       site.page.run = render.run

\* An all-clear is published only on a report that was evaluated, at that
\* moment, no longer ago than the report's limit and a render's together,
\* however long the inputs read after it took (load_attention, build_status).
AllClearIsRecent ==
  [][site'.status # site.status /\ site'.status.state = "all_clear" =>
       /\ doc.from # -1
       /\ clock - doc.from <= ReportMaxAge + RenderLimit]_vars

\* StatusSiteRenderStale waits for StaleAge: one lost render, after a slow
\* one, is not enough to reach it (timer, unit and alert rule).
StaleMeansTwoLost ==
  clock - site.status.now > StaleAge =>
    {ended.last, ended.before} \cap {"published", "raised"} = {}

\* "An input must never crash the render" (render_status.py:105): no
\* render is lost to the time its inputs take.
InputsNeverStopTheRender == ended.last # "timed_out"

\* The export's wall time is recorded "even when the command fails"
\* (observability/README.md): a render that ran the command publishes it.
DurationRecorded == site.timings.nq # "none" => site.timings.timed
=============================================================================
