--------------------------- MODULE ReviewedAction ---------------------------
(***************************************************************************)
(* The reviewed local copy: every invocation of reviewed_action.py and of  *)
(* continue_reviewed_action.py that an operator may start for one          *)
(* protected occurrence, and the native owners (AG, Foreman, provider,     *)
(* Docket, executor) those invocations call.                               *)
(*                                                                         *)
(* An invocation c \in Caller owns one fresh output directory, out[c].     *)
(* Its control state is proc[c].  owner is what the native owners hold     *)
(* and is shared by everybody.  A native call has four steps, so that a    *)
(* crash or a timeout may fall between any two of them: the started record *)
(* is written (Begin), the program is spawned (Spawn), the program acts    *)
(* (the Native actions, which go on after the death of the caller), and    *)
(* its answer is collected, recorded and judged (Collect).                 *)
(*                                                                         *)
(* One tick of the clock stands for 30 seconds.                            *)
(***************************************************************************)
EXTENDS Integers

CONSTANTS
  Modes,          \* what the operator may start
  Caller,         \* invocations, each with an output directory of its own
  NoCaller,       \* nobody
  MaxTime,        \* bound on the clock
  FreshUntil,     \* end of the original observation's and of Pulse's support
  ReviewReserve,  \* support that must remain before the paid review (230000)
  ReviewAge,      \* lifetime of a review from the provider's end
  MandateWindow,  \* longest mandate and grant (60000)
  Reserve         \* least time that must remain before an effect (30000)

ASSUME CallerAssumption == NoCaller \notin Caller

ASSUME TimeAssumption ==
  /\ MaxTime \in Nat /\ FreshUntil \in Nat /\ ReviewReserve \in Nat
  /\ ReviewAge \in Nat \ {0} /\ MandateWindow \in Nat \ {0}
  /\ Reserve \in Nat \ {0}

VARIABLES
  now,     \* the wall clock
  lock,    \* holder of reviewed-action-caller.lock
  proc,    \* control state and memory of each invocation
  out,     \* records each invocation left in its output directory
  owner    \* what the native owners hold

vars == <<now, lock, proc, out, owner>>

-----------------------------------------------------------------------------
(* Stages. *)

Mode == {"execute", "review-only", "continue", "recover", "inspect"}

ASSUME ModesAssumption == Modes \subseteq Mode

Inspections == {"initial-inspect", "admitted-inspect",
                "before-acceptance-inspect", "settled-inspect",
                "before-recovery", "after-recovery", "read-only"}

Freshness == {"before-review", "immediately-before-review",
              "before-permission"}

Verifications == {"native-review-verification",
                  "native-review-reverification"}

AgRuns == {"finite-run", "same-run-recovery"}

NativeStage == Inspections \cup Freshness \cup Verifications \cup AgRuns \cup
  {"nightshift-admission", "review-admit", "provider-run",
   "record-review-custody", "record-review", "permission-preflight",
   "operator-grant"}

Stage == NativeStage \cup {"mandate-create", "run-input"}

\* The stage a mode starts with.
First(m) ==
  CASE m \in {"execute", "review-only"} -> "initial-inspect"
    [] m = "continue" -> "before-acceptance-inspect"
    [] m = "recover" -> "before-recovery"
    [] OTHER -> "read-only"

\* Mutant: review-only goes on like execute.
AfterVerificationGoesOn(m) == "record-review"

\* Review-only stops before acceptance, grants, Docket and effects.
AfterVerification(m) == IF m = "review-only" THEN "end" ELSE "record-review"

\* The order of the calls in execute, continue and the recovery branch.
Successor(m, p) ==
  CASE p = "initial" -> First(m)
    [] p = "initial-inspect" -> "nightshift-admission"
    [] p = "nightshift-admission" -> "admitted-inspect"
    [] p = "admitted-inspect" -> "before-review"
    [] p = "before-review" -> "review-admit"
    [] p = "review-admit" -> "immediately-before-review"
    [] p = "immediately-before-review" -> "provider-run"
    [] p = "provider-run" -> "record-review-custody"
    [] p = "record-review-custody" -> "native-review-verification"
    [] p = "native-review-verification" -> AfterVerification(m)
    [] p = "before-acceptance-inspect" -> "native-review-reverification"
    [] p = "native-review-reverification" -> "record-review"
    [] p = "record-review" -> "before-permission"
    [] p = "before-permission" -> "mandate-create"
    [] p = "mandate-create" -> "permission-preflight"
    [] p = "permission-preflight" -> "operator-grant"
    [] p = "operator-grant" -> "run-input"
    [] p = "run-input" -> "finite-run"
    [] p = "finite-run" -> "settled-inspect"
    [] p = "before-recovery" -> "same-run-recovery"
    [] p = "same-run-recovery" -> "after-recovery"
    [] OTHER -> "end"

-----------------------------------------------------------------------------
(* State. *)

AgState == {"observation_required", "proposal_recorded", "review_recorded",
            "spent", "attempted", "settled_observation_required"}

Answer == AgState \cup {"none", "accepted", "rejected"}

NoMandate == 0       \* the mandate store does not exist
EmptyMandate == -1   \* created exclusively, its bytes not yet written

Process ==
  [mode : Mode \cup {"none"},
   status : {"idle", "running", "ended", "crashed"},
   phase : Stage \cup {"initial"},
   child : {"none", "recorded", "running", "exited", "refused"},
   source : Caller \cup {NoCaller},  \* retained review, or run to recover
   answer : Answer, when : Nat,      \* stdout of the native program
   issued : Nat, expires : Nat, permit : Nat]

Output ==
  [started : SUBSET Stage, finished : SUBSET Stage,
   terminal : {"absent", "ok", "error"},
   verdict : {"none", "accepted", "rejected"},   \* provider-run.json
   ended : Nat,
   candidate : Nat,                              \* record-review-input.json
   verified : {"none", "accepted", "rejected"},
   deadline : Nat]                               \* run-input-v2.json

Owner ==
  [ag : AgState, review : Nat, foreman : BOOLEAN, requests : Nat,
   mandate : Nat \cup {EmptyMandate}, grants : Nat, grantUntil : Nat,
   spends : Nat, spentAt : Nat, attempts : Nat, copies : Nat,
   outcome : {"none", "success", "indeterminate"}]

TypeOK ==
  /\ now \in Nat
  /\ lock \in Caller \cup {NoCaller}
  /\ proc \in [Caller -> Process]
  /\ out \in [Caller -> Output]
  /\ owner \in Owner

Idle ==
  [mode |-> "none", status |-> "idle", phase |-> "initial", child |-> "none",
   source |-> NoCaller, answer |-> "none", when |-> 0, issued |-> 0,
   expires |-> 0, permit |-> 0]

NoOutput ==
  [started |-> {}, finished |-> {}, terminal |-> "absent",
   verdict |-> "none", ended |-> 0, candidate |-> 0, verified |-> "none",
   deadline |-> 0]

\* A freshly provisioned AG genesis and nothing else.
Genesis ==
  [ag |-> "observation_required", review |-> 0, foreman |-> FALSE,
   requests |-> 0, mandate |-> NoMandate, grants |-> 0, grantUntil |-> 0,
   spends |-> 0, spentAt |-> 0, attempts |-> 0, copies |-> 0,
   outcome |-> "none"]

Init ==
  /\ now = 0
  /\ lock = NoCaller
  /\ proc = [c \in Caller |-> Idle]
  /\ out = [c \in Caller |-> NoOutput]
  /\ owner = Genesis

-----------------------------------------------------------------------------
(* Helpers. *)

Earlier(a, b) == IF a < b THEN a ELSE b

Locking(m) == m # "inspect"

Running(c) == proc[c].status = "running"

\* Expiry of the review c works with: its own, or the one it accepted.
ReviewOf(c) ==
  IF proc[c].mode = "continue"
  THEN out[proc[c].source].candidate
  ELSE out[c].candidate

\* Mutant: recovery gives itself a new window.
RunDeadlineRetimed(c) ==
  IF proc[c].mode = "recover" THEN now + MandateWindow ELSE out[c].deadline

\* The deadline of the run document c hands to ag run.
RunDeadline(c) ==
  IF proc[c].mode = "recover"
  THEN out[proc[c].source].deadline
  ELSE out[c].deadline

-----------------------------------------------------------------------------
(* Starting an invocation: configuration and, for continue, the retained   *)
(* candidate are checked first, then the lock is taken without waiting,    *)
(* then the fresh output directory and its checkpoint are made.            *)

\* Mutant: the owner lock is not taken.
EnterUnlocked(c, m, s) ==
  /\ proc[c].status = "idle" /\ m \in Modes
  /\ proc' = [proc EXCEPT ![c] = [Idle EXCEPT !.mode = m, !.source = s,
                                              !.status = "running"]]
  /\ UNCHANGED <<now, lock, out, owner>>

Enter(c, m, s) ==
  /\ proc[c].status = "idle" /\ m \in Modes
  /\ Locking(m) => lock = NoCaller
  /\ lock' = IF Locking(m) THEN c ELSE lock
  /\ proc' = [proc EXCEPT ![c] = [Idle EXCEPT !.mode = m, !.source = s,
                                              !.status = "running"]]
  /\ UNCHANGED <<now, out, owner>>

StartFresh(c) ==
  \E m \in {"execute", "review-only", "inspect"} : Enter(c, m, NoCaller)

\* A terminal with exit_code 0 and the review-only result schema, whose
\* verification was accepted.
RetainedCandidate(s) ==
  /\ proc[s].mode = "review-only"
  /\ out[s].terminal = "ok"
  /\ out[s].verified = "accepted"

StartContinue(c) ==
  \E s \in Caller : RetainedCandidate(s) /\ Enter(c, "continue", s)

\* Any other output may be named; Pre judges whether it can be recovered.
StartRecover(c) ==
  \E s \in Caller \ {c} :
    proc[s].status # "idle" /\ Enter(c, "recover", s)

-----------------------------------------------------------------------------
(* The end of an invocation.  Its memory is gone; what it passed to a      *)
(* program that is still running (child = "running") is not.               *)

Gone(c, status, child) ==
  [proc[c] EXCEPT !.status = status, !.child = child, !.answer = "none",
                  !.when = 0, !.issued = 0, !.permit = 0,
                  !.expires = IF child = "running" THEN @ ELSE 0]

Orphan(c) ==
  IF proc[c].child = "running" /\ proc[c].phase \in NativeStage
  THEN "running" ELSE "none"

\* terminal.json is written, then the lock is closed.
Terminate(c, output, code, child) ==
  /\ out' = [out EXCEPT ![c] = [output EXCEPT !.terminal = code]]
  /\ proc' = [proc EXCEPT ![c] = Gone(c, "ended", child)]
  /\ lock' = IF lock = c THEN NoCaller ELSE lock
  /\ UNCHANGED <<now, owner>>

-----------------------------------------------------------------------------
(* Between two stages. *)

\* No call is outstanding and the last one was recorded as finished.
Ready(c) ==
  /\ Running(c) /\ proc[c].child = "none"
  /\ proc[c].phase = "initial" \/ proc[c].phase \in out[c].finished

Following(c) == Successor(proc[c].mode, proc[c].phase)

\* The scratch, executor and Docket directories are empty and there is no
\* mandate store.
NothingGranted ==
  /\ owner.grants = 0 /\ owner.attempts = 0 /\ owner.copies = 0
  /\ owner.mandate = NoMandate

\* There is no Foreman and no Switchyard store either.
NothingReviewed == NothingGranted /\ ~owner.foreman /\ owner.requests = 0

\* s retained a run document and announced the run.
RecoverableRun(s) ==
  out[s].deadline # 0 /\ "finite-run" \in out[s].started

\* Mutant: the review's expiry does not bound the mandate.
WindowEndUnbounded(c) == now + MandateWindow

\* Where the window of a mandate issued now would end.
WindowEnd(c) == Earlier(now + MandateWindow, ReviewOf(c))

\* The run's deadline only shortens the mandate and the permission.
PreparedDeadline(c) == Earlier(proc[c].expires, proc[c].permit)

\* What the caller requires before it begins stage q.
Pre(c, q) ==
  CASE q = "initial-inspect" -> NothingReviewed
    [] q = "before-acceptance-inspect" -> NothingGranted
    [] q = "before-recovery" -> RecoverableRun(proc[c].source)
    [] q = "native-review-reverification" -> now + Reserve < ReviewOf(c)
    [] q = "record-review" ->
         proc[c].mode = "continue" => now + Reserve < ReviewOf(c)
    [] q = "before-permission" -> WindowEnd(c) - now >= Reserve
    [] q = "run-input" ->
         /\ ReviewOf(c) - ReviewAge < PreparedDeadline(c)
         /\ PreparedDeadline(c) <= ReviewOf(c)
    [] q = "finite-run" -> now + Reserve < out[c].deadline
    [] OTHER -> TRUE

\* Mutant: the started record is left for later.
AnnouncedLater(c, q) == out[c]

\* The output once the create-once started record of q is written.
Announced(c, q) == [out[c] EXCEPT !.started = @ \cup {q}]

\* Stage q is outstanding.  The window is fixed before its last freshness
\* check.
Beginning(c, q) ==
  [proc[c] EXCEPT
    !.phase = q, !.child = "recorded",
    !.issued = IF q = "before-permission" THEN now ELSE @,
    !.expires = IF q = "before-permission" THEN WindowEnd(c) ELSE @]

\* The create-once started record of the next native call, or of the
\* exclusive creation of the mandate store.
Begin(c) ==
  /\ Ready(c) /\ Following(c) \notin {"run-input", "end"}
  /\ Pre(c, Following(c))
  /\ out' = [out EXCEPT ![c] = Announced(c, Following(c))]
  /\ proc' = [proc EXCEPT ![c] = Beginning(c, Following(c))]
  /\ UNCHANGED <<now, lock, owner>>

Prepared(c) ==
  [out[c] EXCEPT !.started = @ \cup {"run-input"},
                 !.finished = @ \cup {"run-input"},
                 !.deadline = PreparedDeadline(c)]

\* run-input-v2.json and its identity are written; nothing is called.
PrepareRun(c) ==
  /\ Ready(c) /\ Following(c) = "run-input" /\ Pre(c, "run-input")
  /\ out' = [out EXCEPT ![c] = Prepared(c)]
  /\ proc' = [proc EXCEPT ![c] = [proc[c] EXCEPT !.phase = "run-input"]]
  /\ UNCHANGED <<now, lock, owner>>

RefuseNext(c) ==
  /\ Ready(c) /\ Following(c) # "end" /\ ~Pre(c, Following(c))
  /\ Terminate(c, out[c], "error", "none")

Finish(c) ==
  /\ Ready(c) /\ Following(c) = "end"
  /\ Terminate(c, out[c], "ok", "none")

-----------------------------------------------------------------------------
(* The rest of a native call, on the caller's side. *)

Spawn(c) ==
  /\ Running(c) /\ proc[c].child = "recorded"
  /\ proc[c].phase # "mandate-create"
  /\ proc' = [proc EXCEPT ![c] = [proc[c] EXCEPT !.child = "running"]]
  /\ UNCHANGED <<now, lock, out, owner>>

\* The original observation and Pulse still reach this far.
FreshFor(minimum) == FreshUntil - now >= minimum

\* Mutant: the verdict is not looked at.
ProjectsAnyVerdict(c) ==
  out[c].ended <= now /\ now < out[c].ended + ReviewAge

\* project: an accepted verdict, within the lifetime of the review.
Projects(c) ==
  /\ out[c].verdict = "accepted"
  /\ out[c].ended <= now /\ now < out[c].ended + ReviewAge

\* Mutant: any settlement counts as success.
SettledAnyhow(c) ==
  /\ proc[c].answer = "settled_observation_required"
  /\ owner.spends = 1 /\ owner.attempts = 1

\* One spend, one attempt, one settlement, and it succeeded.
SettledOnce(c) ==
  /\ proc[c].answer = "settled_observation_required"
  /\ owner.spends = 1 /\ owner.attempts = 1 /\ owner.outcome = "success"

\* What must hold of the answer, and of the clock when it is judged.
Post(c) ==
  LET p == proc[c].phase
      a == proc[c].answer
  IN CASE p = "initial-inspect" ->
            /\ a = "observation_required"
            /\ owner.spends = 0 /\ owner.attempts = 0
            /\ owner.outcome = "none"
       [] p \in {"admitted-inspect", "before-acceptance-inspect"} ->
            a = "proposal_recorded"
       [] p \in {"before-review", "immediately-before-review"} ->
            FreshFor(ReviewReserve)
       [] p = "before-permission" ->
            FreshFor(proc[c].expires - proc[c].issued)
       [] p = "provider-run" -> a # "none"
       [] p = "record-review-custody" -> Projects(c)
       [] p = "native-review-verification" ->
            proc[c].mode = "execute" => a = "accepted"
       [] p = "native-review-reverification" -> a = "accepted"
       [] p = "permission-preflight" ->
            now + Reserve < Earlier(proc[c].expires, proc[c].when)
       [] p = "finite-run" -> a = "settled_observation_required"
       [] p = "settled-inspect" -> SettledOnce(c)
       [] OTHER -> TRUE

\* Mutant: the answer of whichever stage was last is kept.
VerdictOfAnyStage(c) ==
  IF proc[c].child = "exited" THEN proc[c].answer ELSE out[c].verdict

\* provider-run.json keeps what the provider's own run returned.
Verdict(c) ==
  IF proc[c].child = "exited" /\ proc[c].phase = "provider-run"
  THEN proc[c].answer ELSE out[c].verdict

\* The files the stage leaves behind besides its finished record.
Recorded(c) ==
  LET p == proc[c].phase
      said == proc[c].child = "exited"
  IN [out[c] EXCEPT
       !.finished = @ \cup {p},
       !.verdict = Verdict(c),
       !.ended = IF said /\ p = "provider-run" THEN proc[c].when ELSE @,
       !.candidate = IF said /\ p = "record-review-custody" /\ Projects(c)
                     THEN out[c].ended + ReviewAge ELSE @,
       !.verified = IF said /\ p \in Verifications THEN proc[c].answer
                                                   ELSE @]

\* Back to the caller, which keeps the expiry the permission reported.
Collected(c) ==
  [proc[c] EXCEPT
    !.child = "none", !.answer = "none", !.when = 0,
    !.permit = IF proc[c].phase = "permission-preflight" THEN proc[c].when
                                                         ELSE @]

\* The answer was collected in time, recorded, and found good.
Collect(c) ==
  /\ Running(c) /\ proc[c].child = "exited" /\ Post(c)
  /\ out' = [out EXCEPT ![c] = Recorded(c)]
  /\ proc' = [proc EXCEPT ![c] = Collected(c)]
  /\ UNCHANGED <<now, lock, owner>>

\* It was recorded and refused: a nonzero code or a failed requirement.
CollectRefusal(c) ==
  /\ Running(c)
  /\ proc[c].child = "refused" \/ (proc[c].child = "exited" /\ ~Post(c))
  /\ Terminate(c, Recorded(c), "error", "none")

\* Mutant: an unresolved stage is tried again.
AbandonRetries(c) ==
  /\ Running(c) /\ proc[c].phase \in NativeStage
  /\ proc[c].child # "none"
  /\ proc' = [proc EXCEPT ![c] = [proc[c] EXCEPT !.child = "recorded"]]
  /\ UNCHANGED <<now, lock, out, owner>>

\* Mutant: there is no collection deadline.
AbandonAnswered(c) ==
  /\ Running(c) /\ proc[c].phase \in NativeStage
  /\ proc[c].child \in {"recorded", "exited", "refused"}
  /\ Terminate(c, out[c], "error", "none")

\* The program cannot be spawned, or its collection times out or overruns a
\* bound.  The direct child is killed and reaped; a program it started may
\* live on.  No finished record is written.
Abandon(c) ==
  /\ Running(c) /\ proc[c].phase \in NativeStage
  /\ proc[c].child # "none"
  /\ Terminate(c, out[c], "error", Orphan(c))

\* The manager kills the caller, or the host dies.  The kernel drops the
\* lock, nothing more is recorded, a spawned program may live on.
Crash(c) ==
  /\ Running(c)
  /\ proc' = [proc EXCEPT ![c] = Gone(c, "crashed", Orphan(c))]
  /\ lock' = IF lock = c THEN NoCaller ELSE lock
  /\ UNCHANGED <<now, out, owner>>

-----------------------------------------------------------------------------
(* The mandate store is created by the caller itself, in two writes.       *)

CreateMandate(c) ==
  /\ owner' = [owner EXCEPT !.mandate = EmptyMandate]
  /\ proc' = [proc EXCEPT ![c] = [proc[c] EXCEPT !.child = "running"]]
  /\ UNCHANGED <<now, lock, out>>

\* Exclusive creation: a store that exists ends the invocation.
OpenMandate(c) ==
  /\ Running(c) /\ proc[c].phase = "mandate-create"
  /\ proc[c].child = "recorded"
  /\ IF owner.mandate = NoMandate
       THEN CreateMandate(c)
       ELSE Terminate(c, out[c], "error", "none")

FillMandate(c) ==
  /\ Running(c) /\ proc[c].phase = "mandate-create"
  /\ proc[c].child = "running"
  /\ owner' = [owner EXCEPT !.mandate = proc[c].expires]
  /\ proc' = [proc EXCEPT ![c] = [proc[c] EXCEPT !.child = "none"]]
  /\ out' = [out EXCEPT ![c] = Recorded(c)]
  /\ UNCHANGED <<now, lock>>

-----------------------------------------------------------------------------
(* Native programs: not in this repository, modelled by what the callers   *)
(* rely on.  They act whether or not the caller still lives.               *)

Native(c, stages) == proc[c].child = "running" /\ proc[c].phase \in stages

\* The program exits with answer a; a nonzero code may follow the effect.
Answers(c, a, t) ==
  IF Running(c)
  THEN \E code \in {"exited", "refused"} :
         proc' = [proc EXCEPT ![c] =
           [proc[c] EXCEPT !.child = code, !.answer = a, !.when = t]]
  ELSE proc' = [proc EXCEPT ![c] = [proc[c] EXCEPT !.child = "none"]]

\* It refuses without having done anything.
Decline(c) ==
  /\ Native(c, NativeStage) /\ Running(c)
  /\ proc' = [proc EXCEPT ![c] = [proc[c] EXCEPT !.child = "refused"]]
  /\ UNCHANGED <<now, lock, out, owner>>

\* Inspections, and the calls that change no state named here.
NativeRead(c) ==
  /\ Native(c, Inspections \cup Freshness \cup {"record-review-custody"})
  /\ Answers(c, owner.ag, 0)
  /\ UNCHANGED <<now, lock, out, owner>>

NativeAdmission(c) ==
  /\ Native(c, {"nightshift-admission"})
  /\ owner.ag \in {"observation_required", "proposal_recorded"}
  /\ owner' = [owner EXCEPT !.ag = "proposal_recorded"]
  /\ Answers(c, "none", 0)
  /\ UNCHANGED <<now, lock, out>>

NativeReviewAdmit(c) ==
  /\ Native(c, {"review-admit"})
  /\ owner' = [owner EXCEPT !.foreman = TRUE]
  /\ Answers(c, "none", 0)
  /\ UNCHANGED <<now, lock, out>>

\* The one paid request.  "none": no provider admission came back.
NativeProvider(c) ==
  /\ Native(c, {"provider-run"})
  /\ owner' = [owner EXCEPT !.requests = @ + 1]
  /\ \E a \in {"none", "accepted", "rejected"} : Answers(c, a, now)
  /\ UNCHANGED <<now, lock, out>>

\* Custody is verified; nothing is assumed about the verdict it carries.
NativeVerify(c) ==
  /\ Native(c, Verifications)
  /\ \E a \in {"accepted", "rejected"} : Answers(c, a, 0)
  /\ UNCHANGED <<now, lock, out, owner>>

NativeRecordReview(c) ==
  /\ Native(c, {"record-review"})
  /\ \/ owner.ag = "proposal_recorded"
     \/ owner.ag = "review_recorded" /\ owner.review = ReviewOf(c)
  /\ owner' = [owner EXCEPT !.ag = "review_recorded", !.review = ReviewOf(c)]
  /\ Answers(c, "none", 0)
  /\ UNCHANGED <<now, lock, out>>

NativePermission(c) ==
  /\ Native(c, {"permission-preflight"})
  /\ owner.ag = "review_recorded"
  /\ now < owner.review /\ now < owner.mandate
  /\ \E t \in 1..MaxTime : Answers(c, "accepted", t)
  /\ UNCHANGED <<now, lock, out, owner>>

NativeGrant(c) ==
  /\ Native(c, {"operator-grant"})
  /\ owner' = [owner EXCEPT !.grants = @ + 1, !.grantUntil = proc[c].expires]
  /\ Answers(c, "none", 0)
  /\ UNCHANGED <<now, lock, out>>

\* ag run spends the authority, has Docket attempt the copy and settles.
RunSpend(c) ==
  /\ Native(c, AgRuns) /\ owner.ag = "review_recorded"
  /\ now < RunDeadline(c) /\ now < owner.mandate
  /\ owner' = [owner EXCEPT !.ag = "spent", !.spends = @ + 1, !.spentAt = now]
  /\ UNCHANGED <<now, lock, proc, out>>

RunAttempt(c) ==
  /\ Native(c, AgRuns) /\ owner.ag = "spent"
  /\ owner.grants > 0 /\ now < owner.grantUntil
  /\ \E copied \in {0, 1} :
       owner' = [owner EXCEPT !.ag = "attempted", !.attempts = @ + 1,
                              !.copies = @ + copied]
  /\ UNCHANGED <<now, lock, proc, out>>

RunSettle(c) ==
  /\ Native(c, AgRuns) /\ owner.ag = "attempted"
  /\ \E o \in {"success", "indeterminate"} :
       /\ o = "success" => owner.copies = 1
       /\ owner' = [owner EXCEPT !.ag = "settled_observation_required",
                                 !.outcome = o]
  /\ UNCHANGED <<now, lock, proc, out>>

RunExit(c) ==
  /\ Native(c, AgRuns)
  /\ Answers(c, owner.ag, 0)
  /\ UNCHANGED <<now, lock, out, owner>>

-----------------------------------------------------------------------------
Tick ==
  /\ now < MaxTime
  /\ now' = now + 1
  /\ UNCHANGED <<lock, proc, out, owner>>

CallerStep(c) ==
  \/ Begin(c) \/ PrepareRun(c) \/ RefuseNext(c) \/ Finish(c)
  \/ OpenMandate(c) \/ FillMandate(c)
  \/ Spawn(c) \/ Collect(c) \/ CollectRefusal(c) \/ Abandon(c)

NativeStep(c) ==
  \/ Decline(c) \/ NativeRead(c) \/ NativeAdmission(c)
  \/ NativeReviewAdmit(c) \/ NativeProvider(c) \/ NativeVerify(c)
  \/ NativeRecordReview(c) \/ NativePermission(c) \/ NativeGrant(c)
  \/ RunSpend(c) \/ RunAttempt(c) \/ RunSettle(c) \/ RunExit(c)

Next ==
  \/ Tick
  \/ \E c \in Caller :
       \/ StartFresh(c) \/ StartContinue(c) \/ StartRecover(c)
       \/ CallerStep(c) \/ Crash(c) \/ NativeStep(c)

Spec == Init /\ [][Next]_vars

\* Every wait of the caller is bounded, so a live caller keeps moving; a
\* native program owes nothing.
FairSpec == Spec /\ \A c \in Caller : WF_vars(CallerStep(c))

-----------------------------------------------------------------------------
(* What all of this promises about the one occurrence. *)

Promise == INSTANCE Occurrence WITH
  requests <- owner.requests, accepted <- owner.review # 0,
  grants <- owner.grants, spends <- owner.spends,
  attempts <- owner.attempts, copies <- owner.copies,
  outcome <- owner.outcome

\* The callers, crashes, orphans and recoveries together behave as one
\* occurrence that is reviewed, granted, spent, attempted and settled once.
ImplementsOccurrence == Promise!Spec

\* Where c is in the calls it makes; the mandate store is not a call.
CallState(c) ==
  CASE proc[c].status = "idle" -> "ready"
    [] Running(c) -> IF proc[c].phase \in NativeStage /\ proc[c].child # "none"
                     THEN proc[c].child ELSE "ready"
    [] OTHER -> IF proc[c].child = "running" THEN "orphan" ELSE "over"

Calls(c) == INSTANCE NativeCall WITH
  Name <- NativeStage, state <- CallState(c),
  started <- out[c].started \cap NativeStage,
  finished <- out[c].finished \cap NativeStage

\* Every invocation keeps to the contract of Caller.call that Collector
\* implements: one call at a time, each announced once, none after a call
\* that was left without an answer.
FollowsCallContract ==
  /\ \A c \in Caller : Calls(c)!Init
  /\ [][\A c \in Caller : [Calls(c)!Next]_(Calls(c)!vars)]_vars

-----------------------------------------------------------------------------
(* Properties. *)

\* However many invocations run, crash and are replaced, and whatever the
\* programs they left behind still do, the provider is asked at most once.
OneProviderRequest == owner.requests <= 1

\* Likewise Docket receives at most one grant.
OneGrant == owner.grants <= 1

\* A grant is never wider than the mandate, the review that AG recorded, or
\* the observation the whole occurrence started from.
AuthorityWithinReview ==
  owner.grants > 0 => /\ owner.grantUntil = owner.mandate
                      /\ owner.grantUntil <= owner.review
                      /\ owner.grantUntil <= FreshUntil

\* Whoever drives ag run, the original caller or a recovery long after it,
\* authority is spent before the deadline of the one retained run document,
\* and that deadline fits the recorded review and the observation.
SpendWithinOriginalDeadline ==
  owner.spends > 0 =>
    \E c \in Caller : /\ owner.spentAt < out[c].deadline
                      /\ out[c].deadline <= owner.review
                      /\ out[c].deadline <= FreshUntil

\* AG holds a review only if some output retains it with the provider's
\* accepted verdict and an accepted native verification.
NoAuthorityWithoutAcceptedReview ==
  owner.ag \notin {"observation_required", "proposal_recorded"} =>
    \E c \in Caller : /\ out[c].verdict = "accepted"
                      /\ out[c].verified = "accepted"
                      /\ out[c].candidate = owner.review

\* Nothing happens at an owner before a started record for it is durable;
\* once authority is spent the records a recovery needs are all there.
EvidencePrecedesEffect ==
  /\ owner.requests > 0 =>
       \E c \in Caller : "provider-run" \in out[c].started
  /\ owner.mandate # NoMandate =>
       \E c \in Caller : "mandate-create" \in out[c].started
  /\ owner.grants > 0 =>
       \E c \in Caller : "operator-grant" \in out[c].started
  /\ owner.spends > 0 => \E c \in Caller : RecoverableRun(c)

\* The review-only result is written with literal counts that nobody
\* measured (one provider call, nothing granted, spent or attempted): they
\* are true when it is written.
ReviewOnlyClaimHolds ==
  [][\A c \in Caller :
       /\ proc[c].mode = "review-only"
       /\ out[c].terminal = "absent" /\ out'[c].terminal = "ok"
       => /\ owner.requests = 1 /\ owner.mandate = NoMandate
          /\ owner.grants = 0 /\ owner.spends = 0 /\ owner.attempts = 0]_vars

\* A terminal record of success stays true: the occurrence was copied and
\* settled successfully, once.
SuccessIsSettled ==
  \A c \in Caller :
    out[c].terminal = "ok" /\ proc[c].mode \in {"execute", "continue"} =>
      /\ owner.ag = "settled_observation_required"
      /\ owner.outcome = "success" /\ owner.copies = 1
      /\ owner.spends = 1 /\ owner.attempts = 1

\* No native program can hold a caller, and with it the lock, forever.
EveryInvocationEnds == \A c \in Caller : Running(c) ~> ~Running(c)

\* What README.md says of review-only: its terminal reports the verifier's
\* actual accepted or rejected result.  So a rejected verdict whose custody
\* was recorded in time is not by itself turned into an error terminal.
RejectionIsReported ==
  [][\A c \in Caller :
       /\ proc[c].mode = "review-only" /\ out[c].terminal = "absent"
       /\ proc[c].phase = "record-review-custody"
       /\ proc[c].child = "exited" /\ out[c].verdict = "rejected"
       /\ now < out[c].ended + ReviewAge
       /\ "record-review-custody" \in out'[c].finished
       => out'[c].terminal # "error"]_vars

=============================================================================
