----------------------- MODULE ReviewedAction_proofs -----------------------
(***************************************************************************)
(* Proofs about ReviewedAction, for every set of invocations and every     *)
(* value of the windows.                                                   *)
(***************************************************************************)
EXTENDS ReviewedAction, TLAPS

USE CallerAssumption, ModesAssumption, TimeAssumption

-----------------------------------------------------------------------------
(* Type correctness. *)

\* A started process has a mode, and one that continues or recovers names
\* the output it works from.
SourceNamed(p) ==
  /\ p.status # "idle" => p.mode \in Mode
  /\ p.mode \in {"continue", "recover"} => p.source \in Caller

\* A call that is outstanding has a stage, and a program that answers a
\* verdict answers no state: both can be recorded.
AnswerFits(p) ==
  /\ p.child # "none" => p.phase \in Stage
  /\ p.child = "exited" /\ p.phase \in Verifications \cup {"provider-run"} =>
       p.answer \in {"none", "accepted", "rejected"}

WellFormed(p) == p \in Process /\ SourceNamed(p) /\ AnswerFits(p)

\* TypeOK, strengthened until every step preserves it.
Typed == TypeOK /\ \A c \in Caller : WellFormed(proc[c])

LEMMA FirstStage ==
  ASSUME NEW m
  PROVE  First(m) \in NativeStage
BY DEF First, NativeStage, Inspections

LEMMA NextStage ==
  ASSUME NEW m, NEW p
  PROVE  Successor(m, p) \in Stage \cup {"end"}
BY FirstStage DEF Successor, AfterVerification, Stage, NativeStage,
   Inspections, Freshness, Verifications, AgRuns

LEMMA EarlierNat ==
  ASSUME NEW a \in Nat, NEW b \in Nat
  PROVE  Earlier(a, b) \in Nat /\ Earlier(a, b) <= a /\ Earlier(a, b) <= b
BY DEF Earlier

LEMMA Parts ==
  ASSUME Typed, NEW c \in Caller
  PROVE  /\ proc[c] \in Process /\ SourceNamed(proc[c]) /\ AnswerFits(proc[c])
         /\ out[c] \in Output /\ owner \in Owner /\ now \in Nat
BY DEF Typed, TypeOK, WellFormed

\* A step that leaves a well-formed process and output leaves all of them so.
LEMMA StepTyped ==
  ASSUME Typed, NEW c \in Caller, NEW p, NEW o \in Output,
         WellFormed(p),
         now' \in Nat, lock' \in Caller \cup {NoCaller}, owner' \in Owner,
         proc' = proc \/ proc' = [proc EXCEPT ![c] = p],
         out' = out \/ out' = [out EXCEPT ![c] = o]
  PROVE  Typed'
BY DEF Typed, TypeOK, WellFormed, SourceNamed, AnswerFits

LEMMA ReviewIsTime ==
  ASSUME Typed, NEW c \in Caller
  PROVE  ReviewOf(c) \in Nat
BY Parts DEF Typed, TypeOK, ReviewOf, Output, SourceNamed

LEMMA InitTyped == Init => Typed
BY DEF Init, Typed, TypeOK, WellFormed, SourceNamed, AnswerFits, Idle,
   NoOutput, Genesis, Process, Output, Owner, AgState, Answer, Stage, NoMandate

LEMMA EnterTyped ==
  ASSUME Typed, NEW c \in Caller, NEW m \in Mode,
         NEW s \in Caller \cup {NoCaller},
         m \in {"continue", "recover"} => s \in Caller,
         Enter(c, m, s)
  PROVE  Typed'
<1> DEFINE p == [Idle EXCEPT !.mode = m, !.source = s, !.status = "running"]
<1>1. WellFormed(p)
  BY DEF WellFormed, SourceNamed, AnswerFits, Idle, Process, Answer, Stage
<1> QED
  BY <1>1, StepTyped, Parts DEF Enter, Typed, TypeOK

LEMMA StartTyped ==
  ASSUME Typed, NEW c \in Caller,
         StartFresh(c) \/ StartContinue(c) \/ StartRecover(c)
  PROVE  Typed'
BY EnterTyped DEF StartFresh, StartContinue, StartRecover, Mode

LEMMA GoneTyped ==
  ASSUME Typed, NEW c \in Caller, NEW status \in {"ended", "crashed"},
         NEW child \in {"none", "running"}, Running(c),
         child = "running" => proc[c].child = "running"
  PROVE  WellFormed(Gone(c, status, child))
<1> proc[c] \in Process /\ SourceNamed(proc[c]) /\ AnswerFits(proc[c])
  BY Parts
<1> QED
  BY ZenonT(60) DEF Gone, Process, Answer, WellFormed, SourceNamed, AnswerFits, Running

LEMMA TerminateTyped ==
  ASSUME Typed, NEW c \in Caller, NEW o \in Output,
         NEW code \in {"ok", "error"}, NEW child \in {"none", "running"},
         Terminate(c, o, code, child), Running(c),
         child = "running" => proc[c].child = "running"
  PROVE  Typed'
<1>1. [o EXCEPT !.terminal = code] \in Output
  BY DEF Output
<1> QED
  BY GoneTyped, Parts, StepTyped, <1>1 DEF Terminate, Typed, TypeOK

LEMMA BeginTyped ==
  ASSUME Typed, NEW c \in Caller, Begin(c)
  PROVE  Typed'
<1> DEFINE q == Following(c)
<1>1. q \in Stage
  BY NextStage DEF Following, Begin
<1>2. WindowEnd(c) \in Nat
  BY ReviewIsTime, EarlierNat, Parts DEF WindowEnd
<1>3. Announced(c, q) \in Output
  BY <1>1, Parts DEF Announced, Output
<1>4. WellFormed(Beginning(c, q))
  <2> proc[c] \in Process /\ SourceNamed(proc[c]) /\ now \in Nat
    BY Parts
  <2> HIDE DEF q
  <2> QED
    BY <1>1, <1>2 DEF Beginning, Process, WellFormed, SourceNamed, AnswerFits
<1> HIDE DEF q
<1> QED
  BY <1>3, <1>4, StepTyped, Parts DEF Begin, q, Typed, TypeOK

LEMMA PrepareRunTyped ==
  ASSUME Typed, NEW c \in Caller, PrepareRun(c)
  PROVE  Typed'
<1>1. PreparedDeadline(c) \in Nat
  BY EarlierNat, Parts DEF Process, PreparedDeadline
<1>2. Prepared(c) \in Output
  <2> out[c] \in Output
    BY Parts
  <2> QED
    BY <1>1 DEF Prepared, Output, Stage
<1>3. WellFormed([proc[c] EXCEPT !.phase = "run-input"])
  <2> proc[c] \in Process /\ SourceNamed(proc[c]) /\ proc[c].child = "none"
    BY Parts DEF PrepareRun, Ready
  <2> QED
    BY DEF Process, Stage, WellFormed, SourceNamed, AnswerFits
<1> QED
  BY <1>2, <1>3, StepTyped DEF PrepareRun, Typed, TypeOK

\* The caller's process when only the state of its child changes.
LEMMA ChildTyped ==
  ASSUME Typed, NEW c \in Caller,
         NEW child \in {"none", "running", "refused"},
         proc[c].child # "none"
  PROVE  WellFormed([proc[c] EXCEPT !.child = child])
<1> proc[c] \in Process /\ SourceNamed(proc[c]) /\ AnswerFits(proc[c])
  BY Parts
<1> QED
  BY DEF Process, WellFormed, SourceNamed, AnswerFits

LEMMA RecordedTyped ==
  ASSUME Typed, NEW c \in Caller, proc[c].child # "none"
  PROVE  Recorded(c) \in Output
<1> out[c] \in Output /\ proc[c] \in Process /\ AnswerFits(proc[c])
  BY Parts
<1> DEFINE verdicts == {"none", "accepted", "rejected"}
<1>1. proc[c].phase \in Stage /\ Verdict(c) \in verdicts
  BY DEF Verdict, AnswerFits, Output, Process
<1>2. proc[c].child = "exited" /\ proc[c].phase \in Verifications =>
        proc[c].answer \in verdicts
  BY DEF AnswerFits
<1>3. out[c].ended + ReviewAge \in Nat /\ proc[c].when \in Nat
  BY DEF Output, Process
<1> QED
  BY <1>1, <1>2, <1>3 DEF Recorded, Output

LEMMA MandateTyped ==
  ASSUME Typed, NEW c \in Caller,
         OpenMandate(c) \/ FillMandate(c)
  PROVE  Typed'
<1>1. CASE OpenMandate(c)
  <2>1. [owner EXCEPT !.mandate = EmptyMandate] \in Owner
    BY Parts DEF Owner
  <2> QED
    BY <1>1, <2>1, ChildTyped, StepTyped, TerminateTyped, Parts
       DEF OpenMandate, CreateMandate, Typed, TypeOK
<1>2. CASE FillMandate(c)
  <2>1. [owner EXCEPT !.mandate = proc[c].expires] \in Owner
    BY Parts DEF Owner, Process
  <2> QED
    BY <1>2, <2>1, RecordedTyped, ChildTyped, StepTyped, Parts
       DEF FillMandate, Typed, TypeOK
<1> QED
  BY <1>1, <1>2

LEMMA SpawnTyped ==
  ASSUME Typed, NEW c \in Caller, Spawn(c)
  PROVE  Typed'
BY ChildTyped, StepTyped, Parts DEF Spawn, Typed, TypeOK

LEMMA CollectTyped ==
  ASSUME Typed, NEW c \in Caller, Collect(c) \/ CollectRefusal(c)
  PROVE  Typed'
<1>1. WellFormed(Collected(c))
  <2> proc[c] \in Process /\ SourceNamed(proc[c])
    BY Parts
  <2> QED
    BY DEF Collected, Process, Answer, WellFormed, SourceNamed, AnswerFits
<1>2. CASE Collect(c)
  BY <1>1, <1>2, RecordedTyped, StepTyped DEF Collect, Typed, TypeOK
<1>3. CASE CollectRefusal(c)
  BY <1>3, TerminateTyped, RecordedTyped DEF CollectRefusal
<1> QED
  BY <1>2, <1>3

LEMMA AbandonTyped ==
  ASSUME Typed, NEW c \in Caller, Abandon(c) \/ Crash(c)
  PROVE  Typed'
<1>1. /\ Orphan(c) \in {"none", "running"} /\ Running(c)
      /\ Orphan(c) = "running" => proc[c].child = "running"
  BY DEF Orphan, Abandon, Crash
<1>2. CASE Abandon(c)
  BY <1>1, <1>2, TerminateTyped, Parts DEF Abandon
<1>3. CASE Crash(c)
  BY <1>1, <1>3, GoneTyped, StepTyped, Parts DEF Crash, Typed, TypeOK
<1> QED
  BY <1>2, <1>3

LEMMA RefuseTyped ==
  ASSUME Typed, NEW c \in Caller, RefuseNext(c) \/ Finish(c)
  PROVE  Typed'
BY TerminateTyped, Parts DEF RefuseNext, Finish, Ready

\* A native program that answers what its stage can answer.
LEMMA AnswersTyped ==
  ASSUME Typed, NEW c \in Caller, NEW a \in Answer, NEW t \in Nat,
         proc[c].phase \in Stage,
         proc[c].phase \in Verifications \cup {"provider-run"} =>
           a \in {"none", "accepted", "rejected"},
         Answers(c, a, t),
         UNCHANGED <<now, lock, out>>, owner' \in Owner
  PROVE  Typed'
<1> DEFINE p(code) == [proc[c] EXCEPT !.child = code, !.answer = a, !.when = t]
<1>1. \A code \in {"exited", "refused"} : WellFormed(p(code))
  <2> proc[c] \in Process /\ SourceNamed(proc[c])
    BY Parts
  <2> QED
    BY DEF Process, WellFormed, SourceNamed, AnswerFits
<1>2. WellFormed([proc[c] EXCEPT !.child = "none"])
  <2> proc[c] \in Process /\ SourceNamed(proc[c])
    BY Parts
  <2> QED
    BY DEF Process, WellFormed, SourceNamed, AnswerFits
<1>3. CASE Running(c)
  <2>1. PICK code \in {"exited", "refused"} : proc' = [proc EXCEPT ![c] = p(code)]
    BY <1>3 DEF Answers
  <2> HIDE DEF p
  <2> QED
    BY <1>1, <2>1, StepTyped, Parts DEF Typed, TypeOK
<1>4. CASE ~Running(c)
  BY <1>2, <1>4, StepTyped, Parts DEF Answers, Typed, TypeOK
<1> QED
  BY <1>3, <1>4

\* What the native owners do to their own state.
LEMMA OwnerUpdates ==
  ASSUME owner \in Owner, NEW t \in Nat, NEW n \in {0, 1}
  PROVE  /\ [owner EXCEPT !.requests = @ + 1] \in Owner
         /\ [owner EXCEPT !.grants = @ + 1, !.grantUntil = t] \in Owner
         /\ [owner EXCEPT !.ag = "spent", !.spends = @ + 1, !.spentAt = t]
              \in Owner
         /\ [owner EXCEPT !.ag = "attempted", !.attempts = @ + 1,
                          !.copies = @ + n] \in Owner
<1> DEFINE s == "spent"
           a == "attempted"
<1>1. /\ owner.requests + 1 \in Nat /\ owner.grants + 1 \in Nat
      /\ owner.spends + 1 \in Nat /\ owner.attempts + 1 \in Nat
      /\ owner.copies + n \in Nat /\ s \in AgState /\ a \in AgState
  BY DEF Owner, AgState
<1> HIDE DEF s, a
<1>2. [owner EXCEPT !.requests = @ + 1] \in Owner
  BY <1>1 DEF Owner
<1>3. [owner EXCEPT !.grants = @ + 1, !.grantUntil = t] \in Owner
  BY <1>1 DEF Owner
<1>4. [owner EXCEPT !.ag = s, !.spends = @ + 1, !.spentAt = t] \in Owner
  BY <1>1 DEF Owner
<1>5. [owner EXCEPT !.ag = a, !.attempts = @ + 1, !.copies = @ + n] \in Owner
  BY <1>1 DEF Owner
<1> QED
  BY <1>2, <1>3, <1>4, <1>5 DEF s, a

LEMMA NativeTyped ==
  ASSUME Typed, NEW c \in Caller, NativeStep(c)
  PROVE  Typed'
<1> USE DEF Native
<1> owner \in Owner /\ now \in Nat /\ proc[c] \in Process /\ AnswerFits(proc[c])
  BY Parts
<1>0. /\ Verifications \cap (Inspections \cup Freshness) = {}
      /\ Verifications \cap AgRuns = {}
      /\ NativeStage \subseteq Stage
      /\ AgState \subseteq Answer /\ owner.ag \in Answer
  BY DEF Inspections, Freshness, Verifications, AgRuns, Stage, Answer, Owner
<1>1. CASE Decline(c)
  BY <1>1, ChildTyped, StepTyped, Parts DEF Decline, Typed, TypeOK
<1>2. CASE NativeRead(c)
  BY <1>0, <1>2, AnswersTyped DEF NativeRead, NativeStage, Inspections,
     Freshness, Verifications
<1>3. CASE NativeAdmission(c)
  <2>1. [owner EXCEPT !.ag = "proposal_recorded"] \in Owner
    BY DEF Owner, AgState
  <2> QED
    BY <1>0, <1>3, <2>1, AnswersTyped
       DEF NativeAdmission, Verifications, NativeStage, Answer
<1>4. CASE NativeReviewAdmit(c)
  <2>1. [owner EXCEPT !.foreman = TRUE] \in Owner
    BY DEF Owner
  <2> QED
    BY <1>0, <1>4, <2>1, AnswersTyped
       DEF NativeReviewAdmit, Verifications, NativeStage, Answer
<1>5. CASE NativeProvider(c)
  <2>1. [owner EXCEPT !.requests = @ + 1] \in Owner
    BY OwnerUpdates
  <2> QED
    BY <1>0, <1>5, <2>1, AnswersTyped
       DEF NativeProvider, Verifications, NativeStage, Answer
<1>6. CASE NativeVerify(c)
  BY <1>0, <1>6, AnswersTyped DEF NativeVerify, Answer, NativeStage
<1>7. CASE NativeRecordReview(c)
  <2>1. [owner EXCEPT !.ag = "review_recorded", !.review = ReviewOf(c)] \in Owner
    BY ReviewIsTime DEF Owner, AgState
  <2> QED
    BY <1>0, <1>7, <2>1, AnswersTyped
       DEF NativeRecordReview, Verifications, NativeStage, Answer
<1>8. CASE NativePermission(c)
  <2>1. PICK t \in 1..MaxTime : Answers(c, "accepted", t)
    BY <1>8 DEF NativePermission
  <2>2. t \in Nat
    OBVIOUS
  <2> QED
    BY <1>0, <1>8, <2>1, <2>2, AnswersTyped
       DEF NativePermission, Verifications, NativeStage, Answer
<1>9. CASE NativeGrant(c)
  <2>1. proc[c].expires \in Nat
    BY DEF Process
  <2>2. [owner EXCEPT !.grants = @ + 1, !.grantUntil = proc[c].expires] \in Owner
    BY <2>1, OwnerUpdates
  <2> QED
    BY <1>0, <1>9, <2>2, AnswersTyped
       DEF NativeGrant, Verifications, NativeStage, Answer
<1>10. CASE RunSpend(c)
  <2>1. [owner EXCEPT !.ag = "spent", !.spends = @ + 1, !.spentAt = now] \in Owner
    BY OwnerUpdates
  <2> QED
    BY <1>10, <2>1, StepTyped, Parts DEF RunSpend, Typed, TypeOK
<1>11. CASE RunAttempt(c)
  <2>1. \A n \in {0, 1} :
          [owner EXCEPT !.ag = "attempted", !.attempts = @ + 1,
                        !.copies = @ + n] \in Owner
    BY OwnerUpdates
  <2> QED
    BY <1>11, <2>1, StepTyped, Parts DEF RunAttempt, Typed, TypeOK
<1>12. CASE RunSettle(c)
  <2>1. \A o \in {"success", "indeterminate"} :
          [owner EXCEPT !.ag = "settled_observation_required",
                        !.outcome = o] \in Owner
    BY DEF Owner, AgState
  <2> QED
    BY <1>12, <2>1, StepTyped, Parts DEF RunSettle, Typed, TypeOK
<1>13. CASE RunExit(c)
  BY <1>0, <1>13, AnswersTyped DEF RunExit, NativeStage, AgRuns, Verifications
<1> QED
  BY <1>1, <1>2, <1>3, <1>4, <1>5, <1>6, <1>7, <1>8, <1>9, <1>10, <1>11, <1>12,
     <1>13 DEF NativeStep

LEMMA NextTyped ==
  ASSUME Typed, [Next]_vars
  PROVE  Typed'
<1>1. CASE UNCHANGED vars
  BY <1>1 DEF vars, Typed, TypeOK, WellFormed, SourceNamed, AnswerFits
<1>2. CASE Tick
  BY <1>2 DEF Tick, Typed, TypeOK, WellFormed, SourceNamed, AnswerFits
<1>3. ASSUME NEW c \in Caller, StartFresh(c) \/ StartContinue(c) \/ StartRecover(c)
      PROVE  Typed'
  BY <1>3, StartTyped
<1>4. ASSUME NEW c \in Caller, CallerStep(c)
      PROVE  Typed'
  BY <1>4, BeginTyped, PrepareRunTyped, RefuseTyped, MandateTyped, SpawnTyped,
     CollectTyped, AbandonTyped DEF CallerStep
<1>5. ASSUME NEW c \in Caller, Crash(c)
      PROVE  Typed'
  BY <1>5, AbandonTyped
<1>6. ASSUME NEW c \in Caller, NativeStep(c)
      PROVE  Typed'
  BY <1>6, NativeTyped
<1> QED
  BY <1>1, <1>2, <1>3, <1>4, <1>5, <1>6 DEF Next

\* Every state of every run of the callers is well typed: in particular a
\* verdict, an expiry and a stage are always what the records can hold.
THEOREM TypeCorrect == Spec => []TypeOK
<1>1. Init => Typed
  BY InitTyped
<1>2. Typed /\ [Next]_vars => Typed'
  BY NextTyped
<1>3. Typed => TypeOK
  BY DEF Typed
<1> QED
  BY <1>1, <1>2, <1>3, PTL DEF Spec

-----------------------------------------------------------------------------
(* One provider request. *)

Reviewing(c) == proc[c].mode \in {"execute", "review-only"}

\* The calls only a reviewing caller makes, up to the native verification.
ReviewPath ==
  {"initial-inspect", "nightshift-admission", "admitted-inspect",
   "before-review", "review-admit", "immediately-before-review",
   "provider-run", "record-review-custody", "native-review-verification"}

\* The calls a reviewing caller reaches after AG showed it the proposal.
PastProposal ==
  {"before-review", "review-admit", "immediately-before-review",
   "provider-run", "record-review-custody", "native-review-verification",
   "record-review", "before-permission", "mandate-create",
   "permission-preflight", "operator-grant", "run-input", "finite-run",
   "settled-inspect"}

\* All the calls of a reviewing caller.
Path == {"initial"} \cup ReviewPath \cup PastProposal

Past(c) == Reviewing(c) /\ proc[c].phase \in PastProposal

\* It can no longer reach the provider.
Asked(c) ==
  /\ Past(c)
  /\ proc[c].phase \notin {"before-review", "review-admit",
                          "immediately-before-review"}
  /\ proc[c].phase = "provider-run" =>
       proc[c].child \notin {"recorded", "running"}

\* The stage was found good, or its answer is about to be.
Showed(p, answer) ==
  p.child = "none" \/ (p.child = "exited" /\ p.answer = answer)

\* A live reviewing caller that AG showed a proposal.
SawProposal(p) ==
  /\ p.status = "running" /\ p.phase = "admitted-inspect"
  /\ Showed(p, "proposal_recorded")

\* A live reviewing caller that AG showed its genesis, on its way past it.
SawGenesis(p) ==
  /\ p.status = "running"
  /\ \/ p.phase = "initial-inspect" /\ Showed(p, "observation_required")
     \/ p.phase \in {"nightshift-admission", "admitted-inspect"}

\* The lock excludes: every live invocation but an inspection holds it.
MutualExclusion ==
  \A c \in Caller : Running(c) /\ Locking(proc[c].mode) => lock = c

InOrder ==
  \A c \in Caller :
    /\ proc[c].status = "idle" => proc[c].phase = "initial"
    /\ proc[c].phase \in ReviewPath => Reviewing(c)
    /\ Reviewing(c) => proc[c].phase \in Path

ProposalStays ==
  \A c \in Caller :
    SawProposal(proc[c]) \/ Past(c) => owner.ag # "observation_required"

\* Whoever saw the genesis is the first: nobody else is past the proposal.
GenesisIsFirst ==
  \A c, d \in Caller : SawGenesis(proc[c]) /\ Past(d) => c = d

OnlyOnePast == \A c, d \in Caller : Past(c) /\ Past(d) => c = d

RequestAccounted ==
  /\ owner.requests <= 1
  /\ owner.requests > 0 => \E c \in Caller : Asked(c)

RequestInv ==
  /\ Typed /\ MutualExclusion /\ InOrder /\ ProposalStays
  /\ GenesisIsFirst /\ OnlyOnePast /\ RequestAccounted

LEMMA InitInv == Init => RequestInv
BY InitTyped
   DEF Init, RequestInv, MutualExclusion, InOrder, ProposalStays,
       GenesisIsFirst, OnlyOnePast, RequestAccounted, Idle, Genesis, Running,
       Past, PastProposal, ReviewPath, Path, SawProposal, SawGenesis, Reviewing

\* A step within one stage of c: its child moves, or c ends.
LEMMA WithinStage ==
  ASSUME RequestInv, NEW c \in Caller, NEW p,
         proc' = [proc EXCEPT ![c] = p],
         p.mode = proc[c].mode, p.phase = proc[c].phase,
         p.status = proc[c].status \/ p.status \in {"ended", "crashed"},
         \/ lock' = lock
         \/ lock = c /\ p.status # "running" /\ lock' = NoCaller,
         p.child \in {"recorded", "running"} =>
           proc[c].child \in {"recorded", "running"},
         SawProposal(p) =>
           SawProposal(proc[c]) \/ owner.ag # "observation_required",
         SawGenesis(p) =>
           SawGenesis(proc[c]) \/ owner.ag = "observation_required",
         owner.ag # "observation_required" =>
           owner'.ag # "observation_required"
  PROVE  /\ MutualExclusion' /\ InOrder' /\ ProposalStays'
         /\ GenesisIsFirst' /\ OnlyOnePast'
         /\ \A d \in Caller : Asked(d) => Asked(d)'
<1> USE DEF RequestInv
<1>1. /\ proc'[c] = p
      /\ \A d \in Caller : d # c => proc'[d] = proc[d]
  BY DEF Typed, TypeOK
<1>2. \A d \in Caller : Past(d)' <=> Past(d)
  BY <1>1 DEF Past, Reviewing
<1>3. MutualExclusion'
  BY <1>1 DEF MutualExclusion, Running
<1>4. InOrder'
  BY <1>1 DEF InOrder, Reviewing
<1>5. ProposalStays'
  BY <1>1, <1>2 DEF ProposalStays
<1>6. GenesisIsFirst'
  BY <1>1, <1>2 DEF GenesisIsFirst, ProposalStays
<1>7. OnlyOnePast'
  BY <1>2 DEF OnlyOnePast
<1>8. \A d \in Caller : Asked(d) => Asked(d)'
  BY <1>1, <1>2 DEF Asked
<1> QED
  BY <1>3, <1>4, <1>5, <1>6, <1>7, <1>8

\* What has been asked stays accounted for while nobody asks again.
LEMMA StillAccounted ==
  ASSUME RequestAccounted, \A d \in Caller : Asked(d) => Asked(d)',
         owner'.requests = owner.requests
  PROVE  RequestAccounted'
BY DEF RequestAccounted

LEMMA EnterInv ==
  ASSUME RequestInv, NEW c \in Caller, NEW m \in Mode,
         NEW s \in Caller \cup {NoCaller}, Enter(c, m, s), Typed'
  PROVE  RequestInv'
<1> DEFINE p == [Idle EXCEPT !.mode = m, !.source = s, !.status = "running"]
<1> USE DEF RequestInv
<1>1. /\ proc'[c] = p /\ \A d \in Caller : d # c => proc'[d] = proc[d]
      /\ owner' = owner
  BY DEF Enter, Typed, TypeOK
<1>2. p.phase = "initial" /\ p.status = "running" /\ p.mode = m
  BY DEF Idle
<1> HIDE DEF p
<1>3. /\ ~Past(c) /\ ~Past(c)' /\ ~SawProposal(p) /\ ~SawGenesis(p)
  BY <1>1, <1>2 DEF Past, PastProposal, SawProposal, SawGenesis, Enter, InOrder
<1>4. \A d \in Caller : Past(d)' <=> Past(d)
  BY <1>1, <1>3 DEF Past, Reviewing
<1>5. MutualExclusion'
  BY <1>1, <1>2 DEF MutualExclusion, Enter, Running
<1>6. InOrder'
  BY <1>1, <1>2 DEF InOrder, Reviewing, ReviewPath, Path
<1>7. ProposalStays' /\ GenesisIsFirst' /\ OnlyOnePast'
  BY <1>1, <1>3, <1>4 DEF ProposalStays, GenesisIsFirst, OnlyOnePast
<1>8. \A d \in Caller : Asked(d) => Asked(d)'
  BY <1>1, <1>3, <1>4 DEF Asked
<1> QED
  BY <1>1, <1>5, <1>6, <1>7, <1>8, StillAccounted

\* The only way past the proposal is through the admitted inspection.
LEMMA Onward ==
  ASSUME NEW m, NEW q, Successor(m, q) # "end"
  PROVE  /\ Successor(m, q) \in ReviewPath =>
              \/ q \in ReviewPath
              \/ q = "initial" /\ m \in {"execute", "review-only"}
         /\ m \in {"execute", "review-only"} /\ q \in Path =>
              /\ Successor(m, q) \in Path
              /\ Successor(m, q) \in PastProposal <=>
                   q \in PastProposal \cup {"admitted-inspect"}
         /\ Successor(m, q) \in {"before-review", "review-admit",
                                "immediately-before-review",
                                "provider-run"} =>
              q \in {"admitted-inspect", "before-review", "review-admit",
                    "immediately-before-review"}
         /\ Successor(m, q) = "admitted-inspect" => q = "nightshift-admission"
         /\ Successor(m, q) = "nightshift-admission" => q = "initial-inspect"
<1> DEFINE r == Successor(m, q)
<1> SUFFICES
      /\ r \in ReviewPath =>
           q \in ReviewPath \/ (q = "initial" /\ m \in {"execute", "review-only"})
      /\ m \in {"execute", "review-only"} /\ q \in Path =>
           /\ r \in Path
           /\ r \in PastProposal <=> q \in PastProposal \cup {"admitted-inspect"}
      /\ r \in {"before-review", "review-admit", "immediately-before-review",
               "provider-run"} =>
           q \in {"admitted-inspect", "before-review", "review-admit",
                 "immediately-before-review"}
      /\ r = "admitted-inspect" => q = "nightshift-admission"
      /\ r = "nightshift-admission" => q = "initial-inspect"
  OBVIOUS
<1>1. CASE q = "initial"
  BY <1>1 DEF Successor, First, ReviewPath, PastProposal, Path
<1>2. CASE q = "native-review-verification"
  BY <1>2 DEF Successor, AfterVerification, ReviewPath, PastProposal, Path
<1>3. CASE q \in ReviewPath \ {"native-review-verification"}
  BY <1>3 DEF Successor, ReviewPath, PastProposal, Path
<1>4. CASE q \notin ReviewPath \cup {"initial"}
  BY <1>4 DEF Successor, ReviewPath, PastProposal, Path
<1> QED
  BY <1>1, <1>2, <1>3, <1>4

\* A step of c, while no call is outstanding, from one stage to the next.
LEMMA NextStageInv ==
  ASSUME RequestInv, NEW c \in Caller, NEW p,
         Ready(c), Following(c) # "end", Typed',
         proc' = [proc EXCEPT ![c] = p],
         p.mode = proc[c].mode, p.status = proc[c].status,
         p.phase = Following(c),
         p.phase \in ReviewPath => p.child = "recorded",
         UNCHANGED <<lock, owner>>
  PROVE  RequestInv'
<1> USE DEF RequestInv, Following
<1>1. /\ proc'[c] = p
      /\ \A d \in Caller : d # c => proc'[d] = proc[d]
      /\ proc[c].child = "none" /\ proc[c].status = "running"
  BY DEF Typed, TypeOK, Ready, Running
<1>2. \A d \in Caller : d # c => (Past(d)' <=> Past(d))
  BY <1>1 DEF Past, Reviewing
<1>3. Reviewing(c)' <=> Reviewing(c)
  BY <1>1 DEF Reviewing
<1>4. Past(c) => Past(c)'
  BY <1>1, <1>3, Onward DEF Past, Reviewing, Path
<1>5. Past(c)' => Past(c) \/ (Reviewing(c) /\ proc[c].phase = "admitted-inspect")
  BY <1>1, <1>3, Onward DEF Past, Reviewing, InOrder
<1>6. proc[c].phase = "admitted-inspect" =>
        SawProposal(proc[c]) /\ SawGenesis(proc[c])
  BY <1>1 DEF SawProposal, SawGenesis, Showed
<1>7. SawGenesis(p) => SawGenesis(proc[c])
  BY <1>1, Onward DEF SawGenesis, Showed, ReviewPath
<1>8. ~SawProposal(p)
  BY DEF SawProposal, Showed, ReviewPath
<1>9. MutualExclusion'
  BY <1>1 DEF MutualExclusion, Running
<1>10. InOrder'
  BY <1>1, Onward DEF InOrder, Reviewing
<1>11. ProposalStays'
  BY <1>1, <1>2, <1>5, <1>6, <1>8 DEF ProposalStays
<1>12. \A d \in Caller : SawGenesis(proc[d]) /\ Past(c)' => c = d
  \* A live reviewing caller is alone, by the lock.
  <2> SUFFICES ASSUME NEW d \in Caller, SawGenesis(proc[d]), Past(c)'
               PROVE  c = d
    OBVIOUS
  <2>1. Reviewing(d) /\ Running(d)
    BY DEF InOrder, SawGenesis, ReviewPath, Running
  <2>2. Reviewing(c) /\ Running(c)
    BY <1>1, <1>3 DEF Past, Running
  <2> QED
    BY <2>1, <2>2 DEF MutualExclusion, Reviewing, Locking
<1>13. GenesisIsFirst'
  <2> SUFFICES ASSUME NEW d \in Caller, NEW e \in Caller,
                      SawGenesis(proc'[d]), Past(e)'
               PROVE  d = e
    BY DEF GenesisIsFirst
  <2>1. SawGenesis(proc[d])
    BY <1>1, <1>7
  <2>2. CASE e = c
    BY <2>1, <2>2, <1>12
  <2>3. CASE e # c
    BY <2>1, <2>3, <1>2 DEF GenesisIsFirst
  <2> QED
    BY <2>2, <2>3
<1>14. OnlyOnePast'
  BY <1>2, <1>5, <1>6 DEF OnlyOnePast, GenesisIsFirst
<1>15. \A d \in Caller : Asked(d) => Asked(d)'
  <2>1. Asked(c) => Asked(c)'
    BY <1>1, <1>4, Onward DEF Asked, Past, PastProposal
  <2> QED
    BY <2>1, <1>1, <1>2 DEF Asked
<1> QED
  BY <1>9, <1>10, <1>11, <1>13, <1>14, <1>15, StillAccounted

\* A step within a stage at which nothing is asked preserves the invariant.
LEMMA WithinStageInv ==
  ASSUME RequestInv, NEW c \in Caller, NEW p, Typed',
         proc' = [proc EXCEPT ![c] = p],
         p.mode = proc[c].mode, p.phase = proc[c].phase,
         p.status = proc[c].status \/ p.status \in {"ended", "crashed"},
         \/ lock' = lock
         \/ lock = c /\ p.status # "running" /\ lock' = NoCaller,
         p.child \in {"recorded", "running"} =>
           proc[c].child \in {"recorded", "running"},
         SawProposal(p) =>
           SawProposal(proc[c]) \/ owner.ag # "observation_required",
         SawGenesis(p) =>
           SawGenesis(proc[c]) \/ owner.ag = "observation_required",
         owner.ag # "observation_required" =>
           owner'.ag # "observation_required",
         owner'.requests = owner.requests
  PROVE  RequestInv'
BY WithinStage, StillAccounted DEF RequestInv

LEMMA TerminateInv ==
  ASSUME RequestInv, NEW c \in Caller, NEW o, NEW code, NEW child,
         Terminate(c, o, code, child), child \in {"none", "running"},
         child = "running" => proc[c].child = "running", Typed'
  PROVE  RequestInv'
<1> DEFINE p == Gone(c, "ended", child)
<1>1. /\ p.mode = proc[c].mode /\ p.phase = proc[c].phase
      /\ p.status = "ended" /\ p.child = child
  BY Parts DEF Gone, Process, RequestInv
<1>2. /\ proc' = [proc EXCEPT ![c] = p]
      /\ lock' = IF lock = c THEN NoCaller ELSE lock
      /\ owner' = owner
  BY DEF Terminate
<1> HIDE DEF p
<1> QED
  BY <1>1, <1>2, WithinStageInv DEF SawProposal, SawGenesis

LEMMA CrashInv ==
  ASSUME RequestInv, NEW c \in Caller, Crash(c), Typed'
  PROVE  RequestInv'
<1> DEFINE p == Gone(c, "crashed", Orphan(c))
<1>1. /\ p.mode = proc[c].mode /\ p.phase = proc[c].phase
      /\ p.status = "crashed" /\ p.child = Orphan(c)
  BY Parts DEF Gone, Process, RequestInv
<1>2. /\ proc' = [proc EXCEPT ![c] = p]
      /\ lock' = IF lock = c THEN NoCaller ELSE lock
      /\ owner' = owner
  BY DEF Crash
<1>3. Orphan(c) \in {"recorded", "running"} => proc[c].child = "running"
  BY DEF Orphan
<1> HIDE DEF p
<1> QED
  BY <1>1, <1>2, <1>3, WithinStageInv DEF SawProposal, SawGenesis

\* The child of c moves and nothing else does.
LEMMA ChildInv ==
  ASSUME RequestInv, NEW c \in Caller, NEW child, Typed',
         proc' = [proc EXCEPT ![c] = [proc[c] EXCEPT !.child = child]],
         proc[c].phase \notin {"initial-inspect", "admitted-inspect"} \/
           child \in {"running", "refused"},
         child = "running" => proc[c].child \in {"recorded", "running"},
         child # "recorded",
         lock' = lock, owner'.ag = owner.ag, owner'.requests = owner.requests
  PROVE  RequestInv'
<1> DEFINE p == [proc[c] EXCEPT !.child = child]
<1>1. /\ p.mode = proc[c].mode /\ p.phase = proc[c].phase
      /\ p.status = proc[c].status /\ p.child = child
  BY Parts DEF Process, RequestInv
<1>2. proc' = [proc EXCEPT ![c] = p]
  OBVIOUS
<1> HIDE DEF p
<1>3. ~SawProposal(p)
  BY <1>1 DEF SawProposal, Showed
<1>4. SawGenesis(p) => SawGenesis(proc[c])
  BY <1>1 DEF SawGenesis, Showed
<1>5. p.child \in {"recorded", "running"} =>
        proc[c].child \in {"recorded", "running"}
  BY <1>1
<1>6. \A P : proc' = [proc EXCEPT ![c] = P] /\ P = p => RequestInv'
  BY <1>1, <1>3, <1>4, <1>5, WithinStageInv
<1> QED
  BY <1>2, <1>6

LEMMA CollectInv ==
  ASSUME RequestInv, NEW c \in Caller, Collect(c), Typed'
  PROVE  RequestInv'
<1> DEFINE p == Collected(c)
<1>1. /\ p.mode = proc[c].mode /\ p.phase = proc[c].phase
      /\ p.status = proc[c].status /\ p.child = "none"
  BY Parts DEF Collected, Process, RequestInv
<1>2. /\ proc' = [proc EXCEPT ![c] = p] /\ lock' = lock /\ owner' = owner
      /\ proc[c].child = "exited"
  BY DEF Collect
<1> HIDE DEF p
<1>3. SawProposal(p) => SawProposal(proc[c])
  BY <1>1, <1>2 DEF SawProposal, Showed, Collect, Post
<1>4. SawGenesis(p) => SawGenesis(proc[c])
  BY <1>1, <1>2 DEF SawGenesis, Showed, Collect, Post
<1> QED
  BY <1>1, <1>2, <1>3, <1>4, WithinStageInv

LEMMA CallerInv ==
  ASSUME RequestInv, NEW c \in Caller, CallerStep(c), Typed'
  PROVE  RequestInv'
<1>1. CASE Begin(c)
  <2> DEFINE p == Beginning(c, Following(c))
  <2>1. /\ p.mode = proc[c].mode /\ p.status = proc[c].status
        /\ p.phase = Following(c) /\ p.child = "recorded"
    BY Parts DEF Beginning, Process, RequestInv
  <2>2. proc' = [proc EXCEPT ![c] = p]
    BY <1>1 DEF Begin
  <2> HIDE DEF p
  <2> QED
    BY <1>1, <2>1, <2>2, NextStageInv DEF Begin
<1>2. CASE PrepareRun(c)
  <2> DEFINE p == [proc[c] EXCEPT !.phase = "run-input"]
  <2>1. /\ p.mode = proc[c].mode /\ p.status = proc[c].status
        /\ p.phase = "run-input"
    BY Parts DEF Process, RequestInv
  <2>2. proc' = [proc EXCEPT ![c] = p] /\ Following(c) = "run-input"
    BY <1>2 DEF PrepareRun
  <2> HIDE DEF p
  <2> QED
    BY <1>2, <2>1, <2>2, NextStageInv DEF PrepareRun, ReviewPath
<1>3. CASE RefuseNext(c) \/ Finish(c) \/ CollectRefusal(c)
  BY <1>3, TerminateInv DEF RefuseNext, Finish, CollectRefusal
<1>4. CASE Abandon(c)
  BY <1>4, TerminateInv DEF Abandon, Orphan
<1>5. CASE OpenMandate(c)
  BY <1>5, ChildInv, TerminateInv, Parts
     DEF OpenMandate, CreateMandate, Owner, RequestInv
<1>6. CASE FillMandate(c)
  BY <1>6, ChildInv, Parts DEF FillMandate, Owner, RequestInv
<1>7. CASE Spawn(c)
  BY <1>7, ChildInv DEF Spawn
<1>8. CASE Collect(c)
  BY <1>8, CollectInv
<1> QED
  BY <1>1, <1>2, <1>3, <1>4, <1>5, <1>6, <1>7, <1>8 DEF CallerStep

\* A native program exits: an inspection answers the state AG is in.
LEMMA AnswersInv ==
  ASSUME RequestInv, NEW c \in Caller, NEW a, NEW t, Answers(c, a, t),
         proc[c].child = "running",
         proc[c].phase \in {"initial-inspect", "admitted-inspect"} =>
           a = owner.ag,
         lock' = lock,
         owner.ag # "observation_required" =>
           owner'.ag # "observation_required"
  PROVE  /\ MutualExclusion' /\ InOrder' /\ ProposalStays'
         /\ GenesisIsFirst' /\ OnlyOnePast'
         /\ \A d \in Caller : Asked(d) => Asked(d)'
         /\ proc'[c].mode = proc[c].mode /\ proc'[c].phase = proc[c].phase
         /\ proc'[c].child \in {"none", "exited", "refused"}
<1>1. PICK p :
        /\ proc' = [proc EXCEPT ![c] = p]
        /\ p.mode = proc[c].mode /\ p.phase = proc[c].phase
        /\ p.status = proc[c].status
        /\ \/ p.child \in {"exited", "refused"} /\ p.answer = a
           \/ p.child = "none" /\ p.status # "running"
  <2> proc[c] \in Process
    BY Parts DEF RequestInv
  <2>1. CASE Running(c)
    <3>1. PICK code \in {"exited", "refused"} :
            proc' = [proc EXCEPT ![c] =
                      [proc[c] EXCEPT !.child = code, !.answer = a, !.when = t]]
      BY <2>1 DEF Answers
    <3> DEFINE p == [proc[c] EXCEPT !.child = code, !.answer = a, !.when = t]
    <3>2. /\ p.mode = proc[c].mode /\ p.phase = proc[c].phase
          /\ p.status = proc[c].status
          /\ p.child \in {"exited", "refused"} /\ p.answer = a
      BY DEF Process
    <3>3. proc' = [proc EXCEPT ![c] = p]
      BY <3>1
    <3> HIDE DEF p
    <3> QED
      BY <3>2, <3>3
  <2>2. CASE ~Running(c)
    <3> DEFINE p == [proc[c] EXCEPT !.child = "none"]
    <3>1. /\ p.mode = proc[c].mode /\ p.phase = proc[c].phase
          /\ p.status = proc[c].status
          /\ p.child = "none" /\ p.status # "running"
      BY <2>2 DEF Process, Running
    <3>2. proc' = [proc EXCEPT ![c] = p]
      BY <2>2 DEF Answers
    <3> HIDE DEF p
    <3> QED
      BY <3>1, <3>2
  <2> QED
    BY <2>1, <2>2
<1>2. proc'[c] = p
  BY <1>1 DEF RequestInv, Typed, TypeOK
<1>3. SawProposal(p) => owner.ag # "observation_required"
  BY <1>1 DEF SawProposal, Showed
<1>4. SawGenesis(p) => SawGenesis(proc[c]) \/ owner.ag = "observation_required"
  BY <1>1 DEF SawGenesis, Showed
<1> QED
  BY <1>1, <1>2, <1>3, <1>4, WithinStage

\* The provider's own step: whoever can still reach it is the only one past
\* the proposal, so nothing was asked before.
LEMMA ProviderInv ==
  ASSUME RequestInv, NEW c \in Caller, NativeProvider(c), Typed'
  PROVE  RequestInv'
<1>1. /\ proc[c].child = "running" /\ proc[c].phase = "provider-run"
      /\ lock' = lock
      /\ owner' = [owner EXCEPT !.requests = @ + 1]
      /\ \E a : Answers(c, a, now)
  BY DEF NativeProvider, Native
<1>2. owner'.ag = owner.ag /\ owner'.requests = owner.requests + 1
  BY <1>1, Parts DEF Owner, RequestInv
<1>3. /\ MutualExclusion' /\ InOrder' /\ ProposalStays'
      /\ GenesisIsFirst' /\ OnlyOnePast'
      /\ proc'[c].mode = proc[c].mode /\ proc'[c].phase = proc[c].phase
      /\ proc'[c].child \in {"none", "exited", "refused"}
  BY <1>1, <1>2, AnswersInv
<1>4. Past(c) /\ ~Asked(c)
  BY <1>1 DEF Past, Asked, RequestInv, InOrder, ReviewPath, PastProposal
<1>5. \A d \in Caller : ~Asked(d)
  BY <1>4 DEF RequestInv, OnlyOnePast, Asked
<1>6. owner.requests = 0
  BY <1>5, Parts DEF RequestInv, RequestAccounted, Owner
<1>7. Asked(c)'
  BY <1>1, <1>3, <1>4 DEF Asked, Past, Reviewing
<1>8. RequestAccounted'
  BY <1>2, <1>6, <1>7 DEF RequestAccounted
<1> QED
  BY <1>3, <1>8 DEF RequestInv

LEMMA NativeInv ==
  ASSUME RequestInv, NEW c \in Caller, NativeStep(c), Typed'
  PROVE  RequestInv'
<1> USE DEF Native
<1>0. owner \in Owner
  BY Parts DEF RequestInv
<1>1. CASE Decline(c)
  BY <1>1, ChildInv DEF Decline
<1>2. CASE NativeProvider(c)
  BY <1>2, ProviderInv
<1>3. ASSUME NEW a, NEW t, Answers(c, a, t), proc[c].child = "running",
             proc[c].phase \in {"initial-inspect", "admitted-inspect"} =>
               a = owner.ag,
             lock' = lock, owner'.requests = owner.requests,
             owner.ag # "observation_required" =>
               owner'.ag # "observation_required"
      PROVE  RequestInv'
  BY <1>3, AnswersInv, StillAccounted DEF RequestInv
<1>4. CASE NativeRead(c)
  BY <1>3, <1>4 DEF NativeRead
<1>5. CASE NativeAdmission(c)
  BY <1>0, <1>3, <1>5 DEF NativeAdmission, Owner
<1>6. CASE NativeReviewAdmit(c)
  BY <1>0, <1>3, <1>6 DEF NativeReviewAdmit, Owner
<1>7. CASE NativeVerify(c)
  BY <1>3, <1>7 DEF NativeVerify, Verifications
<1>8. CASE NativeRecordReview(c)
  BY <1>0, <1>3, <1>8 DEF NativeRecordReview, Owner
<1>9. CASE NativePermission(c)
  BY <1>3, <1>9 DEF NativePermission
<1>10. CASE NativeGrant(c)
  BY <1>0, <1>3, <1>10 DEF NativeGrant, Owner
<1>11. CASE RunExit(c)
  BY <1>3, <1>11 DEF RunExit
<1>12. CASE RunSpend(c) \/ RunAttempt(c) \/ RunSettle(c)
  <2>1. /\ UNCHANGED <<lock, proc>> /\ owner'.requests = owner.requests
        /\ owner'.ag # "observation_required"
    BY <1>0, <1>12 DEF RunSpend, RunAttempt, RunSettle, Owner
  <2> QED
    BY <2>1 DEF RequestInv, MutualExclusion, InOrder, ProposalStays,
       GenesisIsFirst, OnlyOnePast, RequestAccounted, Past, Asked, Reviewing,
       Running
<1> QED
  BY <1>1, <1>2, <1>4, <1>5, <1>6, <1>7, <1>8, <1>9, <1>10, <1>11, <1>12
     DEF NativeStep

LEMMA NextInv ==
  ASSUME RequestInv, [Next]_vars
  PROVE  RequestInv'
<1>0. Typed'
  BY NextTyped DEF RequestInv
<1>1. CASE UNCHANGED vars \/ Tick
  <2>1. UNCHANGED <<lock, proc, owner>>
    BY <1>1 DEF vars, Tick
  <2> QED
    BY <1>0, <2>1 DEF RequestInv, MutualExclusion, InOrder, ProposalStays,
       GenesisIsFirst, OnlyOnePast, RequestAccounted, Past, Asked, Reviewing,
       Running
<1>2. ASSUME NEW c \in Caller,
             StartFresh(c) \/ StartContinue(c) \/ StartRecover(c)
      PROVE  RequestInv'
  BY <1>0, <1>2, EnterInv DEF StartFresh, StartContinue, StartRecover, Mode
<1>3. ASSUME NEW c \in Caller, CallerStep(c) \/ Crash(c) \/ NativeStep(c)
      PROVE  RequestInv'
  BY <1>0, <1>3, CallerInv, CrashInv, NativeInv
<1> QED
  BY <1>1, <1>2, <1>3 DEF Next

LEMMA RequestInvariance == Spec => []RequestInv
<1>1. Init => RequestInv
  BY InitInv
<1>2. RequestInv /\ [Next]_vars => RequestInv'
  BY NextInv
<1> QED
  BY <1>1, <1>2, PTL DEF Spec

\* The owner lock excludes: at any time at most one invocation other than
\* an inspection is alive, whatever crashed before and whatever a dead one
\* left running.
THEOREM LockExcludes == Spec => []MutualExclusion
<1>1. RequestInv => MutualExclusion
  BY DEF RequestInv
<1> QED
  BY <1>1, RequestInvariance, PTL

\* The provider is asked at most once, however many invocations are started,
\* killed and replaced, and whatever programs outlive them.
THEOREM AskedOnce == Spec => []OneProviderRequest
<1>1. RequestInv => OneProviderRequest
  BY DEF RequestInv, RequestAccounted, OneProviderRequest
<1> QED
  BY <1>1, RequestInvariance, PTL

-----------------------------------------------------------------------------
(***************************************************************************)
(* What the caller does with the authority it is given: one grant, inside  *)
(* the mandate, the review and the observation; authority spent before the *)
(* one deadline; the order of records and effects.  At the end, that the   *)
(* callers together implement Occurrence and each of them NativeCall.      *)
(*                                                                         *)
(* The invariants come in layers, each inductive relative to those before  *)
(* it: where an invocation is and what it recorded (Routed), the review it *)
(* works with (Reviewed), what AG's state says was done (Counted), the     *)
(* window (Windowed), who holds the mandate and was granted (Granting),    *)
(* the limits of mandate, grant and run document (Bounded), and the        *)
(* records an effect leaves behind it (Evident).                           *)
(***************************************************************************)

HIDE ModesAssumption

(* The invariants. *)

\* The calls after the window was found within the observation.
AfterPermission ==
  {"mandate-create", "permission-preflight", "operator-grant", "run-input",
   "finite-run", "settled-inspect"}

\* The calls that accept a review and act on it.
AcceptPath == {"record-review", "before-permission"} \cup AfterPermission

AfterGrant == {"run-input", "finite-run", "settled-inspect"}

AfterMandate ==
  {"permission-preflight", "operator-grant"} \cup AfterGrant

\* The stages a mode can be in.
Route(m) ==
  {"initial"} \cup
  CASE m = "execute" -> ReviewPath \cup AcceptPath
    [] m = "review-only" -> ReviewPath
    [] m = "continue" ->
         {"before-acceptance-inspect", "native-review-reverification"}
           \cup AcceptPath
    [] m = "recover" ->
         {"before-recovery", "same-run-recovery", "after-recovery"}
    [] m = "inspect" -> {"read-only"}
    [] OTHER -> {}

\* A number per stage that every step of a route increases.
Rank(q) ==
  CASE q = "initial" -> 0
    [] q \in {"initial-inspect", "before-acceptance-inspect",
              "before-recovery", "read-only"} -> 1
    [] q \in {"nightshift-admission", "same-run-recovery"} -> 2
    [] q \in {"admitted-inspect", "after-recovery"} -> 3
    [] q = "before-review" -> 4
    [] q = "review-admit" -> 5
    [] q = "immediately-before-review" -> 6
    [] q = "provider-run" -> 7
    [] q = "record-review-custody" -> 8
    [] q \in {"native-review-verification",
              "native-review-reverification"} -> 9
    [] q = "record-review" -> 10
    [] q = "before-permission" -> 11
    [] q = "mandate-create" -> 12
    [] q = "permission-preflight" -> 13
    [] q = "operator-grant" -> 14
    [] q = "run-input" -> 15
    [] q = "finite-run" -> 16
    [] OTHER -> 17

\* The native call that is outstanding, if any.
Outstanding(p) == IF p.child = "none" THEN {} ELSE {p.phase}

\* c is where its mode leads, and its records are those of the way there.
RoutedAt(c) ==
  /\ proc[c].phase \in Route(proc[c].mode)
  /\ proc[c].status = "idle" => proc[c].mode = "none" /\ out[c] = NoOutput
  /\ proc[c].phase # "initial" => proc[c].phase \in out[c].started
  /\ \A q \in out[c].started : Rank(q) <= Rank(proc[c].phase)
  /\ proc[c].child # "none" =>
       Running(c) \/ (proc[c].child = "running" /\ proc[c].phase \in NativeStage)
  /\ proc[c].child \in {"exited", "refused"} => proc[c].phase \in NativeStage
  /\ Running(c) =>
       out[c].started \cap NativeStage =
         (out[c].finished \cup Outstanding(proc[c])) \cap NativeStage
  /\ out[c].terminal # "absent" => proc[c].status = "ended"
  /\ out[c].terminal = "ok" => Successor(proc[c].mode, proc[c].phase) = "end"

Routed == \A c \in Caller : RoutedAt(c)

\* c is alive and the stage q, where it is, was found good.
Done(c, q) == Running(c) /\ proc[c].phase = q /\ proc[c].child = "none"

\* What c obtained itself: an accepted verdict in time.
OwnReview(c) ==
  /\ Reviewing(c) /\ (\/ proc[c].phase \in AcceptPath
                      \/ proc[c].phase = "native-review-verification"
                      \/ Done(c, "record-review-custody"))
       => out[c].verdict = "accepted" /\ out[c].candidate > 0
  /\ proc[c].mode = "execute" /\ (\/ proc[c].phase \in AcceptPath
                                  \/ Done(c, "native-review-verification"))
       => out[c].verified = "accepted"
  /\ \/ out[c].verdict # "none"
     \/ proc[c].phase = "provider-run" /\ proc[c].child = "exited"
          /\ proc[c].answer # "none"
     => owner.requests > 0

\* What c takes from another invocation: the review, or the run document.
Taken(c) ==
  /\ proc[c].mode = "continue" => RetainedCandidate(proc[c].source)
  /\ proc[c].mode = "recover" /\ proc[c].phase # "initial" =>
       RecoverableRun(proc[c].source)

ReviewedAt(c) == OwnReview(c) /\ Taken(c)

Reviewed == \A c \in Caller : ReviewedAt(c)

\* w keeps the review AG holds, and will not change it any more.
Keeps(w) ==
  /\ out[w].verdict = "accepted" /\ out[w].verified = "accepted"
  /\ out[w].candidate = owner.review
  /\ \/ proc[w].status \in {"ended", "crashed"}
     \/ proc[w].phase \in AcceptPath

\* AG holds no review before it records one.
Unreviewed == owner.ag \in {"observation_required", "proposal_recorded"}

\* AG's state says what was done so far.
CountsOfState ==
  /\ Unreviewed => owner.review = 0
  /\ owner.ag \in {"observation_required", "proposal_recorded",
                   "review_recorded"} =>
       owner.spends = 0 /\ owner.attempts = 0 /\ owner.copies = 0
  /\ owner.ag = "spent" =>
       owner.spends = 1 /\ owner.attempts = 0 /\ owner.copies = 0
  /\ owner.ag \in {"attempted", "settled_observation_required"} =>
       owner.spends = 1 /\ owner.attempts = 1 /\ owner.copies \in {0, 1}
  /\ owner.ag = "settled_observation_required" <=> owner.outcome # "none"
  /\ owner.outcome = "success" => owner.copies = 1

\* The review c is to act on is the one AG recorded.
ReviewRecorded(c) ==
  \/ proc[c].phase \in AcceptPath \ {"record-review"}
  \/ proc[c].phase = "record-review" /\ Running(c)
       /\ proc[c].child \in {"none", "exited"}
  => ~Unreviewed /\ owner.review = ReviewOf(c)

Counted ==
  /\ CountsOfState
  /\ ~Unreviewed => owner.review > 0 /\ \E w \in Caller : Keeps(w)
  /\ \A c \in Caller : ReviewRecorded(c)
  /\ \A c \in Caller :
       \/ Done(c, "settled-inspect")
       \/ out[c].terminal = "ok" /\ proc[c].mode \in {"execute", "continue"}
       => owner.outcome = "success"

\* c created the mandate store.
Holder(c) ==
  \/ proc[c].phase \in AfterMandate
  \/ proc[c].phase = "mandate-create" /\ Running(c)
       /\ proc[c].child \in {"none", "running"}

\* Docket may have c's grant: it was asked for and will not be again.
Granted(c) ==
  \/ proc[c].phase \in AfterGrant
  \/ proc[c].phase = "operator-grant"
       /\ proc[c].child \notin {"recorded", "running"}

\* Docket has c's grant.
Acknowledged(c) ==
  \/ proc[c].phase \in AfterGrant
  \/ proc[c].phase = "operator-grant" /\ Running(c)
       /\ proc[c].child \in {"none", "exited"}

OneHolder == \A c, d \in Caller : Holder(c) /\ Holder(d) => c = d

\* A review is obtained on ground nobody was granted anything on.
FreshGround ==
  \A c \in Caller : Running(c) /\ proc[c].phase \in ReviewPath =>
                      owner.mandate = NoMandate

GrantAccounted ==
  /\ owner.grants <= 1
  /\ owner.grants > 0 => \E c \in Caller : Granted(c)
  /\ \A c \in Caller : Acknowledged(c) \/ out[c].deadline # 0 =>
                         owner.grants > 0

Granting ==
  /\ \A c \in Caller : Holder(c) => owner.mandate # NoMandate
  /\ OneHolder /\ FreshGround /\ GrantAccounted

\* c, or the program it left running, knows the window it fixed.
Knows(c) == Running(c) \/ proc[c].child = "running"

\* The window c works in is open, fits the review and, once that was
\* checked, the observation.
WindowFits(c) ==
  /\ proc[c].phase \in {"before-permission"} \cup AfterPermission =>
       proc[c].expires > 0 /\ proc[c].expires <= ReviewOf(c)
  /\ proc[c].phase = "before-permission" => proc[c].issued <= now
  /\ proc[c].phase \in AfterPermission \/ Done(c, "before-permission") =>
       proc[c].expires <= FreshUntil

Windowed == \A c \in Caller : Knows(c) => WindowFits(c)

\* The mandate c wrote is the window it knows.
MandateWritten(c) ==
  /\ Knows(c)
  /\ proc[c].phase \in AfterMandate \/ Done(c, "mandate-create")
  => owner.mandate = proc[c].expires

\* A run document that was written fits the recorded review and the
\* observation.
DeadlineFits(c) ==
  out[c].deadline # 0 => /\ ~Unreviewed
                         /\ out[c].deadline <= owner.review
                         /\ out[c].deadline <= FreshUntil

Bounded ==
  /\ \A c \in Caller : MandateWritten(c) /\ DeadlineFits(c)
  /\ AuthorityWithinReview

-----------------------------------------------------------------------------
(* What a step does, field by field. *)

\* Only c moves.
Others(c) == \A d \in Caller \ {c} : proc'[d] = proc[d] /\ out'[d] = out[d]

Kept(c) ==
  /\ proc'[c].mode = proc[c].mode /\ proc'[c].source = proc[c].source
  /\ proc'[c].phase = proc[c].phase

\* c stays alive, or stays dead, where it is, with the window it knows.
Waits(c) ==
  /\ Kept(c) /\ proc'[c].status = proc[c].status
  /\ proc'[c].issued = proc[c].issued /\ proc'[c].expires = proc[c].expires

Entering(c) ==
  /\ proc[c].status = "idle" /\ UNCHANGED <<now, out, owner>>
  /\ proc'[c].status = "running" /\ proc'[c].phase = "initial"
  /\ proc'[c].child = "none"
  /\ proc'[c].mode = "continue" =>
       proc'[c].source \in Caller /\ RetainedCandidate(proc'[c].source)

Advancing(c) ==
  LET q == Following(c)
  IN /\ Running(c) /\ proc[c].child = "none" /\ q # "end" /\ Pre(c, q)
     /\ proc'[c].mode = proc[c].mode /\ proc'[c].source = proc[c].source
     /\ proc'[c].status = proc[c].status /\ proc'[c].phase = q
     /\ proc'[c].child = IF q = "run-input" THEN "none" ELSE "recorded"
     /\ q = "before-permission" =>
          proc'[c].issued = now /\ proc'[c].expires = WindowEnd(c)
     /\ q # "before-permission" => proc'[c].expires = proc[c].expires
     /\ out'[c].started = out[c].started \cup {q}
     /\ out'[c].finished = IF q = "run-input" THEN out[c].finished \cup {q}
                                             ELSE out[c].finished
     /\ out'[c].terminal = out[c].terminal /\ out'[c].verdict = out[c].verdict
     /\ out'[c].candidate = out[c].candidate
     /\ out'[c].verified = out[c].verified
     /\ out'[c].deadline = IF q = "run-input" THEN PreparedDeadline(c)
                                             ELSE out[c].deadline
     /\ UNCHANGED <<now, owner>>

Ending(c) ==
  /\ Running(c) /\ Kept(c) /\ proc'[c].status \in {"ended", "crashed"}
  /\ proc'[c].child \in {"none", "running"}
  /\ proc'[c].child = "running" =>
       /\ proc[c].child = "running" /\ proc[c].phase \in NativeStage
       /\ proc'[c].expires = proc[c].expires /\ proc'[c].issued = 0
  /\ proc'[c].status = "ended" \/ out'[c] = out[c]
  /\ out'[c].started = out[c].started /\ out'[c].deadline = out[c].deadline
  /\ out'[c].candidate = out[c].candidate
  /\ \/ out'[c].finished = out[c].finished
     \/ out'[c].finished = out[c].finished \cup {proc[c].phase}
          /\ proc[c].child \in {"exited", "refused"}
  /\ \/ out'[c].verdict = out[c].verdict
     \/ proc[c].phase = "provider-run" /\ proc[c].child = "exited"
          /\ out'[c].verdict = proc[c].answer
  /\ \/ out'[c].verified = out[c].verified
     \/ proc[c].phase \in Verifications /\ proc[c].child = "exited"
  /\ out'[c].terminal = "ok" =>
       out[c].terminal = "ok" \/ (Following(c) = "end" /\ proc[c].child = "none")
  /\ UNCHANGED <<now, owner>>

Collecting(c) ==
  /\ Running(c) /\ proc[c].child = "exited" /\ Post(c)
  /\ Waits(c) /\ proc'[c].child = "none"
  /\ out'[c].started = out[c].started
  /\ out'[c].finished = out[c].finished \cup {proc[c].phase}
  /\ out'[c].terminal = out[c].terminal /\ out'[c].deadline = out[c].deadline
  /\ out'[c].verdict = IF proc[c].phase = "provider-run" THEN proc[c].answer
                                                       ELSE out[c].verdict
  /\ out'[c].candidate = IF proc[c].phase = "record-review-custody"
                         THEN out[c].ended + ReviewAge ELSE out[c].candidate
  /\ out'[c].verified = IF proc[c].phase \in Verifications THEN proc[c].answer
                                                           ELSE out[c].verified
  /\ UNCHANGED <<now, owner>>

\* Only the mandate changes at the owners.
MandateBecomes(m) ==
  /\ owner'.mandate = m
  /\ owner'.ag = owner.ag /\ owner'.review = owner.review
  /\ owner'.requests = owner.requests /\ owner'.grants = owner.grants
  /\ owner'.grantUntil = owner.grantUntil /\ owner'.spends = owner.spends
  /\ owner'.spentAt = owner.spentAt /\ owner'.attempts = owner.attempts
  /\ owner'.copies = owner.copies /\ owner'.outcome = owner.outcome

Opening(c) ==
  /\ Running(c) /\ proc[c].phase = "mandate-create"
  /\ proc[c].child = "recorded" /\ owner.mandate = NoMandate
  /\ Waits(c) /\ proc'[c].child = "running"
  /\ MandateBecomes(EmptyMandate) /\ UNCHANGED <<now, out>>

Filling(c) ==
  /\ Running(c) /\ proc[c].phase = "mandate-create"
  /\ proc[c].child = "running"
  /\ Waits(c) /\ proc'[c].child = "none"
  /\ out'[c].started = out[c].started
  /\ out'[c].finished = out[c].finished \cup {proc[c].phase}
  /\ out'[c].terminal = out[c].terminal /\ out'[c].deadline = out[c].deadline
  /\ out'[c].verdict = out[c].verdict /\ out'[c].verified = out[c].verified
  /\ out'[c].candidate = out[c].candidate
  /\ MandateBecomes(proc[c].expires) /\ UNCHANGED now

Spawning(c) ==
  /\ Running(c) /\ proc[c].child = "recorded"
  /\ proc[c].phase # "mandate-create"
  /\ Waits(c) /\ proc'[c].child = "running" /\ UNCHANGED <<now, out, owner>>

\* A native program of c comes to its end, dead or alive its caller.
Answering(c) ==
  /\ proc[c].child = "running" /\ proc[c].phase \in NativeStage
  /\ Waits(c) /\ UNCHANGED <<now, out>>
  /\ Running(c) => proc'[c].child \in {"exited", "refused"}
  /\ ~Running(c) => proc'[c].child = "none"

\* What it did at the owners by then.
Effect(c) ==
  \/ Decline(c) /\ proc'[c].child = "refused"
  \/ NativeRead(c) \/ NativeVerify(c) \/ NativePermission(c) \/ RunExit(c)
  \/ NativeAdmission(c) \/ NativeReviewAdmit(c) \/ NativeProvider(c)
  \/ NativeRecordReview(c) \/ NativeGrant(c)

\* ag run acts and is not yet done.
Driving(c) == RunSpend(c) \/ RunAttempt(c) \/ RunSettle(c)

Moves(c) ==
  \/ Entering(c) \/ Advancing(c) \/ Ending(c) \/ Collecting(c)
  \/ Opening(c) \/ Filling(c) \/ Spawning(c)
  \/ Answering(c) /\ Effect(c)

LEMMA EnterMoves ==
  ASSUME Typed, NEW c \in Caller,
         StartFresh(c) \/ StartContinue(c) \/ StartRecover(c)
  PROVE  Others(c) /\ Entering(c)
<1>1. PICK m \in Mode, s \in Caller \cup {NoCaller} :
        /\ Enter(c, m, s)
        /\ m = "continue" => s \in Caller /\ RetainedCandidate(s)
  BY DEF StartFresh, StartContinue, StartRecover, Mode
<1> DEFINE p == [Idle EXCEPT !.mode = m, !.source = s, !.status = "running"]
<1>2. /\ p.mode = m /\ p.source = s /\ p.status = "running"
      /\ p.phase = "initial" /\ p.child = "none"
  BY DEF Idle
<1>3. proc' = [proc EXCEPT ![c] = p] /\ UNCHANGED <<now, out, owner>>
  BY <1>1 DEF Enter
<1> HIDE DEF p
<1>4. proc'[c] = p /\ \A d \in Caller \ {c} : proc'[d] = proc[d]
  BY <1>3 DEF Typed, TypeOK
<1> QED
  BY <1>1, <1>2, <1>3, <1>4 DEF Others, Entering, Enter

\* proc and out of one invocation replaced.
LEMMA OneMoves ==
  ASSUME Typed, NEW c \in Caller, NEW p, NEW o,
         proc' = [proc EXCEPT ![c] = p],
         (out' = out /\ o = out[c]) \/ out' = [out EXCEPT ![c] = o]
  PROVE  proc'[c] = p /\ out'[c] = o /\ Others(c)
BY DEF Typed, TypeOK, Others

LEMMA AdvanceMoves ==
  ASSUME Typed, NEW c \in Caller, Begin(c) \/ PrepareRun(c)
  PROVE  Others(c) /\ Advancing(c)
<1> proc[c] \in Process /\ out[c] \in Output
  BY Parts
<1>1. CASE Begin(c)
  <2> DEFINE q == Following(c)
             p == Beginning(c, q)
             o == Announced(c, q)
  <2>1. proc'[c] = p /\ out'[c] = o /\ Others(c)
    BY <1>1, OneMoves DEF Begin
  <2>2. /\ p.mode = proc[c].mode /\ p.source = proc[c].source
        /\ p.status = proc[c].status /\ p.phase = q /\ p.child = "recorded"
        /\ q = "before-permission" => p.issued = now /\ p.expires = WindowEnd(c)
        /\ q # "before-permission" => p.expires = proc[c].expires
    BY DEF Beginning, Process
  <2>3. /\ o.started = out[c].started \cup {q} /\ o.finished = out[c].finished
        /\ o.terminal = out[c].terminal /\ o.verdict = out[c].verdict
        /\ o.candidate = out[c].candidate /\ o.verified = out[c].verified
        /\ o.deadline = out[c].deadline
    BY DEF Announced, Output
  <2>4. /\ Running(c) /\ proc[c].child = "none" /\ Pre(c, q)
        /\ q # "end" /\ q # "run-input" /\ UNCHANGED <<now, owner>>
    BY <1>1 DEF Begin, Ready
  <2> HIDE DEF p, o
  <2> QED
    BY <2>1, <2>2, <2>3, <2>4 DEF Advancing
<1>2. CASE PrepareRun(c)
  <2> DEFINE p == [proc[c] EXCEPT !.phase = "run-input"]
             o == Prepared(c)
  <2>1. proc'[c] = p /\ out'[c] = o /\ Others(c)
    BY <1>2, OneMoves DEF PrepareRun
  <2>2. /\ p.mode = proc[c].mode /\ p.source = proc[c].source
        /\ p.status = proc[c].status /\ p.phase = "run-input"
        /\ p.child = proc[c].child /\ p.expires = proc[c].expires
    BY DEF Process
  <2>3. /\ o.started = out[c].started \cup {"run-input"}
        /\ o.finished = out[c].finished \cup {"run-input"}
        /\ o.terminal = out[c].terminal /\ o.verdict = out[c].verdict
        /\ o.candidate = out[c].candidate /\ o.verified = out[c].verified
        /\ o.deadline = PreparedDeadline(c)
    BY DEF Prepared, Output
  <2>4. /\ Running(c) /\ proc[c].child = "none" /\ Pre(c, "run-input")
        /\ Following(c) = "run-input" /\ UNCHANGED <<now, owner>>
    BY <1>2 DEF PrepareRun, Ready
  <2> HIDE DEF p, o
  <2> QED
    BY <2>1, <2>2, <2>3, <2>4 DEF Advancing
<1> QED
  BY <1>1, <1>2

\* The process of an invocation that is over.
LEMMA GoneFields ==
  ASSUME Typed, NEW c \in Caller, NEW status, NEW child
  PROVE  LET p == Gone(c, status, child)
         IN /\ p.mode = proc[c].mode /\ p.source = proc[c].source
            /\ p.phase = proc[c].phase /\ p.status = status /\ p.child = child
            /\ child = "running" => p.expires = proc[c].expires
            /\ p.issued = 0
BY Parts DEF Gone, Process

\* The files of a stage whose answer is recorded.
LEMMA RecordedFields ==
  ASSUME Typed, NEW c \in Caller
  PROVE  LET o == Recorded(c)
             p == proc[c].phase
             said == proc[c].child = "exited"
         IN /\ o.started = out[c].started
            /\ o.finished = out[c].finished \cup {p}
            /\ o.terminal = out[c].terminal /\ o.deadline = out[c].deadline
            /\ o.verdict = IF said /\ p = "provider-run" THEN proc[c].answer
                                                       ELSE out[c].verdict
            /\ o.candidate = IF said /\ p = "record-review-custody" /\ Projects(c)
                             THEN out[c].ended + ReviewAge ELSE out[c].candidate
            /\ o.verified = IF said /\ p \in Verifications THEN proc[c].answer
                                                         ELSE out[c].verified
BY Parts DEF Recorded, Verdict, Output

LEMMA TerminateMoves ==
  ASSUME Typed, NEW c \in Caller, Running(c), NEW o, NEW code, NEW child,
         Terminate(c, o, code, child), child \in {"none", "running"},
         child = "running" =>
           proc[c].child = "running" /\ proc[c].phase \in NativeStage,
         code = "ok" => Following(c) = "end" /\ proc[c].child = "none",
         \/ o = out[c]
         \/ /\ o = Recorded(c)
            /\ proc[c].child = "refused" \/ (proc[c].child = "exited" /\ ~Post(c))
  PROVE  Others(c) /\ Ending(c)
<1> DEFINE p == Gone(c, "ended", child)
           r == [o EXCEPT !.terminal = code]
<1>1. proc'[c] = p /\ out'[c] = r /\ Others(c) /\ UNCHANGED <<now, owner>>
  BY OneMoves DEF Terminate
<1>2. r.terminal = code /\ r.started = o.started /\ r.deadline = o.deadline
      /\ r.candidate = o.candidate /\ r.verdict = o.verdict
      /\ r.verified = o.verified /\ r.finished = o.finished
  <2>1. o \in Output
    BY Parts, RecordedTyped
  <2> QED
    BY <2>1 DEF Output
<1>3. /\ o.started = out[c].started /\ o.deadline = out[c].deadline
      /\ o.candidate = out[c].candidate
      /\ \/ o.finished = out[c].finished
         \/ o.finished = out[c].finished \cup {proc[c].phase}
              /\ proc[c].child \in {"exited", "refused"}
      /\ \/ o.verdict = out[c].verdict
         \/ proc[c].phase = "provider-run" /\ proc[c].child = "exited"
              /\ o.verdict = proc[c].answer
      /\ \/ o.verified = out[c].verified
         \/ proc[c].phase \in Verifications /\ proc[c].child = "exited"
  BY RecordedFields DEF Post
<1>4. /\ p.mode = proc[c].mode /\ p.source = proc[c].source
      /\ p.phase = proc[c].phase /\ p.status = "ended" /\ p.child = child
      /\ child = "running" => p.expires = proc[c].expires /\ p.issued = 0
  BY GoneFields
<1> HIDE DEF p, r
<1> QED
  BY <1>1, <1>2, <1>3, <1>4 DEF Ending, Kept

LEMMA EndMoves ==
  ASSUME Typed, NEW c \in Caller,
         RefuseNext(c) \/ Finish(c) \/ CollectRefusal(c) \/ Abandon(c)
           \/ Crash(c)
  PROVE  Others(c) /\ Ending(c)
<1>1. CASE RefuseNext(c) \/ Finish(c)
  BY <1>1, TerminateMoves DEF RefuseNext, Finish, Ready
<1>2. CASE CollectRefusal(c)
  BY <1>2, TerminateMoves DEF CollectRefusal
<1>3. CASE Abandon(c)
  BY <1>3, TerminateMoves DEF Abandon, Orphan
<1>4. CASE Crash(c)
  <2> DEFINE p == Gone(c, "crashed", Orphan(c))
  <2>1. proc'[c] = p /\ out'[c] = out[c] /\ Others(c) /\ UNCHANGED <<now, owner>>
    BY <1>4, OneMoves DEF Crash
  <2>2. /\ p.mode = proc[c].mode /\ p.source = proc[c].source
        /\ p.phase = proc[c].phase /\ p.status = "crashed"
        /\ p.child = Orphan(c)
        /\ Orphan(c) = "running" => p.expires = proc[c].expires /\ p.issued = 0
    BY GoneFields
  <2>3. /\ Orphan(c) \in {"none", "running"} /\ Running(c)
        /\ Orphan(c) = "running" =>
             proc[c].child = "running" /\ proc[c].phase \in NativeStage
    BY <1>4 DEF Orphan, Crash
  <2> HIDE DEF p
  <2> QED
    BY <2>1, <2>2, <2>3 DEF Ending, Kept
<1> QED
  BY <1>1, <1>2, <1>3, <1>4

LEMMA CollectMoves ==
  ASSUME Typed, NEW c \in Caller, Collect(c)
  PROVE  Others(c) /\ Collecting(c)
<1> DEFINE p == Collected(c)
           o == Recorded(c)
<1>1. /\ proc'[c] = p /\ out'[c] = o /\ Others(c) /\ UNCHANGED <<now, owner>>
      /\ Running(c) /\ proc[c].child = "exited" /\ Post(c)
  BY OneMoves DEF Collect
<1>2. /\ p.mode = proc[c].mode /\ p.source = proc[c].source
      /\ p.phase = proc[c].phase /\ p.status = proc[c].status
      /\ p.issued = proc[c].issued /\ p.expires = proc[c].expires
      /\ p.child = "none"
  BY Parts DEF Collected, Process
<1>3. proc[c].phase = "record-review-custody" => Projects(c)
  BY <1>1 DEF Post
<1> HIDE DEF p
<1> QED
  BY <1>1, <1>2, <1>3, RecordedFields DEF Collecting, Waits, Kept

\* Only the state of the native program changes.
LEMMA ChildMoves ==
  ASSUME Typed, NEW c \in Caller, NEW child,
         proc' = [proc EXCEPT ![c] = [proc[c] EXCEPT !.child = child]],
         NEW o, (out' = out /\ o = out[c]) \/ out' = [out EXCEPT ![c] = o]
  PROVE  Others(c) /\ Waits(c) /\ proc'[c].child = child /\ out'[c] = o
<1> DEFINE p == [proc[c] EXCEPT !.child = child]
<1>1. /\ p.mode = proc[c].mode /\ p.source = proc[c].source
      /\ p.phase = proc[c].phase /\ p.status = proc[c].status
      /\ p.issued = proc[c].issued /\ p.expires = proc[c].expires
      /\ p.child = child
  BY Parts DEF Process
<1>2. proc'[c] = p /\ out'[c] = o /\ Others(c)
  BY OneMoves
<1> HIDE DEF p
<1> QED
  BY <1>1, <1>2 DEF Waits, Kept

\* What the caller does to the mandate store.
LEMMA MandateFields ==
  ASSUME Typed, NEW m, owner' = [owner EXCEPT !.mandate = m]
  PROVE  MandateBecomes(m)
BY Parts DEF Typed, TypeOK, Owner, MandateBecomes

LEMMA MandateMoves ==
  ASSUME Typed, NEW c \in Caller, OpenMandate(c) \/ FillMandate(c)
  PROVE  Others(c) /\ (Opening(c) \/ Filling(c) \/ Ending(c))
<1>1. CASE OpenMandate(c) /\ owner.mandate = NoMandate
  <2>1. Others(c) /\ Waits(c) /\ proc'[c].child = "running"
    BY <1>1, ChildMoves DEF OpenMandate, CreateMandate
  <2> QED
    BY <1>1, <2>1, MandateFields DEF OpenMandate, CreateMandate, Opening
<1>2. CASE OpenMandate(c) /\ owner.mandate # NoMandate
  BY <1>2, TerminateMoves DEF OpenMandate
<1>3. CASE FillMandate(c)
  <2>1. Others(c) /\ Waits(c) /\ proc'[c].child = "none"
          /\ out'[c] = Recorded(c)
    BY <1>3, ChildMoves DEF FillMandate
  <2>2. MandateBecomes(proc[c].expires) /\ now' = now
    BY <1>3, MandateFields DEF FillMandate
  <2>3. Running(c) /\ proc[c].phase = "mandate-create"
          /\ proc[c].child = "running"
    BY <1>3 DEF FillMandate
  <2> QED
    BY <2>1, <2>2, <2>3, RecordedFields DEF Filling
<1> QED
  BY <1>1, <1>2, <1>3

LEMMA AnswerMoves ==
  ASSUME Typed, NEW c \in Caller, NEW a, NEW t, Answers(c, a, t),
         proc[c].child = "running", proc[c].phase \in NativeStage,
         UNCHANGED <<now, out>>
  PROVE  Others(c) /\ Answering(c)
         /\ (proc'[c].child = "exited" => proc'[c].answer = a)
<1>1. CASE Running(c)
  <2>1. PICK code \in {"exited", "refused"} :
          proc' = [proc EXCEPT ![c] =
                    [proc[c] EXCEPT !.child = code, !.answer = a, !.when = t]]
    BY <1>1 DEF Answers
  <2> DEFINE p == [proc[c] EXCEPT !.child = code, !.answer = a, !.when = t]
  <2>2. /\ p.mode = proc[c].mode /\ p.source = proc[c].source
        /\ p.phase = proc[c].phase /\ p.status = proc[c].status
        /\ p.issued = proc[c].issued /\ p.expires = proc[c].expires
        /\ p.child \in {"exited", "refused"} /\ p.answer = a
    BY <2>1, Parts DEF Process
  <2>3. proc'[c] = p /\ out'[c] = out[c] /\ Others(c)
    BY <2>1, OneMoves
  <2> HIDE DEF p
  <2> QED
    BY <1>1, <2>2, <2>3 DEF Answering, Waits, Kept
<1>2. CASE ~Running(c)
  <2>1. Others(c) /\ Waits(c) /\ proc'[c].child = "none"
    BY <1>2, ChildMoves DEF Answers
  <2> QED
    BY <1>2, <2>1 DEF Answering
<1> QED
  BY <1>1, <1>2

LEMMA NativeMoves ==
  ASSUME Typed, NEW c \in Caller, NativeStep(c), ~Driving(c)
  PROVE  Others(c) /\ Answering(c) /\ Effect(c)
<1> USE DEF Native, Effect
<1>0. Inspections \cup Freshness \cup {"record-review-custody"} \cup Verifications
        \cup AgRuns \cup {"nightshift-admission", "review-admit",
        "provider-run", "record-review", "permission-preflight",
        "operator-grant"} \subseteq NativeStage
  BY DEF NativeStage
<1>1. CASE Decline(c)
  <2>1. Others(c) /\ Waits(c) /\ proc'[c].child = "refused"
    BY <1>1, ChildMoves DEF Decline
  <2> QED
    BY <1>1, <2>1 DEF Decline, Answering
<1>2. ASSUME NEW a, NEW t, Answers(c, a, t), proc[c].child = "running",
             proc[c].phase \in NativeStage, UNCHANGED <<now, out>>
      PROVE  Others(c) /\ Answering(c)
  BY <1>2, AnswerMoves
<1>3. CASE NativeRead(c)
  BY <1>0, <1>2, <1>3 DEF NativeRead
<1>4. CASE NativeAdmission(c)
  BY <1>0, <1>2, <1>4 DEF NativeAdmission
<1>5. CASE NativeReviewAdmit(c)
  BY <1>0, <1>2, <1>5 DEF NativeReviewAdmit
<1>6. CASE NativeProvider(c)
  BY <1>0, <1>2, <1>6 DEF NativeProvider
<1>7. CASE NativeVerify(c)
  BY <1>0, <1>2, <1>7 DEF NativeVerify
<1>8. CASE NativeRecordReview(c)
  BY <1>0, <1>2, <1>8 DEF NativeRecordReview
<1>9. CASE NativePermission(c)
  BY <1>0, <1>2, <1>9 DEF NativePermission
<1>10. CASE NativeGrant(c)
  BY <1>0, <1>2, <1>10 DEF NativeGrant
<1>11. CASE RunExit(c)
  BY <1>0, <1>2, <1>11 DEF RunExit
<1> QED
  BY <1>1, <1>3, <1>4, <1>5, <1>6, <1>7, <1>8, <1>9, <1>10, <1>11
     DEF NativeStep, Driving

\* Every step is one of these.
LEMMA StepMoves ==
  ASSUME Typed, [Next]_vars
  PROVE  \/ UNCHANGED <<proc, out, owner>> /\ now' \in Nat /\ now' >= now
         \/ \E c \in Caller : Others(c) /\ Moves(c)
         \/ \E c \in Caller : Driving(c)
<1>1. CASE UNCHANGED vars \/ Tick
  BY <1>1, Parts DEF vars, Tick, Typed, TypeOK
<1>2. ASSUME NEW c \in Caller,
             StartFresh(c) \/ StartContinue(c) \/ StartRecover(c)
      PROVE  Others(c) /\ Moves(c)
  BY <1>2, EnterMoves DEF Moves
<1>3. ASSUME NEW c \in Caller, CallerStep(c) \/ Crash(c)
      PROVE  Others(c) /\ Moves(c)
  <2>1. CASE Begin(c) \/ PrepareRun(c)
    BY <2>1, AdvanceMoves DEF Moves
  <2>2. CASE RefuseNext(c) \/ Finish(c) \/ CollectRefusal(c) \/ Abandon(c)
               \/ Crash(c)
    BY <2>2, EndMoves DEF Moves
  <2>3. CASE OpenMandate(c) \/ FillMandate(c)
    BY <2>3, MandateMoves DEF Moves
  <2>4. CASE Collect(c)
    BY <2>4, CollectMoves DEF Moves
  <2>5. CASE Spawn(c)
    BY <2>5, ChildMoves DEF Spawn, Spawning, Moves
  <2> QED
    BY <1>3, <2>1, <2>2, <2>3, <2>4, <2>5 DEF CallerStep
<1>4. ASSUME NEW c \in Caller, NativeStep(c)
      PROVE  (Others(c) /\ Moves(c)) \/ Driving(c)
  BY <1>4, NativeMoves DEF Moves
<1> QED
  BY <1>1, <1>2, <1>3, <1>4 DEF Next

-----------------------------------------------------------------------------
(* Layer 1: where an invocation is, and what it recorded on its way. *)

LEMMA RankTable ==
  /\ Rank("initial") = 0 /\ Rank("initial-inspect") = 1
  /\ Rank("before-acceptance-inspect") = 1 /\ Rank("before-recovery") = 1
  /\ Rank("read-only") = 1 /\ Rank("nightshift-admission") = 2
  /\ Rank("same-run-recovery") = 2 /\ Rank("admitted-inspect") = 3
  /\ Rank("after-recovery") = 3 /\ Rank("before-review") = 4
  /\ Rank("review-admit") = 5 /\ Rank("immediately-before-review") = 6
  /\ Rank("provider-run") = 7 /\ Rank("record-review-custody") = 8
  /\ Rank("native-review-verification") = 9
  /\ Rank("native-review-reverification") = 9
  /\ Rank("record-review") = 10 /\ Rank("before-permission") = 11
  /\ Rank("mandate-create") = 12 /\ Rank("permission-preflight") = 13
  /\ Rank("operator-grant") = 14 /\ Rank("run-input") = 15
  /\ Rank("finite-run") = 16 /\ Rank("settled-inspect") = 17
BY DEF Rank

LEMMA SuccessorTable ==
  ASSUME NEW m
  PROVE  /\ Successor(m, "initial") = First(m)
         /\ Successor(m, "initial-inspect") = "nightshift-admission"
         /\ Successor(m, "nightshift-admission") = "admitted-inspect"
         /\ Successor(m, "admitted-inspect") = "before-review"
         /\ Successor(m, "before-review") = "review-admit"
         /\ Successor(m, "review-admit") = "immediately-before-review"
         /\ Successor(m, "immediately-before-review") = "provider-run"
         /\ Successor(m, "provider-run") = "record-review-custody"
         /\ Successor(m, "record-review-custody") = "native-review-verification"
         /\ Successor(m, "native-review-verification") = AfterVerification(m)
         /\ Successor(m, "before-acceptance-inspect")
              = "native-review-reverification"
         /\ Successor(m, "native-review-reverification") = "record-review"
         /\ Successor(m, "record-review") = "before-permission"
         /\ Successor(m, "before-permission") = "mandate-create"
         /\ Successor(m, "mandate-create") = "permission-preflight"
         /\ Successor(m, "permission-preflight") = "operator-grant"
         /\ Successor(m, "operator-grant") = "run-input"
         /\ Successor(m, "run-input") = "finite-run"
         /\ Successor(m, "finite-run") = "settled-inspect"
         /\ Successor(m, "settled-inspect") = "end"
         /\ Successor(m, "before-recovery") = "same-run-recovery"
         /\ Successor(m, "same-run-recovery") = "after-recovery"
         /\ Successor(m, "after-recovery") = "end"
         /\ Successor(m, "read-only") = "end"
BY DEF Successor

LEMMA RouteTable ==
  /\ Route("execute") = {"initial"} \cup ReviewPath \cup AcceptPath
  /\ Route("review-only") = {"initial"} \cup ReviewPath
  /\ Route("continue") =
       {"initial", "before-acceptance-inspect", "native-review-reverification"}
         \cup AcceptPath
  /\ Route("recover") =
       {"initial", "before-recovery", "same-run-recovery", "after-recovery"}
  /\ Route("inspect") = {"initial", "read-only"}
  /\ Route("none") = {"initial"}
BY DEF Route

\* A route leads on within its mode, by ever higher ranks.
LEMMA RouteOnward ==
  ASSUME NEW m \in Mode, NEW q \in Route(m), Successor(m, q) # "end"
  PROVE  /\ Successor(m, q) \in Route(m)
         /\ Rank(q) < Rank(Successor(m, q))
         /\ Successor(m, q) \in Stage
<1> USE RankTable, SuccessorTable, RouteTable
<1>0. Successor(m, q) \in Stage
  BY NextStage
<1>1. CASE q = "initial"
  BY <1>0, <1>1 DEF First, Mode, ReviewPath
<1>2. CASE q \in ReviewPath \ {"native-review-verification"}
  BY <1>0, <1>2 DEF ReviewPath, Mode, AcceptPath, AfterPermission
<1>3. CASE q \in {"native-review-verification", "before-acceptance-inspect",
                  "native-review-reverification", "before-recovery",
                  "same-run-recovery", "after-recovery", "read-only"}
  BY <1>0, <1>3 DEF AfterVerification, Mode, ReviewPath, AcceptPath,
     AfterPermission
<1>4. CASE q \in AcceptPath
  BY <1>0, <1>4 DEF Mode, AcceptPath, AfterPermission, ReviewPath
<1> QED
  BY <1>1, <1>2, <1>3, <1>4 DEF Mode

LEMMA RankIsInt == \A q : Rank(q) \in Int
BY DEF Rank

\* Only the caller of c changes what RoutedAt(c) speaks of.
LEMMA RoutedElsewhere ==
  ASSUME NEW c \in Caller, NEW d \in Caller, RoutedAt(d),
         proc'[d] = proc[d], out'[d] = out[d]
  PROVE  RoutedAt(d)'
BY DEF RoutedAt, Running, Outstanding

LEMMA InitRouted == Init => Routed
BY DEF Init, Routed, RoutedAt, Idle, NoOutput, Route, Running, Outstanding

LEMMA MovesRouted ==
  ASSUME Typed, NEW c \in Caller, RoutedAt(c), Moves(c)
  PROVE  RoutedAt(c)'
<1> USE DEF Outstanding, Running
<1>0. proc[c] \in Process /\ SourceNamed(proc[c]) /\ AnswerFits(proc[c])
        /\ out[c] \in Output
  BY Parts
<1>1. CASE Entering(c)
  BY <1>1 DEF Entering, RoutedAt, Route, NoOutput
<1>2. CASE Advancing(c)
  <2> DEFINE q == Following(c)
  <2>1. /\ q \in Route(proc[c].mode) /\ Rank(proc[c].phase) < Rank(q)
        /\ q \in Stage
    BY <1>0, <1>2, RouteOnward DEF Advancing, Following, RoutedAt, SourceNamed
  <2>2. /\ proc'[c].mode = proc[c].mode /\ proc'[c].status = "running"
        /\ proc[c].status = "running" /\ proc[c].child = "none"
        /\ proc'[c].phase = q
        /\ proc'[c].child = IF q = "run-input" THEN "none" ELSE "recorded"
        /\ out'[c].started = out[c].started \cup {q}
        /\ out'[c].finished = IF q = "run-input" THEN out[c].finished \cup {q}
                                                ELSE out[c].finished
        /\ out'[c].terminal = out[c].terminal
    BY <1>2 DEF Advancing
  <2> HIDE DEF q
  <2>3. \A r \in out[c].started \cup {q} : Rank(r) <= Rank(q)
    BY <2>1, RankIsInt DEF RoutedAt
  <2> QED
    BY <2>1, <2>2, <2>3 DEF RoutedAt
<1>3. CASE Ending(c)
  BY <1>0, <1>3 DEF Ending, Kept, RoutedAt, Following
<1>4. CASE Collecting(c)
  BY <1>0, <1>4 DEF Collecting, Waits, Kept, RoutedAt
<1>5. CASE Opening(c)
  BY <1>0, <1>5 DEF Opening, Waits, Kept, RoutedAt
<1>6. CASE Filling(c)
  BY <1>0, <1>6 DEF Filling, Waits, Kept, RoutedAt
<1>7. CASE Spawning(c)
  BY <1>0, <1>7 DEF Spawning, Waits, Kept, RoutedAt
<1>8. CASE Answering(c)
  BY <1>0, <1>8 DEF Answering, Waits, Kept, RoutedAt
<1> QED
  BY <1>1, <1>2, <1>3, <1>4, <1>5, <1>6, <1>7, <1>8 DEF Moves

LEMMA NextRouted ==
  ASSUME Typed, Routed, [Next]_vars
  PROVE  Routed'
<1>1. CASE UNCHANGED <<proc, out>>
  BY <1>1 DEF Routed, RoutedAt, Running, Outstanding
<1>2. ASSUME NEW c \in Caller, Others(c), Moves(c)
      PROVE  Routed'
  BY <1>2, MovesRouted, RoutedElsewhere DEF Routed, Others
<1> QED
  BY <1>1, <1>2, StepMoves DEF Driving, RunSpend, RunAttempt, RunSettle

\* Where c is tells its mode.
LEMMA RouteOfPhase ==
  ASSUME NEW m \in Mode \cup {"none"}, NEW q \in Route(m)
  PROVE  /\ q \in AcceptPath => m \in {"execute", "continue"}
         /\ q \in ReviewPath => m \in {"execute", "review-only"}
         /\ q = "native-review-reverification" => m = "continue"
         /\ q = "same-run-recovery" => m = "recover"
         /\ Successor(m, q) = "end" /\ m \in {"execute", "continue"} =>
              q = "settled-inspect"
         /\ Successor(m, q) = "end" /\ m = "review-only" =>
              q = "native-review-verification"
<1> USE RouteTable, SuccessorTable DEF AcceptPath, AfterPermission, ReviewPath
<1>1. CASE m = "none" \/ q = "initial"
  BY <1>1 DEF Mode, First
<1>2. CASE q \in ReviewPath \ {"native-review-verification"}
  BY <1>2 DEF Mode
<1>3. CASE q = "native-review-verification"
  BY <1>3 DEF Mode, AfterVerification
<1>4. CASE q \in AcceptPath
  BY <1>4 DEF Mode
<1>5. CASE q \notin ReviewPath \cup AcceptPath /\ m # "none" /\ q # "initial"
  BY <1>5 DEF Mode
<1> QED
  BY <1>1, <1>2, <1>3, <1>4, <1>5

\* The stage before each of the stages that matter below.
LEMMA Before ==
  ASSUME NEW m \in Mode, NEW q \in Route(m), NEW r, r = Successor(m, q),
         r # "end"
  PROVE  /\ r \in AcceptPath =>
              \/ q \in AcceptPath
              \/ q = "native-review-verification" /\ m = "execute"
              \/ q = "native-review-reverification" /\ m = "continue"
         /\ q \in AcceptPath => r \in AcceptPath
         /\ r \in ReviewPath => q \in ReviewPath \cup {"initial"}
         /\ r \in ReviewPath /\ q = "initial" => r = "initial-inspect"
         /\ r = "native-review-verification" => q = "record-review-custody"
         /\ r = "before-permission" => q = "record-review"
         /\ r \in AcceptPath \ {"record-review"} => q \in AcceptPath
         /\ r \in AfterPermission => q \in {"before-permission"} \cup AfterPermission
         /\ r = "mandate-create" => q = "before-permission"
         /\ r \in AfterMandate => q \in {"mandate-create"} \cup AfterMandate
         /\ r = "permission-preflight" => q = "mandate-create"
         /\ r = "operator-grant" => q = "permission-preflight"
         /\ r \in AfterGrant => q \in {"operator-grant"} \cup AfterGrant
         /\ r = "run-input" => q = "operator-grant"
         /\ r = "finite-run" => q = "run-input"
         /\ r = "settled-inspect" => q = "finite-run"
         /\ r = "same-run-recovery" => q = "before-recovery"
         /\ r = "before-recovery" => q = "initial"
         /\ m = "recover" /\ q = "initial" => r = "before-recovery"
<1> USE RouteTable, SuccessorTable
    DEF AcceptPath, AfterPermission, AfterMandate, AfterGrant
<1>1. CASE q = "initial"
  BY <1>1 DEF First, Mode, ReviewPath
<1>2. CASE q \in ReviewPath \ {"native-review-verification"}
  BY <1>2 DEF ReviewPath, Mode
<1>3. CASE q \in {"native-review-verification", "before-acceptance-inspect",
                  "native-review-reverification", "before-recovery",
                  "same-run-recovery", "after-recovery", "read-only"}
  BY <1>3 DEF AfterVerification, Mode, ReviewPath
<1>4. CASE q \in AcceptPath
  BY <1>4 DEF Mode, ReviewPath
<1> QED
  BY <1>1, <1>2, <1>3, <1>4 DEF Mode, ReviewPath

-----------------------------------------------------------------------------
(* What the owners' programs do, field by field. *)

\* AG's part of the owners' state.
AgSame ==
  /\ owner'.ag = owner.ag /\ owner'.review = owner.review

RunSame ==
  /\ owner'.spends = owner.spends /\ owner'.spentAt = owner.spentAt
  /\ owner'.attempts = owner.attempts /\ owner'.copies = owner.copies
  /\ owner'.outcome = owner.outcome

GrantSame ==
  owner'.grants = owner.grants /\ owner'.grantUntil = owner.grantUntil

\* AG takes the proposal, or the review of c, or neither.
AgStep(c) ==
  \/ AgSame
  \/ /\ Unreviewed /\ owner'.ag = "proposal_recorded"
     /\ owner'.review = owner.review
  \/ /\ proc[c].phase = "record-review"
     /\ \/ owner.ag = "proposal_recorded"
        \/ owner.ag = "review_recorded" /\ owner.review = ReviewOf(c)
     /\ owner'.ag = "review_recorded" /\ owner'.review = ReviewOf(c)

GrantStep(c) ==
  \/ GrantSame
  \/ /\ proc[c].phase = "operator-grant" /\ AgSame
     /\ owner'.grants = owner.grants + 1
     /\ owner'.grantUntil = proc[c].expires

RequestStep(c) ==
  \/ owner'.requests = owner.requests
  \/ /\ proc[c].phase = "provider-run" /\ AgSame /\ GrantSame
     /\ owner'.requests = owner.requests + 1

\* A program that exits normally has done what it is for.
Exits(c) ==
  proc'[c].child = "exited" =>
    /\ proc[c].phase = "provider-run" => owner'.requests = owner.requests + 1
    /\ proc[c].phase = "record-review" =>
         owner'.ag = "review_recorded" /\ owner'.review = ReviewOf(c)
    /\ proc[c].phase = "operator-grant" => owner'.grants = owner.grants + 1

LEMMA EffectFields ==
  ASSUME Typed, NEW c \in Caller, Effect(c)
  PROVE  /\ owner'.mandate = owner.mandate /\ RunSame
         /\ AgStep(c) /\ GrantStep(c) /\ RequestStep(c) /\ Exits(c)
<1> USE DEF RunSame, AgStep, AgSame, GrantStep, GrantSame, RequestStep, Native
<1> owner \in Owner
  BY Parts
<1>0. /\ "provider-run" \notin Inspections \cup Freshness \cup Verifications
           \cup AgRuns
      /\ "record-review" \notin Inspections \cup Freshness \cup Verifications
           \cup AgRuns
      /\ "operator-grant" \notin Inspections \cup Freshness \cup Verifications
           \cup AgRuns
  BY DEF Inspections, Freshness, Verifications, AgRuns
<1>1. CASE Decline(c) /\ proc'[c].child = "refused"
  BY <1>1 DEF Decline, Exits
<1>2. CASE NativeRead(c) \/ NativeVerify(c) \/ NativePermission(c) \/ RunExit(c)
  BY <1>0, <1>2 DEF NativeRead, NativeVerify, NativePermission, RunExit, Exits
<1>3. CASE NativeAdmission(c)
  <2>1. /\ proc[c].phase = "nightshift-admission" /\ Unreviewed
        /\ owner' = [owner EXCEPT !.ag = "proposal_recorded"]
    BY <1>3 DEF NativeAdmission, Unreviewed
  <2> QED
    BY <2>1 DEF Owner, Exits
<1>4. CASE NativeReviewAdmit(c)
  <2>1. /\ proc[c].phase = "review-admit"
        /\ owner' = [owner EXCEPT !.foreman = TRUE]
    BY <1>4 DEF NativeReviewAdmit
  <2> QED
    BY <2>1 DEF Owner, Exits
<1>5. CASE NativeProvider(c)
  <2>1. /\ proc[c].phase = "provider-run"
        /\ owner' = [owner EXCEPT !.requests = @ + 1]
    BY <1>5 DEF NativeProvider
  <2> QED
    BY <2>1 DEF Owner, Exits
<1>6. CASE NativeRecordReview(c)
  <2>1. /\ proc[c].phase = "record-review"
        /\ \/ owner.ag = "proposal_recorded"
           \/ owner.ag = "review_recorded" /\ owner.review = ReviewOf(c)
        /\ owner' = [owner EXCEPT !.ag = "review_recorded",
                                  !.review = ReviewOf(c)]
    BY <1>6 DEF NativeRecordReview
  <2> QED
    BY <2>1 DEF Owner, Exits
<1>7. CASE NativeGrant(c)
  <2>1. /\ proc[c].phase = "operator-grant"
        /\ owner' = [owner EXCEPT !.grants = @ + 1,
                                  !.grantUntil = proc[c].expires]
    BY <1>7 DEF NativeGrant
  <2> QED
    BY <2>1 DEF Owner, Exits
<1> QED
  BY <1>1, <1>2, <1>3, <1>4, <1>5, <1>6, <1>7 DEF Effect

\* What ag run does for whoever started it.
LEMMA DrivingFields ==
  ASSUME Typed, NEW c \in Caller, Driving(c)
  PROVE  /\ UNCHANGED <<now, proc, out>>
         /\ owner'.requests = owner.requests /\ owner'.mandate = owner.mandate
         /\ owner'.review = owner.review /\ GrantSame
         /\ \/ /\ RunSpend(c)
               /\ owner'.ag = "spent" /\ owner'.spends = owner.spends + 1
               /\ owner'.spentAt = now /\ owner'.attempts = owner.attempts
               /\ owner'.copies = owner.copies /\ owner'.outcome = owner.outcome
            \/ /\ owner.ag = "spent" /\ owner.grants > 0
               /\ owner'.ag = "attempted" /\ owner'.spends = owner.spends
               /\ owner'.spentAt = owner.spentAt
               /\ owner'.attempts = owner.attempts + 1
               /\ owner'.copies \in {owner.copies, owner.copies + 1}
               /\ owner'.outcome = owner.outcome
            \/ /\ owner.ag = "attempted"
               /\ owner'.ag = "settled_observation_required"
               /\ owner'.spends = owner.spends /\ owner'.spentAt = owner.spentAt
               /\ owner'.attempts = owner.attempts
               /\ owner'.copies = owner.copies
               /\ owner'.outcome \in {"success", "indeterminate"}
               /\ owner'.outcome = "success" => owner.copies = 1
<1> owner \in Owner /\ owner.copies \in Nat
  BY Parts DEF Owner
<1>1. CASE RunSpend(c)
  BY <1>1 DEF RunSpend, Owner, GrantSame
<1>2. CASE RunAttempt(c)
  <2>1. PICK copied \in {0, 1} :
          owner' = [owner EXCEPT !.ag = "attempted", !.attempts = @ + 1,
                                 !.copies = @ + copied]
    BY <1>2 DEF RunAttempt
  <2> QED
    BY <1>2, <2>1 DEF RunAttempt, Owner, GrantSame
<1>3. CASE RunSettle(c)
  <2>1. PICK o \in {"success", "indeterminate"} :
          /\ o = "success" => owner.copies = 1
          /\ owner' = [owner EXCEPT !.ag = "settled_observation_required",
                                    !.outcome = o]
    BY <1>3 DEF RunSettle
  <2> QED
    BY <1>3, <2>1 DEF RunSettle, Owner, GrantSame
<1> QED
  BY <1>1, <1>2, <1>3 DEF Driving

-----------------------------------------------------------------------------
(* Layer 2: the review an invocation works with. *)

LEMMA RequestsStay ==
  ASSUME Typed, NEW c \in Caller, Moves(c)
  PROVE  owner.requests > 0 => owner'.requests > 0
<1> owner.requests \in Nat
  BY Parts DEF Owner
<1> QED
  BY EffectFields DEF Moves, Entering, Advancing, Ending, Collecting, Opening,
     Filling, Spawning, MandateBecomes, RequestStep

\* A run document that was announced as running is never written again.
LEMMA RecoverableStays ==
  ASSUME Typed, NEW c \in Caller, RoutedAt(c), Moves(c), RecoverableRun(c)
  PROVE  RecoverableRun(c)'
<1>1. CASE Advancing(c)
  <2>1. Following(c) # "run-input"
    <3> SUFFICES ASSUME Following(c) = "run-input"
                 PROVE  FALSE
      OBVIOUS
    <3>1. proc[c].phase = "operator-grant"
      BY <1>1, Before, Parts DEF Advancing, Following, RoutedAt, SourceNamed,
         Running, Process
    <3> QED
      BY <3>1, RankTable DEF RoutedAt, RecoverableRun
  <2> QED
    BY <1>1, <2>1 DEF Advancing, RecoverableRun
<1>2. CASE ~Advancing(c)
  BY <1>2 DEF Moves, Entering, Ending, Collecting, Opening, Filling, Spawning,
     Answering, RecoverableRun
<1> QED
  BY <1>1, <1>2

\* A candidate that was retained stays as it is.
LEMMA RetainedStays ==
  ASSUME Typed, NEW c \in Caller, RoutedAt(c), Moves(c), RetainedCandidate(c)
  PROVE  /\ RetainedCandidate(c)'
         /\ out'[c].candidate = out[c].candidate
         /\ out'[c].verdict = out[c].verdict
<1>1. proc[c].status = "ended"
  BY DEF RoutedAt, RetainedCandidate
<1> QED
  BY <1>1 DEF Moves, Entering, Advancing, Ending, Collecting, Opening, Filling,
     Spawning, Answering, Waits, Kept, RetainedCandidate, Running

LEMMA SourceStays ==
  ASSUME Typed, NEW c \in Caller, proc[c].status # "idle", Moves(c)
  PROVE  proc'[c].mode = proc[c].mode /\ proc'[c].source = proc[c].source
BY DEF Moves, Entering, Advancing, Ending, Collecting, Opening, Filling,
   Spawning, Answering, Waits, Kept

LEMMA OwnReviewMoves ==
  ASSUME Typed, NEW c \in Caller, RoutedAt(c), OwnReview(c), Moves(c)
  PROVE  OwnReview(c)'
<1> USE DEF Done, Running, Reviewing
<1>0. /\ proc[c] \in Process /\ SourceNamed(proc[c]) /\ AnswerFits(proc[c])
      /\ out[c] \in Output /\ owner.requests \in Nat
  BY Parts DEF Owner
<1>1. owner.requests > 0 => owner'.requests > 0
  BY RequestsStay
<1>2. /\ "provider-run" \notin AcceptPath \cup Verifications
      /\ "record-review-custody" \notin AcceptPath \cup Verifications
      /\ AcceptPath \cap Verifications = {}
      /\ "native-review-verification" \in Verifications
  BY DEF AcceptPath, AfterPermission, Verifications
<1>3. CASE Entering(c)
  BY <1>3, <1>2 DEF Entering, OwnReview, RoutedAt, NoOutput, AcceptPath,
     AfterPermission
<1>4. CASE Advancing(c)
  <2>1. /\ proc'[c].phase \in AcceptPath =>
             \/ proc[c].phase \in AcceptPath
             \/ proc[c].phase = "native-review-verification" /\ proc[c].mode = "execute"
             \/ proc[c].mode = "continue"
        /\ proc'[c].phase = "native-review-verification" =>
             proc[c].phase = "record-review-custody"
    BY <1>0, <1>4, Before DEF Advancing, Following, RoutedAt, SourceNamed
  <2>2. proc'[c].child \in {"none", "recorded"} /\
          (proc'[c].child = "none" => proc'[c].phase = "run-input")
    BY <1>4 DEF Advancing
  <2> QED
    BY <1>1, <1>2, <1>4, <2>1, <2>2 DEF Advancing, OwnReview
<1>5. CASE Ending(c)
  BY <1>0, <1>1, <1>2, <1>5 DEF Ending, Kept, OwnReview
<1>6. CASE Collecting(c)
  <2>1. proc[c].phase = "record-review-custody" =>
          out[c].verdict = "accepted" /\ out'[c].candidate > 0
    <3>1. proc[c].phase = "record-review-custody" => Projects(c)
      BY <1>6 DEF Collecting, Post
    <3>2. out[c].ended + ReviewAge > 0
      BY <1>0 DEF Output
    <3> QED
      BY <1>2, <1>6, <3>1, <3>2 DEF Collecting, Projects
  <2>2. proc[c].phase = "native-review-verification" /\ proc[c].mode = "execute"
          => proc[c].answer = "accepted"
    BY <1>6 DEF Collecting, Post
  <2> QED
    BY <1>0, <1>1, <1>2, <1>6, <2>1, <2>2 DEF Collecting, Waits, Kept, OwnReview
<1>7. CASE Opening(c)
  BY <1>0, <1>1, <1>2, <1>7 DEF Opening, Waits, Kept, OwnReview
<1>8. CASE Filling(c)
  BY <1>0, <1>1, <1>2, <1>8 DEF Filling, Waits, Kept, OwnReview
<1>9. CASE Spawning(c)
  BY <1>0, <1>1, <1>2, <1>9 DEF Spawning, Waits, Kept, OwnReview
<1>10. CASE Answering(c) /\ Effect(c)
  <2>1. proc'[c].phase = "provider-run" /\ proc'[c].child = "exited" =>
          owner'.requests > 0
    <3>1. Exits(c)
      BY <1>10, EffectFields
    <3> QED
      BY <1>0, <1>10, <3>1 DEF Answering, Waits, Kept, Exits
  <2> QED
    BY <1>0, <1>1, <1>2, <1>10, <2>1 DEF Answering, Waits, Kept, OwnReview
<1> QED
  BY <1>3, <1>4, <1>5, <1>6, <1>7, <1>8, <1>9, <1>10 DEF Moves

LEMMA OwnReviewElsewhere ==
  ASSUME NEW c \in Caller, NEW d \in Caller, OwnReview(d),
         proc'[d] = proc[d], out'[d] = out[d],
         owner.requests > 0 => owner'.requests > 0
  PROVE  OwnReview(d)'
BY DEF OwnReview, Done, Running, Reviewing

LEMMA TakenMoves ==
  ASSUME Typed, Routed, NEW c \in Caller, NEW d \in Caller, Others(d), Moves(d),
         Taken(c)
  PROVE  Taken(c)'
<1>1. \A s \in Caller : /\ RetainedCandidate(s) => RetainedCandidate(s)'
                        /\ RecoverableRun(s) => RecoverableRun(s)'
  <2> SUFFICES ASSUME NEW s \in Caller
               PROVE  /\ RetainedCandidate(s) => RetainedCandidate(s)'
                      /\ RecoverableRun(s) => RecoverableRun(s)'
    OBVIOUS
  <2>1. CASE s = d
    BY <2>1, RetainedStays, RecoverableStays DEF Routed
  <2>2. CASE s # d
    BY <2>2 DEF Others, RetainedCandidate, RecoverableRun
  <2> QED
    BY <2>1, <2>2
<1>2. CASE c # d
  BY <1>1, <1>2, Parts DEF Others, Taken, SourceNamed
<1>3. CASE c = d /\ Entering(d)
  <2>1. proc'[c].mode = "continue" =>
          proc'[c].source \in Caller /\ RetainedCandidate(proc'[c].source)
    BY <1>3 DEF Entering
  <2>2. \A s : RetainedCandidate(s) /\ s \in Caller => RetainedCandidate(s)'
    BY <1>1
  <2>3. proc'[c].phase = "initial"
    BY <1>3 DEF Entering
  <2> QED
    BY <2>1, <2>2, <2>3 DEF Taken
<1>4. CASE c = d /\ Advancing(d)
  <2>1. /\ proc'[c].mode = proc[c].mode /\ proc'[c].source = proc[c].source
        /\ Pre(c, Following(c)) /\ proc'[c].phase = Following(c)
        /\ proc[c].status = "running" /\ Following(c) # "end"
    BY <1>4 DEF Advancing, Running
  <2>2. proc[c].mode = "recover" => proc[c].source \in Caller
    BY Parts DEF SourceNamed
  <2>3. proc[c].mode = "recover" /\ proc[c].phase = "initial" =>
          RecoverableRun(proc[c].source)
    BY <2>1, SuccessorTable DEF Following, First, Pre
  <2>4. proc[c].mode = "continue" => proc[c].source \in Caller
    BY Parts DEF SourceNamed
  <2> QED
    BY <1>1, <2>1, <2>2, <2>3, <2>4 DEF Taken
<1>5. CASE c = d /\ ~Entering(d) /\ ~Advancing(d)
  <2>1. /\ proc'[c].mode = proc[c].mode /\ proc'[c].source = proc[c].source
        /\ proc'[c].phase = proc[c].phase
    BY <1>5 DEF Moves, Ending, Collecting, Opening, Filling, Spawning,
       Answering, Waits, Kept
  <2> QED
    BY <1>1, <2>1, Parts DEF Taken, SourceNamed
<1> QED
  BY <1>2, <1>3, <1>4, <1>5

LEMMA InitReviewed == Init => Reviewed
BY DEF Init, Reviewed, ReviewedAt, OwnReview, Taken, Idle, NoOutput, Done,
   Reviewing, Running

LEMMA NextReviewed ==
  ASSUME Typed, Routed, Reviewed, [Next]_vars
  PROVE  Reviewed'
<1> USE DEF Reviewed, ReviewedAt
<1>1. CASE UNCHANGED <<proc, out, owner>>
  BY <1>1 DEF OwnReview, Taken, Done, Running, Reviewing, RetainedCandidate,
     RecoverableRun
<1>2. ASSUME NEW d \in Caller, Others(d), Moves(d)
      PROVE  Reviewed'
  <2> SUFFICES ASSUME NEW c \in Caller
               PROVE  OwnReview(c)' /\ Taken(c)'
    OBVIOUS
  <2>1. Taken(c)'
    BY <1>2, TakenMoves
  <2>2. CASE c = d
    BY <1>2, <2>1, <2>2, OwnReviewMoves DEF Routed
  <2>3. CASE c # d
    BY <1>2, <2>1, <2>3, OwnReviewElsewhere, RequestsStay DEF Others
  <2> QED
    BY <2>2, <2>3
<1>3. ASSUME NEW d \in Caller, Driving(d)
      PROVE  Reviewed'
  <2>1. UNCHANGED <<proc, out>> /\ owner'.requests = owner.requests
    BY <1>3, DrivingFields
  <2> QED
    BY <2>1 DEF OwnReview, Taken, Done, Running, Reviewing, RetainedCandidate,
       RecoverableRun
<1> QED
  BY <1>1, <1>2, <1>3, StepMoves

\* Whose review c acts on.
Reviewer(c) == IF proc[c].mode = "continue" THEN proc[c].source ELSE c

\* A caller that accepts a review has one that was accepted twice over, and
\* that nobody will change.
LEMMA ReviewAccepted ==
  ASSUME Typed, Routed, Reviewed, NEW c \in Caller,
         proc[c].phase \in AcceptPath
  PROVE  /\ Reviewer(c) \in Caller
         /\ out[Reviewer(c)].verdict = "accepted"
         /\ out[Reviewer(c)].verified = "accepted"
         /\ out[Reviewer(c)].candidate = ReviewOf(c) /\ ReviewOf(c) > 0
         /\ \/ proc[Reviewer(c)].status \in {"ended", "crashed"}
            \/ proc[Reviewer(c)].phase \in AcceptPath
         /\ owner.requests > 0
<1>0. /\ RoutedAt(c) /\ ReviewedAt(c) /\ proc[c] \in Process
      /\ SourceNamed(proc[c])
  BY Parts DEF Routed, Reviewed
<1>1. proc[c].mode \in {"execute", "continue"}
  BY <1>0, RouteOfPhase DEF RoutedAt, Process
<1>2. CASE proc[c].mode = "execute"
  BY <1>0, <1>2 DEF ReviewedAt, OwnReview, Reviewing, Reviewer, ReviewOf
<1>3. CASE proc[c].mode = "continue"
  <2> DEFINE s == proc[c].source
  <2>1. s \in Caller /\ RetainedCandidate(s)
    BY <1>0, <1>3 DEF SourceNamed, ReviewedAt, Taken
  <2>2. RoutedAt(s) /\ ReviewedAt(s) /\ proc[s] \in Process
    BY <2>1, Parts DEF Routed, Reviewed
  <2>3. /\ proc[s].phase = "native-review-verification"
        /\ proc[s].status = "ended"
    BY <2>1, <2>2, RouteOfPhase DEF RoutedAt, RetainedCandidate, Mode
  <2> QED
    BY <1>3, <2>1, <2>2, <2>3 DEF ReviewedAt, OwnReview, Reviewing, Reviewer,
       ReviewOf, RetainedCandidate
<1> QED
  BY <1>1, <1>2, <1>3

\* The review c acts on does not change under it.
LEMMA ReviewOfStays ==
  ASSUME Typed, Routed, Reviewed, NEW c \in Caller, NEW d \in Caller,
         proc[c].phase \in AcceptPath, Others(d), Moves(d)
  PROVE  ReviewOf(c)' = ReviewOf(c)
<1>0. /\ RoutedAt(c) /\ ReviewedAt(c) /\ proc[c] \in Process
      /\ SourceNamed(proc[c])
  BY Parts DEF Routed, Reviewed
<1>1. proc[c].mode \in {"execute", "continue"} /\ proc[c].status # "idle"
  BY <1>0, RouteOfPhase DEF RoutedAt, Process
<1>2. proc'[c].mode = proc[c].mode /\ proc'[c].source = proc[c].source
  BY <1>1, SourceStays DEF Others
<1>3. CASE proc[c].mode = "continue"
  <2> DEFINE s == proc[c].source
  <2>1. s \in Caller /\ RetainedCandidate(s)
    BY <1>0, <1>3 DEF SourceNamed, ReviewedAt, Taken
  <2>2. out'[s].candidate = out[s].candidate
    BY <2>1, RetainedStays DEF Others, Routed
  <2> QED
    BY <1>2, <1>3, <2>2 DEF ReviewOf
<1>4. CASE proc[c].mode = "execute"
  <2>1. out'[c].candidate = out[c].candidate
    <3>1. CASE c = d
      BY <1>1, <3>1 DEF Moves, Entering, Advancing, Ending, Collecting, Opening,
         Filling, Spawning, Answering, AcceptPath, AfterPermission
    <3>2. CASE c # d
      BY <3>2 DEF Others
    <3> QED
      BY <3>1, <3>2
  <2> QED
    BY <1>2, <1>4, <2>1 DEF ReviewOf
<1> QED
  BY <1>1, <1>3, <1>4

-----------------------------------------------------------------------------
(* Layer 3: AG's state, its counts and the review it holds. *)

\* Nobody moves whom c, with its records, is not.
LEMMA Elsewhere ==
  ASSUME NEW c \in Caller, NEW d \in Caller, c # d, Others(d)
  PROVE  proc'[c] = proc[c] /\ out'[c] = out[c]
BY DEF Others

\* A move leaves the owners alone unless it is about the mandate or an effect.
LEMMA OwnerMoves ==
  ASSUME Typed, NEW c \in Caller, Moves(c)
  PROVE  \/ owner' = owner
         \/ Opening(c) /\ MandateBecomes(EmptyMandate)
         \/ Filling(c) /\ MandateBecomes(proc[c].expires)
         \/ /\ Answering(c) /\ owner'.mandate = owner.mandate /\ RunSame
            /\ AgStep(c) /\ GrantStep(c) /\ RequestStep(c) /\ Exits(c)
BY EffectFields DEF Moves, Entering, Advancing, Ending, Collecting, Opening,
   Filling, Spawning

\* AG never forgets a review it recorded and never replaces it.
LEMMA AgForward ==
  ASSUME Typed, NEW c \in Caller, Moves(c) \/ Driving(c), ~Unreviewed
  PROVE  ~Unreviewed' /\ owner'.review = owner.review
<1>1. CASE Moves(c)
  BY <1>1, OwnerMoves DEF MandateBecomes, AgStep, AgSame, Unreviewed
<1>2. CASE Driving(c)
  BY <1>2, DrivingFields DEF Unreviewed
<1> QED
  BY <1>1, <1>2

LEMMA KeepsStays ==
  ASSUME Typed, Routed, NEW w \in Caller, NEW d \in Caller, Keeps(w),
         Others(d), Moves(d), owner'.review = owner.review
  PROVE  Keeps(w)'
<1>1. CASE w # d
  BY <1>1, Elsewhere DEF Keeps
<1>2. CASE w = d /\ proc[w].status \in {"ended", "crashed"}
  BY <1>2 DEF Keeps, Moves, Entering, Advancing, Ending, Collecting, Opening,
     Filling, Spawning, Answering, Waits, Kept, Running
<1>3. CASE w = d /\ proc[w].phase \in AcceptPath
  <2>0. RoutedAt(w) /\ proc[w] \in Process /\ SourceNamed(proc[w])
    BY Parts DEF Routed
  <2>1. ~Entering(d)
    BY <2>0, <1>3, RouteOfPhase DEF RoutedAt, Entering
  <2>2. CASE Advancing(d)
    <3>1. proc'[d].phase \in AcceptPath
      BY <1>3, <2>0, <2>2, Before DEF Advancing, Following, RoutedAt,
         SourceNamed, Running
    <3> QED
      BY <1>3, <2>2, <3>1 DEF Advancing, Keeps
  <2>3. CASE ~Advancing(d)
    BY <1>3, <2>1, <2>3 DEF Keeps, Moves, Ending, Collecting, Opening,
       Filling, Spawning, Answering, Waits, Kept, AcceptPath, AfterPermission,
       Verifications
  <2> QED
    BY <2>2, <2>3
<1> QED
  BY <1>1, <1>2, <1>3 DEF Keeps

LEMMA CountsMove ==
  ASSUME Typed, CountsOfState, NEW c \in Caller, Moves(c) \/ Driving(c)
  PROVE  CountsOfState'
<1> USE DEF CountsOfState, Unreviewed
<1>0. owner.ag \in AgState /\ owner.copies \in Nat
  BY Parts DEF Owner
<1>1. CASE Moves(c)
  BY <1>0, <1>1, OwnerMoves DEF MandateBecomes, AgStep, AgSame, RunSame, AgState
<1>2. CASE Driving(c)
  <2>1. RunSpend(c) => owner.ag = "review_recorded"
    BY DEF RunSpend
  <2> QED
    BY <1>0, <1>2, <2>1, DrivingFields
<1> QED
  BY <1>1, <1>2

\* Whoever has AG record a review has one that was accepted.
LEMMA KeptMoves ==
  ASSUME Typed, Routed, Reviewed, Counted, NEW d \in Caller,
         (Others(d) /\ Moves(d)) \/ Driving(d), ~Unreviewed'
  PROVE  owner'.review > 0 /\ \E w \in Caller : Keeps(w)'
<1>1. CASE ~Unreviewed
  <2>1. owner.review > 0 /\ owner'.review = owner.review
    BY <1>1, AgForward DEF Counted
  <2>2. PICK w \in Caller : Keeps(w)
    BY <1>1 DEF Counted
  <2>3. Keeps(w)'
    <3>1. CASE Moves(d) /\ Others(d)
      BY <2>1, <2>2, <3>1, KeepsStays
    <3>2. CASE Driving(d)
      BY <2>1, <2>2, <3>2, DrivingFields DEF Keeps
    <3> QED
      BY <3>1, <3>2
  <2> QED
    BY <2>1, <2>3
<1>2. CASE Unreviewed
  <2>1. ~Driving(d)
    BY <1>2 DEF Driving, RunSpend, RunAttempt, RunSettle, Unreviewed
  <2>2. /\ Answering(d) /\ proc[d].phase = "record-review"
        /\ owner'.review = ReviewOf(d)
    BY <1>2, <2>1, OwnerMoves DEF MandateBecomes, AgStep, AgSame, Unreviewed
  <2>3. PICK w \in Caller :
           /\ w = Reviewer(d) /\ out[w].verdict = "accepted"
           /\ out[w].verified = "accepted"
           /\ out[w].candidate = ReviewOf(d) /\ ReviewOf(d) > 0
           /\ \/ proc[w].status \in {"ended", "crashed"}
              \/ proc[w].phase \in AcceptPath
    <3>1. proc[d].phase \in AcceptPath
      BY <2>2 DEF AcceptPath
    <3> QED
      BY <3>1, ReviewAccepted
  <2>4. /\ out' = out /\ proc'[w].status = proc[w].status
        /\ proc'[w].phase = proc[w].phase
    BY <2>1, <2>2, <2>3 DEF Answering, Waits, Kept, Others
  <2>5. Keeps(w)'
    BY <2>2, <2>3, <2>4 DEF Keeps
  <2> QED
    BY <2>2, <2>3, <2>5
<1> QED
  BY <1>1, <1>2

\* The phase of c decides whether AG has its review.
LEMMA RecordedMoves ==
  ASSUME Typed, Routed, Reviewed, Counted, NEW c \in Caller, NEW d \in Caller,
         Others(d), Moves(d)
  PROVE  ReviewRecorded(c)'
<1> USE DEF Running
<1>0. /\ RoutedAt(c) /\ proc[c] \in Process /\ SourceNamed(proc[c])
      /\ ReviewRecorded(c)
  BY Parts DEF Routed, Counted
<1>1. /\ ~Unreviewed => ~Unreviewed' /\ owner'.review = owner.review
      /\ proc[c].phase \in AcceptPath => ReviewOf(c)' = ReviewOf(c)
  BY AgForward, ReviewOfStays
<1>2. "record-review" \in AcceptPath
  BY DEF AcceptPath
<1>3. CASE c # d
  BY <1>0, <1>1, <1>2, <1>3, Elsewhere DEF ReviewRecorded
<1>4. CASE c = d /\ Entering(d)
  BY <1>4 DEF Entering, ReviewRecorded, AcceptPath, AfterPermission
<1>5. CASE c = d /\ Advancing(d)
  <2>1. /\ proc'[c].phase \in AcceptPath \ {"record-review"} =>
             proc[c].phase \in AcceptPath
        /\ proc[c].child = "none" /\ proc[c].status = "running"
        /\ proc'[c].child = "recorded" \/ proc'[c].phase = "run-input"
        /\ owner' = owner
    BY <1>0, <1>5, Before DEF Advancing, Following, RoutedAt, SourceNamed
  <2> QED
    BY <1>0, <1>1, <1>2, <2>1 DEF ReviewRecorded
<1>6. CASE c = d /\ Ending(d)
  BY <1>0, <1>1, <1>2, <1>6 DEF Ending, Kept, ReviewRecorded
<1>7. CASE c = d /\ (Collecting(d) \/ Opening(d) \/ Filling(d) \/ Spawning(d))
  BY <1>0, <1>1, <1>2, <1>7 DEF Collecting, Opening, Filling, Spawning, Waits,
     Kept, ReviewRecorded
<1>8. CASE c = d /\ Answering(d) /\ Effect(d)
  <2>1. Exits(c)
    BY <1>8, EffectFields
  <2>2. /\ proc'[c].phase = proc[c].phase /\ proc'[c].status = proc[c].status
        /\ proc[c].phase = "record-review" /\ proc'[c].child = "exited" =>
             ~Unreviewed' /\ owner'.review = ReviewOf(c)
        /\ proc[c].status = "running" =>
             proc'[c].child \in {"exited", "refused"}
    BY <1>8, <2>1 DEF Answering, Waits, Kept, Exits, Unreviewed
  <2> QED
    BY <1>0, <1>1, <1>2, <2>2 DEF ReviewRecorded
<1> QED
  BY <1>3, <1>4, <1>5, <1>6, <1>7, <1>8 DEF Moves

\* c judged its settlement, or reported it.
Settled(c) ==
  \/ Done(c, "settled-inspect")
  \/ out[c].terminal = "ok" /\ proc[c].mode \in {"execute", "continue"}

LEMMA SettledMoves ==
  ASSUME Typed, Routed, Counted, NEW c \in Caller, NEW d \in Caller,
         Others(d), Moves(d), Settled(c)'
  PROVE  owner'.outcome = "success"
<1> USE DEF Running, Done
<1>0. /\ RoutedAt(c) /\ proc[c] \in Process /\ SourceNamed(proc[c])
      /\ proc[c].mode \in Mode \cup {"none"}
      /\ Settled(c) => owner.outcome = "success"
  BY Parts DEF Routed, Counted, Settled, Process
<1>1. owner'.outcome = owner.outcome
  BY OwnerMoves DEF MandateBecomes, RunSame
<1>2. CASE c # d
  BY <1>0, <1>1, <1>2, Elsewhere DEF Settled
<1>3. CASE c = d /\ Entering(d)
  BY <1>0, <1>3 DEF Entering, Settled, RoutedAt, NoOutput
<1>4. CASE c = d /\ Advancing(d)
  BY <1>0, <1>1, <1>4 DEF Advancing, Settled
<1>5. CASE c = d /\ Ending(d)
  <2>1. out[c].terminal # "ok" /\ out'[c].terminal = "ok"
          /\ proc[c].mode \in {"execute", "continue"} =>
            proc[c].phase = "settled-inspect" /\ proc[c].child = "none"
    BY <1>0, <1>5, RouteOfPhase DEF Ending, Following, RoutedAt
  <2> QED
    BY <1>0, <1>1, <1>5, <2>1 DEF Ending, Kept, Settled
<1>6. CASE c = d /\ Collecting(d)
  <2>1. proc[c].phase = "settled-inspect" => owner.outcome = "success"
    BY <1>6 DEF Collecting, Post, SettledOnce
  <2> QED
    BY <1>0, <1>1, <1>6, <2>1 DEF Collecting, Waits, Kept, Settled
<1>7. CASE c = d /\ (Opening(d) \/ Filling(d) \/ Spawning(d) \/ Answering(d))
  BY <1>0, <1>1, <1>7 DEF Opening, Filling, Spawning, Answering, Waits, Kept,
     Settled
<1> QED
  BY <1>2, <1>3, <1>4, <1>5, <1>6, <1>7 DEF Moves

LEMMA InitCounted == Init => Counted
BY DEF Init, Counted, CountsOfState, Unreviewed, ReviewRecorded, Genesis, Idle,
   NoOutput, AcceptPath, AfterPermission, Done, Running

LEMMA NextCounted ==
  ASSUME Typed, Routed, Reviewed, Counted, [Next]_vars
  PROVE  Counted'
<1>1. CASE UNCHANGED <<proc, out, owner>>
  BY <1>1 DEF Counted, CountsOfState, Unreviewed, Keeps, ReviewRecorded, Done,
     Running, ReviewOf
<1>2. ASSUME NEW d \in Caller, Others(d), Moves(d)
      PROVE  Counted'
  <2>1. CountsOfState'
    BY <1>2, CountsMove DEF Counted
  <2>2. ~Unreviewed' => owner'.review > 0 /\ \E w \in Caller : Keeps(w)'
    BY <1>2, KeptMoves
  <2>3. \A c \in Caller : ReviewRecorded(c)'
    BY <1>2, RecordedMoves
  <2>4. \A c \in Caller : Settled(c)' => owner'.outcome = "success"
    BY <1>2, SettledMoves
  <2> QED
    BY <2>1, <2>2, <2>3, <2>4 DEF Counted, Settled
<1>3. ASSUME NEW d \in Caller, Driving(d)
      PROVE  Counted'
  <2>1. CountsOfState'
    BY <1>3, CountsMove DEF Counted
  <2>2. ~Unreviewed' => owner'.review > 0 /\ \E w \in Caller : Keeps(w)'
    BY <1>3, KeptMoves
  <2>3. /\ UNCHANGED <<proc, out>>
        /\ ~Unreviewed => ~Unreviewed' /\ owner'.review = owner.review
    BY <1>3, AgForward, DrivingFields
  <2>4. owner.outcome = "success" => owner'.outcome = "success"
    BY <1>3, DrivingFields DEF Counted, CountsOfState, RunSpend
  <2>5. \A c \in Caller : ReviewRecorded(c)'
    BY <2>3 DEF Counted, ReviewRecorded, ReviewOf, Running
  <2>6. \A c \in Caller : Settled(c)' => owner'.outcome = "success"
    BY <2>3, <2>4 DEF Counted, Settled, Done, Running
  <2> QED
    BY <2>1, <2>2, <2>5, <2>6 DEF Counted, Settled
<1> QED
  BY <1>1, <1>2, <1>3, StepMoves

-----------------------------------------------------------------------------
(* Layer 4: the window. *)

LEMMA WindowEndFits ==
  ASSUME Typed, NEW c \in Caller, ReviewOf(c) > 0
  PROVE  WindowEnd(c) > 0 /\ WindowEnd(c) <= ReviewOf(c)
<1> now \in Nat /\ ReviewOf(c) \in Nat
  BY Parts, ReviewIsTime
<1> QED
  BY DEF WindowEnd, Earlier

LEMMA WindowMoves ==
  ASSUME Typed, Routed, Reviewed, Windowed, NEW c \in Caller, NEW d \in Caller,
         Others(d), Moves(d), Knows(c)'
  PROVE  WindowFits(c)'
<1> USE DEF Running, Done, Knows
<1>0. /\ RoutedAt(c) /\ SourceNamed(proc[c])
      /\ Knows(c) => WindowFits(c)
      /\ proc[c].expires \in Nat /\ proc[c].issued \in Nat /\ now \in Nat
  BY Parts DEF Routed, Windowed, Process
<1>1. /\ proc[c].phase \in AcceptPath => ReviewOf(c)' = ReviewOf(c)
      /\ "before-permission" \in AcceptPath /\ AfterPermission \subseteq AcceptPath
      /\ "before-permission" \notin AfterPermission
  BY ReviewOfStays DEF AcceptPath, AfterPermission
<1>2. now' = now
  BY DEF Moves, Entering, Advancing, Ending, Collecting, Opening, Filling,
     Spawning, Answering
<1>3. CASE c # d
  BY <1>0, <1>1, <1>2, <1>3, Elsewhere DEF WindowFits
<1>4. CASE c = d /\ Entering(d)
  BY <1>4 DEF Entering, WindowFits, AfterPermission
<1>5. CASE c = d /\ Advancing(d)
  <2>1. /\ proc'[c].phase \in AfterPermission =>
             /\ proc[c].phase \in {"before-permission"} \cup AfterPermission
             /\ proc'[c].phase # "before-permission"
             /\ proc'[c].expires = proc[c].expires
        /\ proc'[c].phase = "before-permission" =>
             /\ proc[c].phase = "record-review"
             /\ proc'[c].expires = WindowEnd(c) /\ proc'[c].issued = now
        /\ proc[c].child = "none" /\ proc[c].status = "running"
        /\ proc'[c].phase = "before-permission" => proc'[c].child = "recorded"
    BY <1>0, <1>1, <1>5, Before DEF Advancing, Following, RoutedAt, SourceNamed
  <2>2. proc[c].phase = "record-review" =>
          WindowEnd(c) > 0 /\ WindowEnd(c) <= ReviewOf(c)
    BY ReviewAccepted, WindowEndFits DEF AcceptPath
  <2>3. "record-review" \in AcceptPath
    BY DEF AcceptPath
  <2> QED
    BY <1>0, <1>1, <1>2, <2>1, <2>2, <2>3 DEF WindowFits
<1>6. CASE c = d /\ Ending(d)
  BY <1>0, <1>1, <1>2, <1>6 DEF Ending, Kept, WindowFits
<1>7. CASE c = d /\ Collecting(d)
  <2>1. proc[c].phase = "before-permission" =>
          FreshUntil - now >= proc[c].expires - proc[c].issued
    BY <1>7 DEF Collecting, Post, FreshFor
  <2> QED
    BY <1>0, <1>1, <1>2, <1>7, <2>1 DEF Collecting, Waits, Kept, WindowFits
<1>8. CASE c = d /\ (Opening(d) \/ Filling(d) \/ Spawning(d) \/ Answering(d))
  BY <1>0, <1>1, <1>2, <1>8 DEF Opening, Filling, Spawning, Answering, Waits,
     Kept, WindowFits
<1> QED
  BY <1>3, <1>4, <1>5, <1>6, <1>7, <1>8 DEF Moves

LEMMA InitWindowed == Init => Windowed
BY DEF Init, Windowed, Knows, Running, Idle

LEMMA NextWindowed ==
  ASSUME Typed, Routed, Reviewed, Windowed, [Next]_vars
  PROVE  Windowed'
<1>1. CASE UNCHANGED <<proc, out>> /\ now' \in Nat /\ now' >= now
  <2>1. \A c \in Caller : proc[c].issued \in Nat /\ now \in Nat
    BY Parts DEF Process
  <2> QED
    BY <1>1, <2>1 DEF Windowed, WindowFits, Knows, Running, Done, ReviewOf
<1>2. ASSUME NEW d \in Caller, Others(d), Moves(d)
      PROVE  Windowed'
  BY <1>2, WindowMoves DEF Windowed
<1>3. ASSUME NEW d \in Caller, Driving(d)
      PROVE  UNCHANGED <<proc, out>> /\ now' \in Nat /\ now' >= now
  BY <1>3, DrivingFields, Parts
<1> QED
  BY <1>1, <1>2, <1>3, StepMoves

-----------------------------------------------------------------------------
(* Layer 5: one mandate, and one grant under it. *)

\* A grant is followed by nothing but its use.
LEMMA AfterTheGrant ==
  ASSUME NEW m, NEW q \in AfterGrant \cup {"operator-grant"},
         Successor(m, q) # "end"
  PROVE  Successor(m, q) \in AfterGrant
BY SuccessorTable DEF AfterGrant

\* A store is only ever replaced by a filled one.
LEMMA MandateStays ==
  ASSUME Typed, Windowed, NEW d \in Caller, Moves(d), owner.mandate # NoMandate
  PROVE  owner'.mandate # NoMandate
<1>1. Filling(d) => proc[d].expires > 0
  BY DEF Filling, Windowed, Knows, WindowFits, AfterPermission
<1> QED
  BY <1>1, OwnerMoves DEF MandateBecomes, NoMandate, EmptyMandate

LEMMA HolderMoves ==
  ASSUME Typed, Routed, NEW c \in Caller, NEW d \in Caller, Others(d), Moves(d),
         Holder(c)'
  PROVE  Holder(c) \/ (c = d /\ Opening(d))
<1> USE DEF Running
<1>0. RoutedAt(c) /\ SourceNamed(proc[c]) /\ "mandate-create" \notin NativeStage
  BY Parts DEF Routed, NativeStage, Inspections, Freshness, Verifications, AgRuns
<1>1. CASE c # d
  BY <1>1, Elsewhere DEF Holder
<1>2. CASE c = d /\ Entering(d)
  BY <1>2 DEF Entering, Holder, AfterMandate, AfterGrant
<1>3. CASE c = d /\ Advancing(d)
  <2>1. proc'[c].phase \in AfterMandate
    BY <1>3 DEF Advancing, Holder
  <2>2. /\ proc[c].phase \in {"mandate-create"} \cup AfterMandate
        /\ proc[c].child = "none" /\ proc[c].status = "running"
    BY <1>0, <1>3, <2>1, Before DEF Advancing, Following, RoutedAt, SourceNamed
  <2> QED
    BY <2>2 DEF Holder
<1>4. CASE c = d /\ Ending(d)
  BY <1>4 DEF Ending, Kept, Holder
<1>5. CASE c = d /\ (Collecting(d) \/ Filling(d) \/ Spawning(d) \/ Answering(d))
  BY <1>0, <1>5 DEF Collecting, Filling, Spawning, Answering, Waits, Kept,
     Holder, RoutedAt
<1> QED
  BY <1>1, <1>2, <1>3, <1>4, <1>5 DEF Moves

LEMMA FreshMoves ==
  ASSUME RequestInv, Routed, Granting, NEW d \in Caller, Others(d), Moves(d)
  PROVE  FreshGround'
<1> SUFFICES ASSUME NEW c \in Caller, Running(c)', proc'[c].phase \in ReviewPath
             PROVE  owner'.mandate = NoMandate
  BY DEF FreshGround
<1> USE DEF Running
<1>0. /\ RoutedAt(c) /\ SourceNamed(proc[c]) /\ Typed
      /\ "initial" \notin ReviewPath /\ "mandate-create" \notin ReviewPath
  BY Parts DEF Routed, RequestInv, ReviewPath
<1>1. CASE Running(c) /\ proc[c].phase \in ReviewPath
  <2>1. owner.mandate = NoMandate
    BY <1>1 DEF Granting, FreshGround
  <2>2. ~Opening(d) /\ ~Filling(d)
    <3> SUFFICES ASSUME Running(d), proc[d].phase = "mandate-create"
                 PROVE  FALSE
      BY DEF Opening, Filling
    <3>1. lock = c
      BY <1>1 DEF RequestInv, MutualExclusion, InOrder, Reviewing, Locking
    <3>2. proc[d].mode \in {"execute", "continue"}
      BY <1>0, RouteOfPhase, Parts DEF Routed, RoutedAt, Process, AcceptPath,
         AfterPermission
    <3>3. lock = d
      BY <3>2 DEF RequestInv, MutualExclusion, Locking
    <3> QED
      BY <1>0, <1>1, <3>1, <3>3
  <2> QED
    BY <1>0, <2>1, <2>2, OwnerMoves
<1>2. CASE ~(Running(c) /\ proc[c].phase \in ReviewPath)
  <2>1. c = d
    BY <1>2, Elsewhere
  <2>2. Advancing(d)
    BY <1>0, <1>2, <2>1 DEF Moves, Entering, Ending, Collecting, Opening, Filling,
       Spawning, Answering, Waits, Kept
  <2>3. Following(c) = "initial-inspect"
    BY <1>0, <1>2, <2>1, <2>2, Before DEF Advancing, Following, RoutedAt,
       SourceNamed
  <2>4. Pre(c, "initial-inspect") /\ UNCHANGED owner
    BY <2>1, <2>2, <2>3 DEF Advancing
  <2>5. NothingReviewed
    BY <2>4 DEF Pre
  <2> QED
    BY <2>4, <2>5 DEF NothingReviewed, NothingGranted
<1> QED
  BY <1>1, <1>2

\* A grant that was asked for is not forgotten.
LEMMA GrantedStays ==
  ASSUME RequestInv, NEW c \in Caller, NEW d \in Caller, Granted(c), Others(d),
         Moves(d)
  PROVE  Granted(c)'
<1> USE DEF Running
<1>1. CASE c # d
  BY <1>1, Elsewhere DEF Granted
<1>2. CASE c = d /\ Advancing(d)
  BY <1>2, AfterTheGrant DEF Advancing, Following, Granted
<1>3. CASE c = d /\ ~Advancing(d)
  <2>1. ~Entering(d)
    BY <1>3 DEF Entering, RequestInv, InOrder, Granted, AfterGrant
  <2> QED
    BY <1>3, <2>1 DEF Moves, Ending, Collecting, Opening, Filling, Spawning,
       Answering, Waits, Kept, Granted
<1> QED
  BY <1>1, <1>2, <1>3

\* What c is told of its grant, and the run document it then writes.
LEMMA AcknowledgedMoves ==
  ASSUME Typed, Routed, NEW c \in Caller, NEW d \in Caller, Others(d), Moves(d),
         Acknowledged(c)' \/ out'[c].deadline # 0
  PROVE  \/ Acknowledged(c) \/ out[c].deadline # 0
         \/ c = d /\ owner'.grants = owner.grants + 1
<1> USE DEF Running
<1>0. RoutedAt(c) /\ SourceNamed(proc[c])
  BY Parts DEF Routed
<1>1. CASE c # d
  BY <1>1, Elsewhere DEF Acknowledged
<1>2. CASE c = d /\ Entering(d)
  BY <1>2 DEF Entering, Acknowledged, AfterGrant
<1>3. CASE c = d /\ Advancing(d)
  <2>1. CASE proc'[c].phase \in AfterGrant
    <3>1. /\ proc[c].phase \in {"operator-grant"} \cup AfterGrant
          /\ proc[c].child = "none" /\ proc[c].status = "running"
      BY <1>0, <1>3, <2>1, Before DEF Advancing, Following, RoutedAt, SourceNamed
    <3> QED
      BY <3>1 DEF Acknowledged
  <2>2. CASE proc'[c].phase \notin AfterGrant
    <3>1. proc'[c].phase # "run-input"
      BY <2>2 DEF AfterGrant
    <3> QED
      BY <1>3, <2>2, <3>1 DEF Advancing, Acknowledged
  <2> QED
    BY <2>1, <2>2
<1>4. CASE c = d /\ Ending(d)
  BY <1>4 DEF Ending, Kept, Acknowledged
<1>5. CASE c = d /\ (Collecting(d) \/ Opening(d) \/ Filling(d) \/ Spawning(d))
  BY <1>5 DEF Collecting, Opening, Filling, Spawning, Waits, Kept,
     Acknowledged, AfterGrant
<1>6. CASE c = d /\ Answering(d) /\ Effect(d)
  <2>1. Exits(c)
    BY <1>6, EffectFields
  <2> QED
    BY <1>6, <2>1 DEF Answering, Waits, Kept, Acknowledged, Exits
<1> QED
  BY <1>1, <1>2, <1>3, <1>4, <1>5, <1>6 DEF Moves

\* Whoever grants is the holder of the mandate and was granted nothing yet.
LEMMA GrantMoves ==
  ASSUME RequestInv, Routed, Granting, NEW d \in Caller, Others(d), Moves(d)
  PROVE  GrantAccounted'
<1> USE DEF Running
<1>0. Typed /\ owner.grants \in Nat
  BY Parts DEF RequestInv, Owner
<1>1. CASE GrantSame
  <2>1. owner'.grants > 0 => \E c \in Caller : Granted(c)'
    <3> SUFFICES ASSUME owner'.grants > 0
                 PROVE  \E c \in Caller : Granted(c)'
      OBVIOUS
    <3>1. PICK c \in Caller : Granted(c)
      BY <1>1 DEF Granting, GrantAccounted, GrantSame
    <3>2. Granted(c)'
      BY <3>1, GrantedStays
    <3> QED
      BY <3>2
  <2>2. \A c \in Caller : Acknowledged(c)' \/ out'[c].deadline # 0 =>
                            owner'.grants > 0
    BY <1>0, <1>1, AcknowledgedMoves DEF Granting, GrantAccounted, GrantSame
  <2> QED
    BY <1>1, <2>1, <2>2 DEF Granting, GrantAccounted, GrantSame
<1>2. CASE ~GrantSame
  <2>1. /\ Answering(d) /\ proc[d].phase = "operator-grant"
        /\ owner'.grants = owner.grants + 1
    BY <1>0, <1>2, OwnerMoves DEF MandateBecomes, GrantStep, GrantSame
  <2>2. \A c \in Caller : ~Granted(c)
    <3> SUFFICES ASSUME NEW c \in Caller, Granted(c)
                 PROVE  FALSE
      OBVIOUS
    <3>1. Holder(c) /\ Holder(d)
      BY <2>1 DEF Holder, Granted, AfterMandate
    <3>2. c = d
      BY <3>1 DEF Granting, OneHolder
    <3> QED
      BY <2>1, <3>2 DEF Granted, Answering, AfterGrant
  <2>3. owner.grants = 0
    BY <1>0, <2>2 DEF Granting, GrantAccounted
  <2>4. Granted(d)'
    BY <2>1 DEF Answering, Waits, Kept, Granted
  <2> QED
    BY <2>1, <2>3, <2>4 DEF GrantAccounted
<1> QED
  BY <1>1, <1>2

LEMMA InitGranting == Init => Granting
BY DEF Init, Granting, OneHolder, FreshGround, GrantAccounted, Holder, Granted,
   Acknowledged, AfterMandate, AfterGrant, Idle, NoOutput, Genesis, Running

LEMMA NextGranting ==
  ASSUME RequestInv, Routed, Windowed, Granting, [Next]_vars
  PROVE  Granting'
<1>0. Typed
  BY DEF RequestInv
<1>1. CASE /\ UNCHANGED <<proc, out>> /\ owner'.mandate = owner.mandate
           /\ GrantSame
  BY <1>1 DEF Granting, OneHolder, FreshGround, GrantAccounted, Holder, Granted,
     Acknowledged, GrantSame, Running
<1>2. ASSUME NEW d \in Caller, Others(d), Moves(d)
      PROVE  Granting'
  <2>1. ASSUME NEW c \in Caller, Holder(c)'
        PROVE  owner'.mandate # NoMandate
    <3>1. CASE Holder(c)
      BY <1>0, <1>2, <3>1, MandateStays DEF Granting
    <3>2. CASE Opening(d)
      BY <3>2 DEF Opening, MandateBecomes, EmptyMandate, NoMandate
    <3> QED
      BY <1>0, <1>2, <2>1, <3>1, <3>2, HolderMoves
  <2>2. OneHolder'
    <3> SUFFICES ASSUME NEW c \in Caller, NEW e \in Caller,
                        Holder(c)', Holder(e)'
                 PROVE  c = e
      BY DEF OneHolder
    <3>1. /\ Holder(c) \/ (c = d /\ Opening(d))
          /\ Holder(e) \/ (e = d /\ Opening(d))
      BY <1>0, <1>2, HolderMoves
    <3> QED
      BY <3>1 DEF Granting, OneHolder, Opening
  <2> QED
    BY <1>2, <2>1, <2>2, FreshMoves, GrantMoves DEF Granting
<1>3. ASSUME NEW d \in Caller, Driving(d)
      PROVE  Granting'
  BY <1>0, <1>1, <1>3, DrivingFields
<1> QED
  BY <1>0, <1>1, <1>2, <1>3, StepMoves DEF GrantSame

-----------------------------------------------------------------------------
(* Layer 6: the limits of the mandate, the grant and the run document. *)

\* What every later layer relies on.
Grounds ==
  RequestInv /\ Routed /\ Reviewed /\ Counted /\ Windowed /\ Granting

\* Whoever was granted something holds the mandate and AG's review.
LEMMA GrantHeld ==
  ASSUME NEW c \in Caller, Granted(c), Counted, Granting
  PROVE  Holder(c) /\ ~Unreviewed /\ owner.mandate # NoMandate
<1>1. /\ Holder(c) /\ proc[c].phase \in AcceptPath \ {"record-review"}
  BY DEF Granted, Holder, AfterMandate, AfterGrant, AcceptPath, AfterPermission
<1> QED
  BY <1>1 DEF Counted, ReviewRecorded, Granting

\* The mandate of one that acts on it is not touched by anybody else.
LEMMA MandateKept ==
  ASSUME RequestInv, Granting, NEW c \in Caller, NEW d \in Caller, Holder(c),
         Moves(d),
         c = d => proc[d].phase # "mandate-create"
  PROVE  owner'.mandate = owner.mandate
<1>1. Typed /\ owner.mandate # NoMandate
  BY DEF RequestInv, Granting
<1>2. ~Opening(d)
  BY <1>1 DEF Opening
<1>3. ~Filling(d)
  <2> SUFFICES ASSUME Filling(d)
               PROVE  FALSE
    OBVIOUS
  <2>1. Holder(d) /\ proc[d].phase = "mandate-create"
    BY DEF Filling, Holder
  <2> QED
    BY <2>1 DEF Granting, OneHolder
<1> QED
  BY <1>1, <1>2, <1>3, OwnerMoves

LEMMA MandateWrittenMoves ==
  ASSUME Grounds, NEW c \in Caller, NEW d \in Caller, Others(d), Moves(d),
         MandateWritten(c)
  PROVE  MandateWritten(c)'
<1> USE DEF Running, Knows, Done
<1>0. /\ Typed /\ RequestInv /\ Granting /\ RoutedAt(c) /\ SourceNamed(proc[c])
      /\ "mandate-create" \notin NativeStage \cup AfterMandate
      /\ "before-permission" \notin AfterMandate
  BY Parts DEF Grounds, RequestInv, Routed, NativeStage, Inspections, Freshness,
     Verifications, AgRuns, AfterMandate, AfterGrant
<1>1. CASE c # d
  <2>1. proc'[c] = proc[c]
    BY <1>1, Elsewhere
  <2>2. CASE proc[c].phase \in AfterMandate \/ Done(c, "mandate-create")
    <3>1. Holder(c)
      BY <2>2 DEF Holder
    <3>2. owner'.mandate = owner.mandate
      BY <1>0, <1>1, <3>1, MandateKept
    <3> QED
      BY <2>1, <2>2, <3>2 DEF MandateWritten
  <2>3. CASE ~(proc[c].phase \in AfterMandate \/ Done(c, "mandate-create"))
    BY <2>1, <2>3 DEF MandateWritten
  <2> QED
    BY <2>2, <2>3
<1>2. CASE c = d /\ Entering(d)
  BY <1>2 DEF Entering, MandateWritten, AfterMandate, AfterGrant
<1>3. CASE c = d /\ Advancing(d)
  <2>1. /\ proc'[c].phase \in AfterMandate =>
             /\ proc[c].phase \in {"mandate-create"} \cup AfterMandate
             /\ proc[c].child = "none" /\ proc[c].status = "running"
        /\ proc'[c].phase = "mandate-create" => proc'[c].child = "recorded"
    BY <1>0, <1>3, Before DEF Advancing, Following, RoutedAt, SourceNamed
  <2> QED
    BY <1>0, <1>3, <2>1 DEF Advancing, MandateWritten
<1>4. CASE c = d /\ Ending(d)
  BY <1>4 DEF Ending, Kept, MandateWritten
<1>5. CASE c = d /\ (Collecting(d) \/ Spawning(d))
  BY <1>0, <1>5 DEF Collecting, Spawning, Waits, Kept, MandateWritten, RoutedAt
<1>6. CASE c = d /\ (Opening(d) \/ Filling(d))
  BY <1>0, <1>6 DEF Opening, Filling, Waits, Kept, MandateWritten,
     MandateBecomes
<1>7. CASE c = d /\ Answering(d) /\ Effect(d)
  <2>1. owner'.mandate = owner.mandate
    BY <1>0, <1>7, EffectFields
  <2> QED
    BY <1>0, <1>7, <2>1 DEF Answering, Waits, Kept, MandateWritten
<1> QED
  BY <1>1, <1>2, <1>3, <1>4, <1>5, <1>6, <1>7 DEF Moves

\* The window c works in fits the review AG recorded and the observation.
LEMMA WithinRecorded ==
  ASSUME Grounds, NEW c \in Caller, Knows(c),
         proc[c].phase \in AfterMandate
  PROVE  /\ ~Unreviewed /\ proc[c].expires <= owner.review
         /\ proc[c].expires <= FreshUntil
<1>1. /\ proc[c].phase \in AcceptPath \ {"record-review"}
      /\ proc[c].phase \in AfterPermission
  BY DEF AfterMandate, AfterGrant, AcceptPath, AfterPermission
<1> QED
  BY <1>1 DEF Grounds, Counted, ReviewRecorded, Windowed, WindowFits

LEMMA DeadlineMoves ==
  ASSUME Grounds, NEW c \in Caller, NEW d \in Caller, Others(d), Moves(d),
         DeadlineFits(c)
  PROVE  DeadlineFits(c)'
<1>0. /\ Typed /\ RoutedAt(c) /\ SourceNamed(proc[c])
      /\ proc[c].expires \in Nat /\ proc[c].permit \in Nat
      /\ owner.review \in Nat
  BY Parts DEF Grounds, RequestInv, Routed, Process, Owner
<1>1. CASE out'[c].deadline = out[c].deadline
  BY <1>0, <1>1, AgForward DEF DeadlineFits
<1>2. CASE out'[c].deadline # out[c].deadline
  <2>1. c = d /\ Advancing(c) /\ Following(c) = "run-input"
    BY <1>2, Elsewhere DEF Moves, Entering, Advancing, Ending, Collecting,
       Opening, Filling, Spawning, Answering
  <2>2. proc[c].phase = "operator-grant" /\ Knows(c)
    BY <1>0, <2>1, Before DEF Advancing, Following, RoutedAt, SourceNamed,
       Running, Knows
  <2>3. /\ ~Unreviewed /\ proc[c].expires <= owner.review
        /\ proc[c].expires <= FreshUntil
    BY <2>2, WithinRecorded DEF AfterMandate
  <2>4. PreparedDeadline(c) <= proc[c].expires /\ PreparedDeadline(c) \in Nat
    BY <1>0 DEF PreparedDeadline, Earlier
  <2>5. out'[c].deadline = PreparedDeadline(c) /\ owner' = owner
    BY <2>1 DEF Advancing
  <2> QED
    BY <1>0, <2>3, <2>4, <2>5 DEF DeadlineFits, Unreviewed
<1> QED
  BY <1>1, <1>2

LEMMA AuthorityMoves ==
  ASSUME Grounds, Bounded, NEW d \in Caller, Others(d), Moves(d)
  PROVE  AuthorityWithinReview'
<1>0. Typed /\ RequestInv /\ Counted /\ Granting /\ owner.grants \in Nat
  BY Parts DEF Grounds, RequestInv, Owner
<1>1. CASE GrantSame /\ owner.grants > 0
  <2>1. PICK e \in Caller : Granted(e)
    BY <1>0, <1>1 DEF Granting, GrantAccounted
  <2>2. Holder(e) /\ ~Unreviewed
    BY <1>0, <2>1, GrantHeld
  <2>3. proc[e].phase # "mandate-create"
    BY <2>1 DEF Granted, AfterGrant
  <2>4. owner'.mandate = owner.mandate
    BY <1>0, <2>2, <2>3, MandateKept
  <2>5. owner'.review = owner.review
    BY <1>0, <2>2, AgForward
  <2> QED
    BY <1>1, <2>4, <2>5 DEF GrantSame, Bounded, AuthorityWithinReview
<1>2. CASE GrantSame /\ ~(owner.grants > 0)
  BY <1>2 DEF GrantSame, AuthorityWithinReview
<1>3. CASE ~GrantSame
  <2>1. /\ proc[d].phase = "operator-grant" /\ AgSame /\ Answering(d)
        /\ owner'.mandate = owner.mandate
        /\ owner'.grantUntil = proc[d].expires
    BY <1>0, <1>3, OwnerMoves DEF MandateBecomes, GrantStep, GrantSame
  <2>2. proc[d].phase \in AfterMandate /\ Knows(d)
    BY <2>1 DEF AfterMandate, Answering, Knows
  <2>3. owner.mandate = proc[d].expires
    BY <2>2 DEF Bounded, MandateWritten
  <2> QED
    BY <2>1, <2>2, <2>3, WithinRecorded DEF AgSame, AuthorityWithinReview
<1> QED
  BY <1>1, <1>2, <1>3

LEMMA InitBounded == Init => Bounded
BY DEF Init, Bounded, MandateWritten, DeadlineFits, AuthorityWithinReview, Idle,
   NoOutput, Genesis, Knows, Running, Done

LEMMA NextBounded ==
  ASSUME Grounds, Bounded, [Next]_vars
  PROVE  Bounded'
<1>0. Typed
  BY DEF Grounds, RequestInv
<1>1. CASE UNCHANGED <<proc, out, owner>>
  BY <1>1 DEF Bounded, MandateWritten, DeadlineFits, AuthorityWithinReview,
     Knows, Done, Running, Unreviewed
<1>2. ASSUME NEW d \in Caller, Others(d), Moves(d)
      PROVE  Bounded'
  <2>1. \A c \in Caller : MandateWritten(c)' /\ DeadlineFits(c)'
    BY <1>2, MandateWrittenMoves, DeadlineMoves DEF Bounded
  <2> QED
    BY <1>2, <2>1, AuthorityMoves DEF Bounded
<1>3. ASSUME NEW d \in Caller, Driving(d)
      PROVE  Bounded'
  <2>1. /\ UNCHANGED <<proc, out>> /\ owner'.mandate = owner.mandate
        /\ owner'.review = owner.review /\ GrantSame
    BY <1>0, <1>3, DrivingFields
  <2>2. ~Unreviewed => ~Unreviewed'
    BY <1>0, <1>3, AgForward
  <2> QED
    BY <2>1, <2>2 DEF Bounded, MandateWritten, DeadlineFits, GrantSame,
       AuthorityWithinReview, Knows, Done, Running
<1> QED
  BY <1>0, <1>1, <1>2, <1>3, StepMoves

-----------------------------------------------------------------------------
(* Layer 7: the run document authority was spent on, and what was announced. *)

\* Authority was spent before the deadline of a run that was announced.
Spent ==
  owner.spends > 0 =>
    \E c \in Caller : RecoverableRun(c) /\ owner.spentAt < out[c].deadline

Evident == Spent /\ EvidencePrecedesEffect

\* The records of an invocation only grow, and its run document stays.
LEMMA RecordsStay ==
  ASSUME Typed, NEW c \in Caller, NEW d \in Caller, RoutedAt(c), Others(d),
         Moves(d)
  PROVE  /\ \A q \in out[c].started : q \in out'[c].started
         /\ RecoverableRun(c) =>
              RecoverableRun(c)' /\ out'[c].deadline = out[c].deadline
<1>1. CASE c # d
  BY <1>1, Elsewhere DEF RecoverableRun
<1>2. CASE c = d
  <2>1. \A q \in out[c].started : q \in out'[c].started
    BY <1>2 DEF Moves, Entering, Advancing, Ending, Collecting, Opening,
       Filling, Spawning, Answering
  <2>2. ASSUME RecoverableRun(c)
        PROVE  RecoverableRun(c)' /\ out'[c].deadline = out[c].deadline
    <3>1. RecoverableRun(c)'
      BY <1>2, <2>2, RecoverableStays
    <3>2. ~(Advancing(c) /\ Following(c) = "run-input")
      <4> SUFFICES ASSUME Advancing(c), Following(c) = "run-input"
                   PROVE  FALSE
        OBVIOUS
      <4>1. proc[c].phase = "operator-grant"
        BY Before, Parts DEF Advancing, Following, RoutedAt, SourceNamed,
           Running, Process
      <4> QED
        BY <2>2, <4>1, RankTable DEF RoutedAt, RecoverableRun
    <3>3. out'[c].deadline = out[c].deadline
      BY <1>2, <3>2 DEF Moves, Entering, Advancing, Ending, Collecting, Opening,
         Filling, Spawning, Answering
    <3> QED
      BY <3>1, <3>3
  <2> QED
    BY <2>1, <2>2
<1> QED
  BY <1>1, <1>2

\* Whoever spends has a retained run document, its own or its source's.
LEMMA SpendMoves ==
  ASSUME Grounds, NEW d \in Caller, RunSpend(d)
  PROVE  \E c \in Caller : RecoverableRun(c) /\ now < out[c].deadline
<1>0. /\ RoutedAt(d) /\ ReviewedAt(d) /\ SourceNamed(proc[d])
      /\ proc[d] \in Process /\ now \in Nat
  BY Parts DEF Grounds, RequestInv, Routed, Reviewed
<1>1. proc[d].phase \in AgRuns /\ now < RunDeadline(d)
  BY DEF RunSpend, Native
<1>2. CASE proc[d].phase = "same-run-recovery"
  <2>1. proc[d].mode = "recover"
    BY <1>0, <1>2, RouteOfPhase DEF RoutedAt, Process
  <2>2. RecoverableRun(proc[d].source) /\ proc[d].source \in Caller
    BY <1>0, <1>2, <2>1 DEF ReviewedAt, Taken, SourceNamed
  <2> QED
    BY <1>1, <2>1, <2>2 DEF RunDeadline
<1>3. CASE proc[d].phase = "finite-run"
  <2>1. proc[d].mode # "recover"
    BY <1>0, <1>3, RouteOfPhase DEF RoutedAt, Process, AcceptPath,
       AfterPermission
  <2>2. "finite-run" \in out[d].started
    BY <1>0, <1>3 DEF RoutedAt
  <2> QED
    BY <1>0, <1>1, <2>1, <2>2 DEF RunDeadline, RecoverableRun
<1> QED
  BY <1>1, <1>2, <1>3 DEF AgRuns

\* The stage that brings about an effect was announced before it.
LEMMA EvidenceMoves ==
  ASSUME Grounds, EvidencePrecedesEffect, NEW d \in Caller, Others(d), Moves(d),
         owner'.spends = owner.spends
  PROVE  EvidencePrecedesEffect'
<1>0. Typed /\ Routed
  BY DEF Grounds, RequestInv
<1>1. \A c \in Caller : \A q \in out[c].started : q \in out'[c].started
  BY <1>0, RecordsStay DEF Routed
<1>2. \A c \in Caller : RecoverableRun(c) => RecoverableRun(c)'
  BY <1>0, RecordsStay DEF Routed
<1>3. proc[d].phase # "initial" => proc[d].phase \in out[d].started
  BY <1>0 DEF Routed, RoutedAt
<1>4. owner'.requests = owner.requests \/ proc[d].phase = "provider-run"
  BY <1>0, OwnerMoves DEF MandateBecomes, RequestStep
<1>5. owner'.mandate = owner.mandate \/ proc[d].phase = "mandate-create"
  BY <1>0, OwnerMoves DEF Opening, Filling
<1>6. owner'.grants = owner.grants \/ proc[d].phase = "operator-grant"
  BY <1>0, OwnerMoves DEF MandateBecomes, GrantStep, GrantSame
<1> QED
  BY <1>1, <1>2, <1>3, <1>4, <1>5, <1>6 DEF EvidencePrecedesEffect

LEMMA InitEvident == Init => Evident
BY DEF Init, Evident, Spent, EvidencePrecedesEffect, Genesis, NoMandate

LEMMA NextEvident ==
  ASSUME Grounds, Evident, [Next]_vars
  PROVE  Evident'
<1>0. Typed /\ Routed
  BY DEF Grounds, RequestInv
<1>1. CASE UNCHANGED <<proc, out, owner>>
  BY <1>1 DEF Evident, Spent, EvidencePrecedesEffect, RecoverableRun
<1>2. ASSUME NEW d \in Caller, Others(d), Moves(d)
      PROVE  Evident'
  <2>1. owner'.spends = owner.spends /\ owner'.spentAt = owner.spentAt
    BY <1>0, <1>2, OwnerMoves DEF MandateBecomes, RunSame
  <2>2. \A c \in Caller : RecoverableRun(c) =>
          RecoverableRun(c)' /\ out'[c].deadline = out[c].deadline
    BY <1>0, <1>2, RecordsStay DEF Routed
  <2>3. Spent'
    BY <2>1, <2>2 DEF Evident, Spent
  <2> QED
    BY <1>2, <2>1, <2>3, EvidenceMoves DEF Evident
<1>3. ASSUME NEW d \in Caller, Driving(d)
      PROVE  Evident'
  <2>1. /\ UNCHANGED <<proc, out>> /\ owner'.requests = owner.requests
        /\ owner'.mandate = owner.mandate /\ owner'.grants = owner.grants
    BY <1>0, <1>3, DrivingFields DEF GrantSame
  <2>2. Spent'
    <3>1. CASE RunSpend(d) /\ owner'.spentAt = now
      BY <2>1, <3>1, SpendMoves DEF Spent, RecoverableRun
    <3>2. CASE owner'.spends = owner.spends /\ owner'.spentAt = owner.spentAt
      BY <2>1, <3>2 DEF Evident, Spent, RecoverableRun
    <3> QED
      BY <1>0, <1>3, <3>1, <3>2, DrivingFields
  <2>3. owner'.spends > 0 => \E c \in Caller : RecoverableRun(c)'
    BY <2>2 DEF Spent
  <2> QED
    BY <2>1, <2>2, <2>3 DEF Evident, EvidencePrecedesEffect
<1> QED
  BY <1>0, <1>1, <1>2, <1>3, StepMoves

-----------------------------------------------------------------------------
(* The theorems. *)

\* All layers together.
AuthorityInv == Grounds /\ Bounded /\ Evident

LEMMA AuthorityInvariance == Spec => []AuthorityInv
<1>1. Init => AuthorityInv
  BY InitInv, InitRouted, InitReviewed, InitCounted, InitWindowed, InitGranting,
     InitBounded, InitEvident DEF AuthorityInv, Grounds
<1>2. ASSUME AuthorityInv, [Next]_vars
      PROVE  AuthorityInv'
  <2>1. Typed /\ RequestInv'
    BY <1>2, NextInv DEF AuthorityInv, Grounds, RequestInv
  <2>2. Routed' /\ Reviewed'
    BY <1>2, <2>1, NextRouted, NextReviewed DEF AuthorityInv, Grounds
  <2>3. Counted' /\ Windowed'
    BY <1>2, <2>1, NextCounted, NextWindowed DEF AuthorityInv, Grounds
  <2>4. Granting'
    BY <1>2, NextGranting DEF AuthorityInv, Grounds
  <2>5. Bounded' /\ Evident'
    BY <1>2, NextBounded, NextEvident DEF AuthorityInv
  <2> QED
    BY <2>1, <2>2, <2>3, <2>4, <2>5 DEF AuthorityInv, Grounds
<1> QED
  BY <1>1, <1>2, PTL DEF Spec

\* However many invocations run, crash and are replaced, Docket receives at
\* most one grant: the mandate store is created exclusively, and only the one
\* that created it goes on to grant.
THEOREM GrantedOnce == Spec => []OneGrant
<1>1. AuthorityInv => OneGrant
  BY DEF AuthorityInv, Grounds, Granting, GrantAccounted, OneGrant
<1> QED
  BY <1>1, AuthorityInvariance, PTL

\* The grant is the mandate, and ends with the review that AG recorded and
\* with the observation, whatever their windows are.
THEOREM AuthorityBounded == Spec => []AuthorityWithinReview
<1>1. AuthorityInv => AuthorityWithinReview
  BY DEF AuthorityInv, Bounded
<1> QED
  BY <1>1, AuthorityInvariance, PTL

\* The original caller, and a recovery however late, spend before the deadline
\* of the one retained run document.
THEOREM SpentInTime == Spec => []SpendWithinOriginalDeadline
<1>1. ASSUME AuthorityInv
      PROVE  SpendWithinOriginalDeadline
  <2>1. \A c \in Caller : RecoverableRun(c) =>
          out[c].deadline <= owner.review /\ out[c].deadline <= FreshUntil
    BY <1>1 DEF AuthorityInv, Bounded, DeadlineFits, RecoverableRun
  <2> QED
    BY <1>1, <2>1 DEF AuthorityInv, Evident, Spent, SpendWithinOriginalDeadline
<1> QED
  BY <1>1, AuthorityInvariance, PTL

\* AG holds no review but one that some output retains as accepted by the
\* provider and by the native verification.
THEOREM AcceptedBeforeAuthority == Spec => []NoAuthorityWithoutAcceptedReview
<1>1. AuthorityInv => NoAuthorityWithoutAcceptedReview
  BY DEF AuthorityInv, Grounds, Counted, Keeps, Unreviewed,
     NoAuthorityWithoutAcceptedReview
<1> QED
  BY <1>1, AuthorityInvariance, PTL

\* A started record precedes the request, the mandate, the grant and the
\* spend, and a spend finds the run document and the announcement that a
\* recovery needs.
THEOREM EvidenceFirst == Spec => []EvidencePrecedesEffect
<1>1. AuthorityInv => EvidencePrecedesEffect
  BY DEF AuthorityInv, Evident
<1> QED
  BY <1>1, AuthorityInvariance, PTL

\* A success terminal of execute or continue stays true of the owners.
THEOREM SuccessSettled == Spec => []SuccessIsSettled
<1>1. ASSUME AuthorityInv
      PROVE  SuccessIsSettled
  <2>1. Typed /\ Counted
    BY <1>1 DEF AuthorityInv, Grounds, RequestInv
  <2>2. owner \in Owner
    BY <2>1 DEF Typed, TypeOK
  <2>3. owner.ag \in AgState
    BY <2>2 DEF Owner
  <2> QED
    BY <2>1, <2>3 DEF Counted, CountsOfState, SuccessIsSettled, AgState
<1> QED
  BY <1>1, AuthorityInvariance, PTL

\* When review-only writes its literal counts they are what the owners hold:
\* it reviewed on ground where nobody holds a mandate, so nobody was granted
\* anything, no run document exists, and nothing was spent.
THEOREM ClaimTrueWhenWritten == Spec => ReviewOnlyClaimHolds
<1> DEFINE Claimed ==
      \A c \in Caller :
        /\ proc[c].mode = "review-only"
        /\ out[c].terminal = "absent" /\ out'[c].terminal = "ok"
        => /\ owner.requests = 1 /\ owner.mandate = NoMandate
           /\ owner.grants = 0 /\ owner.spends = 0 /\ owner.attempts = 0
<1>1. AuthorityInv /\ [Next]_vars => [Claimed]_vars
  <2> SUFFICES ASSUME AuthorityInv, Next, NEW c \in Caller,
                      proc[c].mode = "review-only",
                      out[c].terminal = "absent", out'[c].terminal = "ok"
               PROVE  /\ owner.requests = 1 /\ owner.mandate = NoMandate
                      /\ owner.grants = 0 /\ owner.spends = 0
                      /\ owner.attempts = 0
    BY DEF vars
  <2>0. /\ Typed /\ RequestInv /\ Counted /\ Granting /\ Spent
        /\ RoutedAt(c) /\ ReviewedAt(c)
    BY DEF AuthorityInv, Grounds, Evident, RequestInv, Routed, Reviewed
  <2>1. /\ owner.requests \in Nat /\ owner.grants \in Nat
        /\ owner.spends \in Nat /\ owner.ag \in AgState
    <3>1. owner \in Owner
      BY <2>0, Parts
    <3> QED
      BY <3>1 DEF Owner
  <2>2. Others(c) /\ Moves(c)
    <3>1. out' # out
      OBVIOUS
    <3>2. \E d \in Caller : Others(d) /\ Moves(d)
      BY <2>0, <3>1, StepMoves, DrivingFields
    <3> QED
      BY <3>2 DEF Others
  <2>3. Running(c) /\ Following(c) = "end"
    BY <2>2 DEF Moves, Entering, Advancing, Ending, Collecting, Opening,
       Filling, Spawning, Answering
  <2>4. proc[c].phase = "native-review-verification"
    BY <2>0, <2>3, RouteOfPhase DEF RoutedAt, Following, Mode
  <2>5. owner.mandate = NoMandate
    BY <2>0, <2>3, <2>4 DEF Granting, FreshGround, ReviewPath
  <2>6. owner.grants = 0
    <3>1. \A e \in Caller : ~Granted(e)
      BY <2>0, <2>5, GrantHeld
    <3> QED
      BY <2>0, <2>1, <3>1 DEF Granting, GrantAccounted
  <2>7. owner.spends = 0
    BY <2>0, <2>1, <2>6 DEF Spent, RecoverableRun, Granting, GrantAccounted
  <2>8. owner.attempts = 0
    BY <2>0, <2>1, <2>7 DEF Counted, CountsOfState, AgState
  <2>9. owner.requests = 1
    <3>1. owner.requests > 0
      BY <2>0, <2>4 DEF ReviewedAt, OwnReview, Reviewing
    <3> QED
      BY <2>0, <2>1, <3>1 DEF RequestInv, RequestAccounted
  <2> QED
    BY <2>5, <2>6, <2>7, <2>8, <2>9
<1> QED
  BY <1>1, AuthorityInvariance, PTL DEF Spec, ReviewOnlyClaimHolds

-----------------------------------------------------------------------------
(* The callers implement the one occurrence. *)

\* A native program does one thing of the occurrence, if any.
LEMMA AnswerImplements ==
  ASSUME AuthorityInv, AuthorityInv', NEW d \in Caller,
         Answering(d), RunSame, AgStep(d), GrantStep(d), RequestStep(d)
  PROVE  Promise!Next \/ UNCHANGED Promise!vars
<1> USE DEF RunSame, AgSame, GrantSame
<1>0. /\ Typed /\ Routed /\ Reviewed /\ Counted
      /\ owner.requests <= 1 /\ owner'.requests <= 1
      /\ owner.grants <= 1 /\ owner'.grants <= 1
    BY DEF AuthorityInv, Grounds, RequestInv, RequestAccounted, Granting,
       GrantAccounted
<1>1. owner.requests \in Nat /\ owner.grants \in Nat /\ owner.review \in Nat
  <2>1. owner \in Owner
    BY <1>0, Parts
  <2> QED
    BY <2>1 DEF Owner
<1>2. CASE AgSame /\ GrantSame /\ owner'.requests = owner.requests
  BY <1>2 DEF Promise!vars
<1>3. CASE owner'.requests # owner.requests
  <2>1. AgSame /\ GrantSame /\ owner'.requests = owner.requests + 1
    BY <1>3 DEF RequestStep
  <2> QED
    BY <1>0, <1>1, <2>1 DEF Promise!Next, Promise!Ask
<1>4. CASE ~GrantSame
  <2>1. /\ proc[d].phase = "operator-grant" /\ AgSame
        /\ owner'.grants = owner.grants + 1
        /\ owner'.requests = owner.requests
    BY <1>4 DEF GrantStep, RequestStep
  <2>2. owner.review # 0
    BY <1>0, <1>1, <2>1 DEF Counted, ReviewRecorded, AcceptPath, AfterPermission
  <2> QED
    BY <1>0, <1>1, <2>1, <2>2 DEF Promise!Next, Promise!Grant
<1>5. CASE GrantSame /\ owner'.requests = owner.requests /\ ~AgSame
  <2>1. CASE owner'.review = owner.review
    BY <1>5, <2>1 DEF Promise!vars
  <2>2. CASE owner'.review # owner.review
    <3>1. /\ proc[d].phase = "record-review" /\ Unreviewed
          /\ owner'.review = ReviewOf(d)
      BY <2>2 DEF AgStep, Unreviewed
    <3>2. ReviewOf(d) > 0 /\ owner.requests > 0
      BY <1>0, <3>1, ReviewAccepted DEF AcceptPath
    <3>3. owner.review = 0
      BY <1>0, <3>1 DEF Counted, CountsOfState
    <3>4. owner'.review # 0 /\ owner.requests = 1
      BY <1>0, <1>1, <3>1, <3>2
    <3> QED
      BY <1>5, <3>3, <3>4 DEF Promise!Next, Promise!Accept
  <2> QED
    BY <2>1, <2>2
<1> QED
  BY <1>2, <1>3, <1>4, <1>5

\* ag run spends, attempts and settles, in this order.
LEMMA DrivingImplements ==
  ASSUME AuthorityInv, NEW d \in Caller, Driving(d)
  PROVE  Promise!Next
<1>0. /\ Typed /\ Grounds /\ CountsOfState /\ GrantAccounted
      /\ owner.grants \in Nat
  <2>1. Typed
    BY DEF AuthorityInv, Grounds, RequestInv
  <2>2. owner \in Owner
    BY <2>1, Parts
  <2> QED
    BY <2>1, <2>2 DEF AuthorityInv, Grounds, Counted, Granting, Owner
<1>1. /\ owner'.requests = owner.requests /\ owner'.review = owner.review
      /\ owner'.grants = owner.grants
  BY <1>0, DrivingFields DEF GrantSame
<1>2. ASSUME RunSpend(d), owner'.spends = owner.spends + 1,
             owner'.attempts = owner.attempts, owner'.copies = owner.copies,
             owner'.outcome = owner.outcome
      PROVE  Promise!Spend
  <2>1. owner.grants = 1
    BY <1>0, <1>2, SpendMoves DEF RecoverableRun, GrantAccounted
  <2>2. owner.spends = 0
    BY <1>0, <1>2 DEF RunSpend, CountsOfState
  <2> QED
    BY <1>1, <1>2, <2>1, <2>2 DEF Promise!Spend
<1>3. ASSUME owner.ag = "spent", owner'.spends = owner.spends,
             owner'.attempts = owner.attempts + 1,
             owner'.copies \in {owner.copies, owner.copies + 1},
             owner'.outcome = owner.outcome
      PROVE  Promise!Attempt
  BY <1>0, <1>1, <1>3 DEF CountsOfState, Promise!Attempt
<1>4. ASSUME owner.ag = "attempted", owner'.spends = owner.spends,
             owner'.attempts = owner.attempts, owner'.copies = owner.copies,
             owner'.outcome \in {"success", "indeterminate"},
             owner'.outcome = "success" => owner.copies = 1
      PROVE  Promise!Settle
  BY <1>0, <1>1, <1>4 DEF CountsOfState, Promise!Settle
<1> QED
  BY <1>0, <1>2, <1>3, <1>4, DrivingFields DEF Promise!Next

\* Callers, crashes, orphans and recoveries together are one occurrence that
\* is reviewed, granted, spent, attempted and settled once: every step is a
\* step of Occurrence or changes nothing it speaks of.
THEOREM OccurrenceImplemented == Spec => ImplementsOccurrence
<1>1. Init => Promise!Init
  BY DEF Init, Genesis, Promise!Init
<1>2. ASSUME AuthorityInv, AuthorityInv', [Next]_vars
      PROVE  Promise!Next \/ UNCHANGED Promise!vars
  <2>0. Typed
    BY <1>2 DEF AuthorityInv, Grounds, RequestInv
  <2>1. CASE owner' = owner
    BY <2>1 DEF Promise!vars
  <2>2. ASSUME NEW d \in Caller, Moves(d)
        PROVE  Promise!Next \/ UNCHANGED Promise!vars
    <3>1. CASE MandateBecomes(EmptyMandate) \/ MandateBecomes(proc[d].expires)
      BY <3>1 DEF MandateBecomes, Promise!vars
    <3> QED
      BY <1>2, <2>0, <2>1, <2>2, <3>1, OwnerMoves, AnswerImplements
  <2>3. ASSUME NEW d \in Caller, Driving(d)
        PROVE  Promise!Next
    BY <1>2, <2>3, DrivingImplements
  <2> QED
    BY <1>2, <2>0, <2>1, <2>2, <2>3, StepMoves
<1> QED
  BY <1>1, <1>2, AuthorityInvariance, PTL
     DEF Spec, ImplementsOccurrence, Promise!Spec

-----------------------------------------------------------------------------
(* Every invocation keeps to the contract of its native calls. *)

\* The calls c recorded, and where it is in them, make a step of NativeCall.
LEMMA ContractMoves ==
  ASSUME RequestInv, Routed, NEW c \in Caller, NEW d \in Caller, Others(d),
         Moves(d)
  PROVE  [Calls(c)!Next]_(Calls(c)!vars)
<1> DEFINE begun == out[c].started \cap NativeStage
           done == out[c].finished \cap NativeStage
<1> USE DEF Running, Calls!vars, Calls!Next
<1>0. /\ Typed /\ RoutedAt(c) /\ proc[c] \in Process /\ SourceNamed(proc[c])
      /\ proc[c].phase = "mandate-create" => proc[c].phase \notin NativeStage
      /\ proc[c].status = "idle" => proc[c].phase \notin NativeStage
  BY Parts DEF RequestInv, InOrder, Routed, NativeStage, Inspections, Freshness,
     Verifications, AgRuns
<1>1. CASE c # d
  BY <1>1, Elsewhere DEF CallState
<1>2. CASE c = d /\ Entering(d)
  BY <1>2 DEF Entering, CallState
<1>3. CASE c = d /\ Advancing(d)
  <2> DEFINE q == Following(c)
  <2>1. /\ proc[c].status = "running" /\ proc[c].child = "none" /\ q # "end"
        /\ proc'[c].status = "running" /\ proc'[c].phase = q
        /\ out'[c].started = out[c].started \cup {q}
        /\ q # "run-input" => /\ proc'[c].child = "recorded"
                              /\ out'[c].finished = out[c].finished
        /\ q = "run-input" => /\ proc'[c].child = "none"
                              /\ out'[c].finished = out[c].finished \cup {q}
    BY <1>3 DEF Advancing
  <2>2. CallState(c) = "ready" /\ begun = done
    BY <1>0, <2>1 DEF CallState, RoutedAt, Outstanding
  <2>3. CASE q \in NativeStage
    <3>1. q # "run-input"
      BY <2>3 DEF NativeStage, Inspections, Freshness, Verifications, AgRuns
    <3>2. q \notin out[c].started
      <4>1. Rank(proc[c].phase) < Rank(q)
        BY <1>0, <2>1, RouteOnward DEF RoutedAt, Following, SourceNamed
      <4> QED
        BY <1>0, <4>1, RankIsInt DEF RoutedAt
    <3>3. CallState(c)' = "recorded"
      BY <2>1, <2>3, <3>1 DEF CallState
    <3>4. q \in NativeStage \ begun /\ begun' = begun \cup {q} /\ done' = done
      BY <2>1, <2>3, <3>1, <3>2
    <3> QED
      BY <2>2, <3>3, <3>4 DEF Calls!Begin
  <2>4. CASE q \notin NativeStage
    <3>1. CallState(c)' = "ready" /\ begun' = begun /\ done' = done
      BY <2>1, <2>4 DEF CallState
    <3> QED
      BY <2>2, <3>1
  <2> QED
    BY <2>3, <2>4
<1>4. CASE c = d /\ Ending(d)
  <2>1. begun' = begun /\ proc[c].status = "running"
    BY <1>4 DEF Ending
  <2>2. /\ CallState(c) \notin {"over", "orphan"}
        /\ CallState(c)' = IF proc'[c].child = "running" THEN "orphan" ELSE "over"
    <3>1. proc[c].child \in {"none", "recorded", "running", "exited", "refused"}
      BY <1>0 DEF Process
    <3> QED
      BY <1>4, <3>1 DEF Ending, CallState
  <2>3. CASE out'[c].finished = out[c].finished
    <3>1. CallState(c)' = "orphan" => CallState(c) = "running"
      BY <1>4, <2>2 DEF Ending, CallState
    <3> QED
      BY <2>1, <2>2, <2>3, <3>1 DEF Calls!Abandon
  <2>4. CASE /\ out'[c].finished = out[c].finished \cup {proc[c].phase}
             /\ proc[c].child \in {"exited", "refused"}
    <3>1. CallState(c) = proc[c].child /\ CallState(c)' = "over"
      BY <1>0, <1>4, <2>2, <2>4 DEF Ending, CallState, RoutedAt
    <3>2. done' = begun
      BY <1>0, <2>1, <2>4 DEF RoutedAt, Outstanding
    <3> QED
      BY <2>1, <2>4, <3>1, <3>2 DEF Calls!Finish
  <2> QED
    BY <1>4, <2>3, <2>4 DEF Ending
<1>5. CASE c = d /\ Collecting(d)
  <2>1. CallState(c) = "exited" /\ CallState(c)' = "ready" /\ begun' = begun
    BY <1>0, <1>5 DEF Collecting, Waits, Kept, CallState, RoutedAt
  <2>2. done' = begun
    BY <1>0, <1>5 DEF Collecting, RoutedAt, Outstanding
  <2> QED
    BY <2>1, <2>2 DEF Calls!Finish
<1>6. CASE c = d /\ (Opening(d) \/ Filling(d))
  BY <1>0, <1>6 DEF Opening, Filling, Waits, Kept, CallState
<1>7. CASE c = d /\ Spawning(d)
  BY <1>7 DEF Spawning, Waits, Kept, CallState, Calls!Spawn
<1>8. CASE c = d /\ Answering(d)
  BY <1>0, <1>8 DEF Answering, Waits, Kept, CallState, Calls!Answer,
     Calls!Vanish
<1> QED
  BY <1>1, <1>2, <1>3, <1>4, <1>5, <1>6, <1>7, <1>8 DEF Moves

\* One call at a time, each announced once, none after a call that was left
\* without an answer: what Collector promises of one call, every invocation
\* keeps for all of them, recovery and orphans included.
THEOREM CallContractKept == Spec => FollowsCallContract
<1>1. Init => \A c \in Caller : Calls(c)!Init
  BY DEF Init, Idle, NoOutput, Calls!Init, CallState
<1>2. AuthorityInv /\ [Next]_vars =>
        [\A c \in Caller : [Calls(c)!Next]_(Calls(c)!vars)]_vars
  <2> SUFFICES ASSUME AuthorityInv, [Next]_vars, NEW c \in Caller
               PROVE  [Calls(c)!Next]_(Calls(c)!vars)
    OBVIOUS
  <2>0. Typed /\ RequestInv /\ Routed
    BY DEF AuthorityInv, Grounds, RequestInv
  <2>1. CASE UNCHANGED <<proc, out>>
    BY <2>1 DEF Calls!vars, CallState, Running
  <2>2. ASSUME NEW d \in Caller, Others(d), Moves(d)
        PROVE  [Calls(c)!Next]_(Calls(c)!vars)
    BY <2>0, <2>2, ContractMoves
  <2> QED
    BY <2>0, <2>1, <2>2, StepMoves, DrivingFields
<1> QED
  BY <1>1, <1>2, AuthorityInvariance, PTL DEF Spec, FollowsCallContract

=============================================================================
