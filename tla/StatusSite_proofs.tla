-------------------------- MODULE StatusSite_proofs --------------------------
(***************************************************************************)
(* Proofs about StatusSite, for every number of calls, every timeout,      *)
(* limit and period.                                                       *)
(***************************************************************************)
EXTENDS StatusSite, TLAPS

USE LimitsAssumption

-----------------------------------------------------------------------------
(* The inductive invariant. *)

\* The timer keeps its pace: at most one run a period, and none overdue.
Paced ==
  /\ render.run <= render.began
  /\ render.phase = "idle" => clock - render.began <= Period

\* What is published, by the phase the render is in.
Ordered ==
  /\ site.page.run <= site.timings.run /\ site.timings.run <= site.status.run
  /\ site.status.run <= render.run /\ site.projection <= render.run
  /\ site.page.run = site.status.run => site.page.state = site.status.state
  /\ IF site.status.error THEN site.projection # site.status.run
                          ELSE site.projection >= site.status.run
  /\ render.phase \in Loading \cup {"projection"} =>
       site.status.run < render.run /\ site.projection < render.run
  /\ render.phase = "status" =>
       /\ site.status.run < render.run
       /\ IF doc.error THEN site.projection < render.run
                       ELSE site.projection = render.run
  /\ render.phase \in {"timings", "page"} =>
       /\ site.status.run = render.run
       /\ site.status.state = doc.state
       /\ site.status.now = render.began
  /\ render.phase = "page" => site.timings.run = render.run
  /\ render.phase = "idle" /\ ended.last = "published" =>
       site.page.run = render.run

\* An all-clear in the making rests on a report that was recent when the
\* render began.
Sourced ==
  doc.state = "all_clear" =>
    doc.from # -1 /\ render.began - doc.from <= ReportMaxAge

\* The ends of a render after which its status is known to be published.
Told == {"published", "raised"}

\* How far the published status is behind the last start.
Behind ==
  LET late == render.began - site.status.now
  IN /\ ended.last \in Told =>
          late <= IF render.phase = "idle" THEN 0 ELSE Period
     /\ ended.before \in Told =>
          late <= IF render.phase = "idle" THEN Period ELSE 2 * Period

Inv == TypeOK /\ Paced /\ Ordered /\ Sourced /\ Behind

-----------------------------------------------------------------------------
(* The phases. *)

Document ==
  [state : State, from : Time \cup {-1}, odd : BOOLEAN,
   nq : {"none", "ran", "expired"}, timed : BOOLEAN, error : BOOLEAN]


Phase == {"idle"} \cup Loading \cup Publishing

LEMMA Numbers ==
  /\ {NqLimit, CheckLimit, BuildLimit, RenderLimit, Period, Checks, Builds,
      ReportMaxAge, StaleAge, MaxTime} \subseteq Nat
  /\ Period > 0 /\ RenderLimit > 0
  /\ 0 \in Left /\ 0 \in Spent /\ 0 \in Time
BY DEF Left, Spent, Time

LEMMA LoadingGoesOn ==
  ASSUME NEW phase \in Loading
  PROVE  After(phase) \in Loading \cup {"projection"}
BY DEF Loading, After

LEMMA PublishingGoesOn ==
  /\ After("projection") = "status" /\ After("status") = "timings"
  /\ After("timings") = "page"
BY DEF After

LEMMA CallCounts ==
  ASSUME NEW phase \in Phase
  PROVE  /\ CallsOf(phase) \in Left
         /\ LimitOf(phase) \in Spent
BY DEF Phase, Loading, Publishing, CallsOf, LimitOf, Left, Spent

-----------------------------------------------------------------------------
(* Type correctness. *)

LEMMA InitInv == Init => Inv
<1> SUFFICES ASSUME Init PROVE Inv
  OBVIOUS
<1> USE Numbers DEF Init
<1>1. TypeOK
  BY DEF TypeOK, Time, Run, EmptyDoc, State, Ending
<1>2. Paced
  BY DEF Paced
<1>3. Ordered
  BY DEF Ordered, Loading
<1>4. Sourced
  BY DEF Sourced, EmptyDoc
<1>5. Behind
  BY DEF Behind
<1> QED BY <1>1, <1>2, <1>3, <1>4, <1>5 DEF Inv

\* What a command answers changes none of what the properties look at.
LEMMA AnswerKeepsDoc ==
  ASSUME TypeOK, CallAnswers
  PROVE  doc' \in Document /\ doc'.state = doc.state /\ doc'.from = doc.from
<1>1. PICK odd \in BOOLEAN :
        LET d == [doc EXCEPT !.odd = @ \/ odd]
        IN doc' = IF render.phase = "nqs" THEN Measured(d) ELSE d
  BY Zenon DEF CallAnswers
<1>2. [doc EXCEPT !.odd = @ \/ odd] \in Document
  BY DEF TypeOK, Document
<1> QED BY <1>1, <1>2 DEF TypeOK, Measured, Document

LEMMA TypeStep ==
  ASSUME TypeOK, Paced, Next
  PROVE  TypeOK'
<1> USE Numbers DEF TypeOK
<1>1. CASE Start
  BY <1>1 DEF Start, Due, Paced, Time, Run, EmptyDoc, Loading, State
<1>2. CASE StopRender
  BY <1>2 DEF StopRender, OverTime, End, EmptyDoc, State, Ending
<1>3. CASE Crash
  BY <1>3 DEF Crash, End, EmptyDoc, State, Ending
<1>4. CASE Tick
  <2>1. render.phase \in Phase
    BY DEF Phase
  <2> QED BY <1>4, <2>1, CallCounts DEF Tick, OverTime, Due, Time, Left, Spent
<1>5. CASE Evaluate
  BY <1>5 DEF Evaluate, Report
<1>6. CASE LoseReport
  BY <1>6 DEF LoseReport
<1>7. CASE LoadAttention
  <2>1. /\ After("attention") \in Phase \ {"idle"}
        /\ CallsOf(After("attention")) \in Left
    BY LoadingGoesOn, CallCounts DEF Phase, Loading, Publishing
  <2>2. StateOf(report) \in State
    BY DEF StateOf, State
  <2>3. report.at \in Time \cup {-1}
    BY DEF Report, NoReport
  <2> QED BY ZenonT(60), <1>7, <2>1, <2>2, <2>3 DEF LoadAttention, Enter, Phase, Loading
<1>8. CASE LoadLocal
  <2>1. /\ After(render.phase) \in Phase \ {"idle"}
        /\ CallsOf(After(render.phase)) \in Left
    BY <1>8, LoadingGoesOn, CallCounts DEF LoadLocal, Phase, Loading, Publishing
  <2>2. doc' \in Document
    BY ZenonT(60), <1>8 DEF LoadLocal, Document
  <2>3. render.phase # "idle"
    BY <1>8 DEF LoadLocal
  <2> QED BY <1>8, <2>1, <2>2, <2>3 DEF LoadLocal, Enter, Phase, Document
<1>9. CASE LeaveCalls
  <2>1. /\ After(render.phase) \in Phase \ {"idle"}
        /\ CallsOf(After(render.phase)) \in Left
    BY <1>9, LoadingGoesOn, CallCounts
       DEF LeaveCalls, Calling, Phase, Loading, Publishing
  <2>2. render.phase # "idle"
    BY <1>9 DEF LeaveCalls, Calling
  <2> QED BY ZenonT(60), <1>9, <2>1, <2>2 DEF LeaveCalls, Enter, Phase
<1>10. CASE CallAnswers
  <2>1. doc' \in Document
    BY <1>10, AnswerKeepsDoc DEF Document
  <2>2. render.phase \in Phase \ {"idle"}
    BY <1>10 DEF CallAnswers, Calling, Phase, Loading
  <2>3. render' \in [phase : Phase, run : Run, began : Time, left : Left,
                    spent : Spent]
    <3>1. render.left - 1 \in Left
      BY <1>10 DEF CallAnswers, Left
    <3> QED BY <1>10, <3>1 DEF CallAnswers, Phase
  <2> QED BY <1>10, <2>1, <2>2, <2>3 DEF CallAnswers, Document, Phase
<1>11. CASE CallExpires
  <2>1. doc' \in Document
    BY <1>11 DEF CallExpires, Measured, Document
  <2>2. render.phase \in Phase \ {"idle"}
    BY <1>11 DEF CallExpires, Calling, Phase, Loading
  <2>3. render' \in [phase : Phase, run : Run, began : Time, left : Left,
                    spent : Spent]
    <3>1. render.left - 1 \in Left
      BY <1>11 DEF CallExpires, Left
    <3> QED BY <1>11, <3>1 DEF CallExpires, Phase
  <2> QED BY <1>11, <2>1, <2>2, <2>3 DEF CallExpires, Document, Phase
<1>12. CASE PublishProjection
  <2>1. CallsOf("status") \in Left
    BY CallCounts DEF Phase, Publishing
  <2> QED BY ZenonT(60), <1>12, <2>1, PublishingGoesOn
          DEF PublishProjection, Enter, Publishing
<1>13. CASE PublishStatus
  <2>1. CallsOf("timings") \in Left
    BY CallCounts DEF Phase, Publishing
  <2> QED BY <1>13, <2>1, PublishingGoesOn
          DEF PublishStatus, Enter, Publishing
<1>14. CASE PublishTimings
  <2>1. CallsOf("page") \in Left
    BY CallCounts DEF Phase, Publishing
  <2> QED BY <1>14, <2>1, PublishingGoesOn
          DEF PublishTimings, Enter, Publishing
<1>15. CASE PublishPage
  BY <1>15 DEF PublishPage, End, EmptyDoc, State, Ending
<1>16. CASE PageRaises
  BY ZenonT(60), <1>16 DEF PageRaises, End, EmptyDoc, State, Ending
<1>17. CASE WriteFails
  BY ZenonT(60), <1>17 DEF WriteFails, End, EmptyDoc, State, Ending
<1> QED
  BY <1>1, <1>2, <1>3, <1>4, <1>5, <1>6, <1>7, <1>8, <1>9, <1>10, <1>11, <1>12,
     <1>13, <1>14, <1>15, <1>16, <1>17 DEF Next, RenderStep

-----------------------------------------------------------------------------
(* The other conjuncts. *)

\* The steps of a render that only load.
Loads ==
  \/ LoadAttention \/ LoadLocal \/ LeaveCalls \/ CallAnswers \/ CallExpires

\* What the other conjuncts see of a step that only loads.
LEMMA LoadsQuietly ==
  ASSUME TypeOK, Loads
  PROVE  /\ UNCHANGED <<clock, site, ended, render.run, render.began>>
         /\ render.phase \in Loading
         /\ render'.phase \in Loading \cup {"projection"}
<1> USE DEF TypeOK
<1>1. CASE LoadAttention
  BY <1>1, LoadingGoesOn DEF LoadAttention, Enter, Loading
<1>2. CASE LoadLocal
  BY <1>2, LoadingGoesOn DEF LoadLocal, Enter, Loading
<1>3. CASE LeaveCalls
  BY <1>3, LoadingGoesOn DEF LeaveCalls, Enter, Loading, Calling
<1>4. CASE CallAnswers
  BY <1>4 DEF CallAnswers, Loading, Calling
<1>5. CASE CallExpires
  BY <1>5 DEF CallExpires, Loading, Calling
<1> QED BY <1>1, <1>2, <1>3, <1>4, <1>5 DEF Loads

LEMMA PacedStep ==
  ASSUME TypeOK, Paced, Next
  PROVE  Paced'
<1> USE Numbers, RoomAssumption DEF TypeOK, Paced, Time, Run
<1>1. CASE Start
  BY <1>1 DEF Start, Due
<1>2. CASE StopRender \/ Crash
  <2>1. render.phase # "idle"
    BY <1>2 DEF StopRender, OverTime, Crash
  <2>2. UNCHANGED <<clock, render.run, render.began>>
    BY <1>2 DEF StopRender, Crash, End
  <2> QED BY <2>1, <2>2
<1>3. CASE Tick
  BY <1>3 DEF Tick, Due
<1>4. CASE Evaluate \/ LoseReport
  BY <1>4 DEF Evaluate, LoseReport
<1>5. CASE Loads
  BY <1>5, LoadsQuietly DEF Loading
<1>6. CASE PublishProjection \/ PublishStatus \/ PublishTimings
  BY <1>6, PublishingGoesOn
     DEF PublishProjection, PublishStatus, PublishTimings, Enter
<1>7. CASE PublishPage \/ PageRaises \/ WriteFails
  <2>1. render.phase # "idle"
    BY <1>7 DEF PublishPage, PageRaises, WriteFails
  <2>2. UNCHANGED <<clock, render.run, render.began>>
    BY <1>7 DEF PublishPage, PageRaises, WriteFails, End
  <2> QED BY <2>1, <2>2
<1> QED
  BY <1>1, <1>2, <1>3, <1>4, <1>5, <1>6, <1>7 DEF Next, RenderStep, Loads

LEMMA OrderedStep ==
  ASSUME TypeOK, Ordered, Next
  PROVE  Ordered'
<1> USE Numbers DEF TypeOK, Ordered, Time, Run
<1>1. CASE Start
  BY <1>1 DEF Start, Loading
<1>2. CASE StopRender \/ Crash
  <2>1. /\ UNCHANGED <<site, render.run>>
        /\ render'.phase = "idle" /\ ended'.last # "published"
    <3>1. CASE StopRender
      BY <3>1 DEF StopRender, End
    <3>2. CASE Crash
      BY <3>2 DEF Crash, End
    <3> QED BY <1>2, <3>1, <3>2
  <2> QED BY <2>1 DEF Loading
<1>3. CASE Tick
  BY <1>3 DEF Tick
<1>4. CASE Evaluate \/ LoseReport
  BY <1>4 DEF Evaluate, LoseReport
<1>5. CASE Loads
  BY <1>5, LoadsQuietly DEF Loading
<1>6. CASE PublishProjection
  BY <1>6, PublishingGoesOn DEF PublishProjection, Enter, Loading
<1>7. CASE PublishStatus
  BY <1>7, PublishingGoesOn DEF PublishStatus, Enter, Loading
<1>8. CASE PublishTimings
  BY <1>8, PublishingGoesOn DEF PublishTimings, Enter, Loading
<1>9. CASE PublishPage
  BY <1>9 DEF PublishPage, End, Loading
<1>10. CASE PageRaises \/ WriteFails
  <2>1. /\ UNCHANGED <<site, render.run>>
        /\ render'.phase = "idle" /\ ended'.last # "published"
    <3>1. CASE PageRaises
      BY <3>1 DEF PageRaises, End
    <3>2. CASE WriteFails
      BY <3>2 DEF WriteFails, End
    <3> QED BY <1>10, <3>1, <3>2
  <2> QED BY <2>1 DEF Loading
<1> QED
  BY <1>1, <1>2, <1>3, <1>4, <1>5, <1>6, <1>7, <1>8, <1>9, <1>10
     DEF Next, RenderStep, Loads

LEMMA SourcedStep ==
  ASSUME TypeOK, Sourced, Next
  PROVE  Sourced'
<1> USE Numbers DEF TypeOK, Sourced, Time
<1>1. CASE Start
  BY <1>1 DEF Start, EmptyDoc
<1>2. CASE StopRender \/ Crash
  BY <1>2 DEF StopRender, Crash, End, EmptyDoc
<1>3. CASE Tick
  BY <1>3 DEF Tick
<1>4. CASE Evaluate \/ LoseReport
  BY <1>4 DEF Evaluate, LoseReport
<1>5. CASE LoadAttention
  <2>1. StateOf(report) = "all_clear" =>
          report.at # -1 /\ render.began - report.at <= ReportMaxAge
    BY DEF StateOf, Report
  <2> QED BY <1>5, <2>1 DEF LoadAttention, Enter
<1>6. CASE LoadLocal \/ LeaveCalls
  BY ZenonT(60), <1>6 DEF LoadLocal, LeaveCalls, Enter
<1>7. CASE CallAnswers \/ CallExpires
  <2>1. UNCHANGED <<doc.state, doc.from>>
    BY <1>7, AnswerKeepsDoc DEF CallExpires
  <2>2. UNCHANGED render.began
    BY <1>7 DEF CallAnswers, CallExpires
  <2> QED BY <2>1, <2>2
<1>8. CASE PublishProjection \/ PublishStatus \/ PublishTimings
  BY <1>8 DEF PublishProjection, PublishStatus, PublishTimings, Enter
<1>9. CASE PublishPage \/ PageRaises \/ WriteFails
  BY <1>9 DEF PublishPage, PageRaises, WriteFails, End, EmptyDoc
<1> QED
  BY <1>1, <1>2, <1>3, <1>4, <1>5, <1>6, <1>7, <1>8, <1>9 DEF Next, RenderStep

LEMMA BehindStep ==
  ASSUME TypeOK, Paced, Ordered, Behind, Next
  PROVE  Behind'
<1> USE Numbers DEF TypeOK, Behind, Time
<1>1. CASE Start
  BY <1>1 DEF Start, Paced, Due
<1>2. CASE StopRender \/ Crash
  <2>1. render.phase # "idle"
    BY <1>2 DEF StopRender, OverTime, Crash
  <2>2. /\ UNCHANGED <<site, render.began>> /\ render'.phase = "idle"
        /\ ended'.before = ended.last /\ ended'.last \notin Told
    <3>1. CASE StopRender
      BY <3>1 DEF StopRender, End, Told
    <3>2. CASE Crash
      BY <3>2 DEF Crash, End, Told
    <3> QED BY <1>2, <3>1, <3>2
  <2> QED BY <2>1, <2>2
<1>3. CASE Tick
  BY <1>3 DEF Tick
<1>4. CASE Evaluate \/ LoseReport
  BY <1>4 DEF Evaluate, LoseReport
<1>5. CASE Loads
  BY <1>5, LoadsQuietly DEF Loading
<1>6. CASE PublishProjection
  BY <1>6, PublishingGoesOn DEF PublishProjection, Enter
<1>7. CASE PublishStatus
  BY <1>7, PublishingGoesOn DEF PublishStatus, Enter
<1>8. CASE PublishTimings
  BY <1>8, PublishingGoesOn DEF PublishTimings, Enter
<1>9. CASE PublishPage \/ PageRaises
  <2>1. render.began = site.status.now
    BY <1>9 DEF PublishPage, PageRaises, Ordered
  <2>2. UNCHANGED <<site.status, render.began>>
    BY <1>9 DEF PublishPage, PageRaises, End
  <2> QED BY <2>1, <2>2
<1>10. CASE WriteFails
  <2>1. render.phase # "idle"
    BY <1>10 DEF WriteFails
  <2>2. /\ UNCHANGED <<site, render.began>> /\ render'.phase = "idle"
        /\ ended'.before = ended.last /\ ended'.last \notin Told
    BY <1>10 DEF WriteFails, End, Told
  <2> QED BY <2>1, <2>2
<1> QED
  BY <1>1, <1>2, <1>3, <1>4, <1>5, <1>6, <1>7, <1>8, <1>9, <1>10
     DEF Next, RenderStep, Loads

LEMMA StepInv == Inv /\ [Next]_vars => Inv'
<1> SUFFICES ASSUME Inv, [Next]_vars PROVE Inv'
  OBVIOUS
<1>1. CASE Next
  BY <1>1, TypeStep, PacedStep, OrderedStep, SourcedStep, BehindStep DEF Inv
<1>2. CASE UNCHANGED vars
  BY <1>2 DEF vars, Inv, TypeOK, Paced, Ordered, Sourced, Behind
<1> QED BY <1>1, <1>2

LEMMA Invariant == Spec => []Inv
BY InitInv, StepInv, PTL DEF Spec

-----------------------------------------------------------------------------
(* The results. *)

\* Every state of an execution is well typed: in particular a run never
\* outlasts the unit's limit.
THEOREM TypeCorrect == Spec => []TypeOK
<1>1. Inv => TypeOK
  BY DEF Inv
<1> QED BY Invariant, <1>1, PTL

\* Wherever a render stops, the published files were replaced in their order
\* (main): the page is no newer than the timings, nor they than status.json.
THEOREM FilesInOrder == Spec => []PublishedInOrder
<1>1. Inv => PublishedInOrder
  BY Numbers DEF Inv, TypeOK, Run, Ordered, PublishedInOrder
<1> QED BY Invariant, <1>1, PTL

\* With a limit that fits the period, and a stale age of two periods and a
\* render, one lost render never makes the site look stale.
THEOREM TwoLostWhenStale == Spec => []StaleMeansTwoLost
<1>1. Inv => StaleMeansTwoLost
  BY Numbers, RoomAssumption
     DEF Inv, TypeOK, Time, Paced, Behind, Told, StaleMeansTwoLost
<1> QED BY Invariant, <1>1, PTL

\* An all-clear is published on a report evaluated no longer ago than its
\* limit and a render's (load_attention, build_status).
THEOREM AllClearRests == Spec => AllClearIsRecent
<1> DEFINE Clear ==
      site'.status # site.status /\ site'.status.state = "all_clear" =>
        /\ doc.from # -1
        /\ clock - doc.from <= ReportMaxAge + RenderLimit
<1>1. Inv /\ [Next]_vars => [Clear]_vars
  <2> SUFFICES ASSUME Inv, Next, site'.status # site.status PROVE Clear
    BY DEF vars
  <2> USE DEF Inv, TypeOK
  <2>1. CASE PublishStatus
    BY <2>1, Numbers DEF PublishStatus, Sourced, Time
  <2>2. CASE Loads
    BY <2>2, LoadsQuietly
  <2>3. ~(PublishStatus \/ Loads) => site'.status = site.status
    BY DEF Next, RenderStep, Loads, Start, StopRender, Crash, Tick, Evaluate,
       LoseReport, PublishProjection, PublishTimings, PublishPage, PageRaises,
       WriteFails
  <2> QED BY <2>1, <2>2, <2>3
<1> QED BY Invariant, <1>1, PTL DEF Spec, AllClearIsRecent
=============================================================================
