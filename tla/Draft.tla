-------------------------------- MODULE Draft --------------------------------
(***************************************************************************)
(* A contract while its author and the owners it names edit it: after each *)
(* edit the command line (tools/integration_contract/cli.py) is run on the *)
(* new document.  An edit sets one field of one entry, or one whole part;  *)
(* the assessment time given to the command only moves forward.            *)
(***************************************************************************)
EXTENDS Preflight

CONSTANTS
    Drafts,         \* the documents an author starts from
    FieldEdits,     \* <<collection, id, field, value>>
    PartEdits,      \* <<top-level field, value>>
    MaxEdits,       \* bound on the edits of one behaviour
    MaxNow          \* bound on the assessment time

ASSUME BoundsAssumption == MaxEdits \in Nat /\ MaxNow \in Nat

VARIABLES doc, edits, now, report

vars == <<doc, edits, now, report>>

\* Exit 2 of the command line.
Refused == [valid |-> FALSE]

\* What the command line prints for the document: its refusal, or the
\* blockers of every operation and of the integration.
Report(d, t) ==
    IF ~ValidContract(d) THEN Refused
    ELSE LET blockers == [o \in DOMAIN d.operations |-> Blockers(d, o, t)] IN
         [valid |-> TRUE,
          blockers |-> blockers,
          disposition |-> [o \in DOMAIN blockers |-> Disposition(d.operations[o], blockers[o])],
          integration |-> IntegrationBlockers(d, t)]

Init ==
    /\ doc \in Drafts
    /\ edits = 0
    /\ now = 0
    /\ report = Report(doc, now)

EditField(e) ==
    /\ edits < MaxEdits
    /\ e[2] \in DOMAIN doc[e[1]]
    /\ doc' = [doc EXCEPT ![e[1]][e[2]][e[3]] = e[4]]
    /\ doc' # doc
    /\ edits' = edits + 1
    /\ report' = Report(doc', now)
    /\ UNCHANGED now

EditPart(e) ==
    /\ edits < MaxEdits
    /\ doc' = [doc EXCEPT ![e[1]] = e[2]]
    /\ doc' # doc
    /\ edits' = edits + 1
    /\ report' = Report(doc', now)
    /\ UNCHANGED now

Reassess ==
    /\ now < MaxNow
    /\ now' = now + 1
    /\ report' = Report(doc, now')
    /\ UNCHANGED <<doc, edits>>

Next ==
    \/ \E e \in FieldEdits : EditField(e)
    \/ \E e \in PartEdits : EditPart(e)
    \/ Reassess

Spec == Init /\ [][Next]_vars

----------------------------------------------------------------------------
\* Facts and wiring.  A fact is what an owner or a measurement records later.

FactFields ==
    {<<"owners", "status">>, <<"authorities", "status">>, <<"receipts", "disposition">>,
     <<"receipts", "evidenceBasisStatus">>, <<"receipts", "artifactIdentityStatus">>,
     <<"receipts", "custodyStatus">>, <<"gates", "status">>, <<"credentials", "readiness">>,
     <<"credentials", "scopeVerification">>, <<"privacyEgress", "status">>,
     <<"resourceRules", "status">>}

\* What a fact becomes when it turns out well.  A measured resource is not
\* here: its status is compared with the measured value as well.
Settled ==
    {"resolved", "established", "externally-accepted", "recorded", "satisfied", "present", "verified"}

Facts(d) ==
    UNION {{<<f[1], i, f[2], d[f[1]][i][f[2]]>> : i \in DOMAIN d[f[1]]} : f \in FactFields}

Wiring(d) ==
    [c \in DOMAIN d |->
        IF c \notin {f[1] : f \in FactFields} THEN d[c]
        ELSE [i \in DOMAIN d[c] |->
                 [f \in DOMAIN d[c][i] |-> IF <<c, f>> \in FactFields THEN None ELSE d[c][i][f]]]]

NewFacts == Facts(doc') \ Facts(doc)

\* The receipts the given ones rest on, themselves included: as many steps
\* along issuers' evidence as there are receipts.
Support(d, roots) ==
    LET steps[n \in 0 .. Cardinality(DOMAIN d.receipts)] ==
          IF n = 0 THEN roots
          ELSE steps[n - 1] \cup UNION {Elements(IssuerEvidence(d)[r]) : r \in steps[n - 1]}
    IN  steps[Cardinality(DOMAIN d.receipts)]

RestsOnItself(d, r) == r \in Support(d, Elements(IssuerEvidence(d)[r]))

\* Every receipt an operation has to wait for.
Awaited(d, o) ==
    Support(d, NamedReceipts(d, o) \cup UNION {d.gates[g].requiredReceiptRefs : g \in GatesOf(d, o)})

Reserves(d, o, e) ==
    \E i \in DOMAIN Boundary(d, o).technicalVisibilityFacts :
        LET f == Boundary(d, o).technicalVisibilityFacts[i] IN
        f.sharedExclusionRef = e /\ f.temporalScope = "reserved-through-dispatch"

----------------------------------------------------------------------------
\* Properties

\* A report is a refusal or gives every operation of the document its blockers.
TypeOK ==
    /\ edits \in 0 .. MaxEdits /\ now \in 0 .. MaxNow
    /\ report.valid \in BOOLEAN
    /\ report.valid => /\ DOMAIN report.blockers = DOMAIN doc.operations
                       /\ DOMAIN report.disposition = DOMAIN doc.operations
                       /\ \A x \in report.integration : x[1] \in IntegrationBlockerCodes

\* An operation without a blocker rests on accepted evidence only: along the
\* whole chain of issuers (receipt_diagnostics) every receipt is accepted by a
\* resolved issuer with an established authority, names the operation as a
\* consumer, and none vouches for itself.
PermittedIsSupported ==
    report.valid =>
        \A o \in DOMAIN report.blockers : report.disposition[o] # "blocked" =>
            \A r \in Awaited(doc, o) :
                /\ doc.receipts[r].disposition = "externally-accepted"
                /\ Resolved(doc, doc.receipts[r].issuerOwnerRef)
                /\ Established(doc, doc.receipts[r].issuerAuthorityRef)
                /\ o \in doc.receipts[r].downstreamConsumers
                /\ ~RestsOnItself(doc, r)

\* The search with its shared seen set and its path finds what rests below a
\* receipt, and reports a cycle exactly when one can be reached.
SearchIsExact ==
    report.valid =>
        \A r \in DOMAIN doc.receipts :
            /\ EvidenceSearch(IssuerEvidence(doc), r).seen = Support(doc, {r})
            /\ EvidenceSearch(IssuerEvidence(doc), r).cycles # {}
                 <=> \E x \in Support(doc, {r}) : RestsOnItself(doc, x)

\* A contract reported as complete has no runtime operation that waits, at any
\* depth, for a receipt it is itself to produce: the gate an awaited receipt
\* needs cannot be one that blocks its producer.
CompleteNeverWaitsOnItself ==
    (report.valid /\ report.integration = {}) =>
        \A o \in DOMAIN doc.operations :
            doc.operations[o].executionClass = "runtime" =>
                PrerequisiteReceipts(doc, o) \cap doc.operations[o].producedReceiptRefs = {}

\* A reservation one operation claims is one every producer it names also
\* declares, acquires before observing and hands to the same attempt, whose
\* current evidence nobody but an outside issuer supplied.
ReservationIsShared ==
    report.valid =>
        \A o \in Bounded(doc) : \A e \in DOMAIN Boundary(doc, o).sharedExclusions :
            LET x == Boundary(doc, o).sharedExclusions[e] IN
            \A p \in x.relevantOperationRefs :
                /\ p \in Bounded(doc) /\ Reserves(doc, p, e)
                /\ Boundary(doc, p).sharedExclusions[e].attemptBinding = x.attemptBinding
                /\ \A c \in CurrentPhases :
                     /\ doc.receipts[x.phases[c].receiptRef].issuerOwnerRef
                          # x.attemptBinding.supervisorOwnerRef
                     /\ Producers(doc, x.phases[c].receiptRef) = {}

\* Recording a fact, whichever way it turns out, never changes what the report
\* says about the wiring (preflight.py: honest unknown facts do not make an
\* integration incomplete).
FactsLeaveWiringAlone ==
    [][(report.valid /\ report'.valid /\ Wiring(doc) = Wiring(doc'))
         => report'.integration = report.integration]_vars

\* Settling facts never blocks an operation that was not blocked before, and
\* adds no blocker to one that was.
SettlingNeverBlocks ==
    [][(/\ report.valid /\ report'.valid /\ Wiring(doc) = Wiring(doc')
        /\ \A f \in NewFacts : f[4] \in Settled)
         => \A o \in DOMAIN doc.operations :
              now' = now => report'.blockers[o] \subseteq report.blockers[o]]_vars

\* A fact about a receipt reaches only the operations that wait for it.
IndependentStaysIndependent ==
    [][(/\ report.valid /\ report'.valid /\ Wiring(doc) = Wiring(doc') /\ now' = now
        /\ \A f \in NewFacts : f[1] = "receipts")
         => \A o \in DOMAIN doc.operations :
              report'.blockers[o] # report.blockers[o]
                => \E f \in NewFacts : f[2] \in Awaited(doc, o)]_vars
=============================================================================
