------------------------------ MODULE Preflight ------------------------------
(***************************************************************************)
(* tools/integration_contract/preflight.py: the report on a valid document.*)
(* A diagnostic is a pair of its code and the object it is about; field    *)
(* names and messages are left out.  Operators take the document d and the *)
(* explicit assessment time now.                                           *)
(***************************************************************************)
EXTENDS Contract

\* Mutant: evidence still owed counts against the wiring.
CodesWithEvidence ==
    {"INTERFACE_CLOSURE_INCOMPLETE", "INTERFACE_CLOSURE_MISSING", "INVOCATION_BINDING_MISSING",
     "EXECUTION_BOUNDARY_MISSING", "EXECUTION_BOUNDARY_AUTHORITY_MISMATCH",
     "EVIDENCE_SCOPE_GATE_MISSING", "EVIDENCE_SCOPE_GATE_INCOMPLETE",
     "EVIDENCE_CONSUMER_SCOPE_MISMATCH", "EVIDENCE_ISSUER_AUTHORITY_CYCLE",
     "CLEANUP_RULE_MISSING", "EVIDENCE_NOT_EXTERNALLY_ACCEPTED"}

IntegrationBlockerCodes ==
    {"INTERFACE_CLOSURE_INCOMPLETE", "INTERFACE_CLOSURE_MISSING", "INVOCATION_BINDING_MISSING",
     "EXECUTION_BOUNDARY_MISSING", "EXECUTION_BOUNDARY_AUTHORITY_MISMATCH",
     "EVIDENCE_SCOPE_GATE_MISSING", "EVIDENCE_SCOPE_GATE_INCOMPLETE",
     "EVIDENCE_CONSUMER_SCOPE_MISMATCH", "EVIDENCE_ISSUER_AUTHORITY_CYCLE",
     "CLEANUP_RULE_MISSING"}

Diagnose(condition, code, subject) == IF condition THEN {<<code, subject>>} ELSE {}

Resolved(d, owner) == d.owners[owner].status = "resolved"

Established(d, a) ==
    d.authorities[a].status = "established" /\ Resolved(d, d.authorities[a].ownerRef)

----------------------------------------------------------------------------
\* Evidence: a receipt, and the receipts that vouch for its issuer's authority.

IssuerEvidence(d) ==
    [r \in DOMAIN d.receipts |-> d.authorities[d.receipts[r].issuerAuthorityRef].evidenceRefs]

\* A call: the references still to be followed, the receipts on the current
\* path, and every receipt met so far in this search.
Calls(known) == [refs : Seq(known), active : SUBSET known, seen : SUBSET known]

\* Mutant: a receipt already seen is left before the path is looked at.
VisitSeenFirst(evidence, visit, c) ==
    IF c.refs = <<>> THEN [seen |-> c.seen, cycles |-> {}]
    ELSE LET r == Head(c.refs)
             here == IF r \in c.seen THEN [seen |-> c.seen, cycles |-> {}]
                     ELSE visit[[refs |-> evidence[r], active |-> c.active \cup {r},
                                 seen |-> c.seen \cup {r}]]
             rest == visit[[c EXCEPT !.refs = Tail(@), !.seen = here.seen]]
         IN  [seen |-> rest.seen, cycles |-> here.cycles \cup rest.cycles]

\* The recursion of receipt_diagnostics together with its loop over the
\* references of an authority: the receipts met in the end, and as cycles
\* those met again on their own path.
Visit(evidence, visit, c) ==
    IF c.refs = <<>> THEN [seen |-> c.seen, cycles |-> {}]
    ELSE LET r == Head(c.refs)
             here == IF r \in c.active THEN [seen |-> c.seen, cycles |-> {r}]
                     ELSE IF r \in c.seen THEN [seen |-> c.seen, cycles |-> {}]
                     ELSE visit[[refs |-> evidence[r], active |-> c.active \cup {r},
                                 seen |-> c.seen \cup {r}]]
             rest == visit[[c EXCEPT !.refs = Tail(@), !.seen = here.seen]]
         IN  [seen |-> rest.seen, cycles |-> here.cycles \cup rest.cycles]

EvidenceSearch(evidence, root) ==
    LET visit[c \in Calls(DOMAIN evidence)] == Visit(evidence, visit, c)
    IN  visit[[refs |-> <<root>>, active |-> {}, seen |-> {}]]

OwnDiagnostics(d, r, o) == LET receipt == d.receipts[r] IN
    Diagnose(receipt.disposition # "externally-accepted", "EVIDENCE_NOT_EXTERNALLY_ACCEPTED", r)
    \cup Diagnose(~Resolved(d, receipt.issuerOwnerRef), "EVIDENCE_ISSUER_UNRESOLVED", r)
    \cup Diagnose(~Established(d, receipt.issuerAuthorityRef),
                  "EVIDENCE_ISSUER_AUTHORITY_UNRESOLVED", r)
    \cup Diagnose(o \notin receipt.downstreamConsumers, "EVIDENCE_CONSUMER_SCOPE_MISMATCH", r)

\* Mutant: what vouches for the issuer is not looked at.
RootDiagnostics(d, root, o) == OwnDiagnostics(d, root, o)

\* Mutant: a receipt that is not accepted is not looked behind.
DiagnosticsToFirstGap(d, root, o) == LET found == EvidenceSearch(IssuerEvidence(d), root) IN
    IF OwnDiagnostics(d, root, o) # {} THEN OwnDiagnostics(d, root, o)
    ELSE (UNION {OwnDiagnostics(d, r, o) : r \in {root} \cup found.seen})
         \cup {<<"EVIDENCE_ISSUER_AUTHORITY_CYCLE", r>> : r \in found.cycles}

ReceiptDiagnostics(d, root, o) == LET found == EvidenceSearch(IssuerEvidence(d), root) IN
    (UNION {OwnDiagnostics(d, r, o) : r \in {root} \cup found.seen})
    \cup {<<"EVIDENCE_ISSUER_AUTHORITY_CYCLE", r>> : r \in found.cycles}

\* Mutant: every receipt of the index is asked for.
EvidenceOfIndex(d, receipts, o) == UNION {ReceiptDiagnostics(d, r, o) : r \in DOMAIN d.receipts}

Evidence(d, receipts, o) == UNION {ReceiptDiagnostics(d, r, o) : r \in receipts}

----------------------------------------------------------------------------
\* prerequisite_receipts: what an operation names, then its issuers' evidence.

GatesOf(d, o) == {g \in DOMAIN d.gates : o \in d.gates[g].blocks}

NamedAuthorities(d, o) == LET op == d.operations[o] IN
    op.requiredAuthorityRefs
    \cup {q.requiredAuthorityRef : q \in op.credentialRequirements}
    \cup (UNION {d.privacyEgress[p].requiredAuthorityRefs : p \in Applicable(d.privacyEgress, o)})
    \cup (IF op.invocationBinding = None THEN {} ELSE {op.invocationBinding.authorityRef})

NamedReceipts(d, o) == LET op == d.operations[o] IN
    op.requiredReceiptRefs
    \cup (IF op.executionClass # "runtime" THEN {}
          ELSE UNION {d.gates[g].requiredReceiptRefs : g \in GatesOf(d, o)})
    \cup (UNION {d.credentials[q.credentialRef].evidenceRefs : q \in op.credentialRequirements})
    \cup (UNION {Elements(d.authorities[a].evidenceRefs) : a \in NamedAuthorities(d, o)})
    \cup (IF op.kind # "cleanup" THEN {}
          ELSE UNION {d.cleanupRules[c].custodyPrerequisiteReceiptRefs :
                        c \in {x \in DOMAIN d.cleanupRules : o \in d.cleanupRules[x].operationRefs}})
    \cup (IF o \notin Bounded(d) THEN {}
          ELSE UNION {{x.attemptBinding.receiptRef} \cup {x.phases[p].receiptRef : p \in CurrentPhases} :
                        x \in {Boundary(d, o).sharedExclusions[e] :
                                 e \in DOMAIN Boundary(d, o).sharedExclusions}})

Grown(evidence, named) ==
    LET grown[found \in SUBSET DOMAIN evidence] ==
          LET more == found \cup UNION {Elements(evidence[r]) : r \in found}
          IN  IF more = found THEN found ELSE grown[more]
    IN  grown[named]

PrerequisiteReceipts(d, o) == Grown(IssuerEvidence(d), NamedReceipts(d, o))

----------------------------------------------------------------------------
\* The blockers of an operation, part by part.

BoundaryDiagnostics(d, o) ==
    LET op == d.operations[o] b == op.executionBoundary bind == op.invocationBinding IN
    IF op.executionClass # "runtime" THEN {}
    ELSE Diagnose(o \notin Bounded(d), "EXECUTION_BOUNDARY_MISSING", o)
         \cup (IF o \notin Bounded(d) THEN {}
               ELSE Diagnose(b.status # "established", "EXECUTION_BOUNDARY_UNRESOLVED", o)
                    \cup Diagnose(bind # None /\ <<b.principalRef, b.authorityRef>>
                                                  # <<bind.principalRef, bind.authorityRef>>,
                                  "EXECUTION_BOUNDARY_AUTHORITY_MISMATCH", o))

BindingDiagnostics(d, o) == LET bind == d.operations[o].invocationBinding IN
    IF d.operations[o].executionClass # "runtime" THEN {}
    ELSE IF bind = None THEN {<<"INVOCATION_BINDING_MISSING", o>>}
    ELSE Diagnose(~Resolved(d, bind.principalRef), "INVOCATION_PRINCIPAL_UNRESOLVED", bind.principalRef)
         \cup Diagnose(~Established(d, bind.authorityRef), "INVOCATION_AUTHORITY_UNRESOLVED",
                       bind.authorityRef)
         \cup Diagnose(bind.principalRef \notin d.authorities[bind.authorityRef].authorizedPrincipalRefs,
                       "INVOCATION_PRINCIPAL_UNAUTHORIZED", bind.authorityRef)

EvidenceGates(d, r) ==
    {g \in DOMAIN d.gates : d.gates[g].kind = "required-evidence" /\ r \in d.gates[g].requiredReceiptRefs}

\* A gate that covers the operation and no source-only operation that does
\* without the receipt.
CoversScope(d, g, r, o) ==
    /\ o \in d.gates[g].blocks
    /\ \A c \in DOMAIN d.operations :
         (d.operations[c].executionClass = "source-only" /\ r \notin PrerequisiteReceipts(d, c))
           => c \notin d.gates[g].blocks

ScopeDiagnostics(d, o) ==
    IF d.operations[o].executionClass # "runtime" THEN {}
    ELSE UNION {Diagnose(EvidenceGates(d, r) = {}, "EVIDENCE_SCOPE_GATE_MISSING", r)
                \cup Diagnose(/\ EvidenceGates(d, r) # {}
                              /\ ~\E g \in EvidenceGates(d, r) : CoversScope(d, g, r, o),
                              "EVIDENCE_SCOPE_GATE_INCOMPLETE", r)
                : r \in PrerequisiteReceipts(d, o)}

TimeDiagnostics(boundary, g, now) ==
    IF boundary = None THEN {}
    ELSE IF boundary.clockContractRef # "rfc3339-utc" THEN {<<"TIME_CLOCK_UNSUPPORTED", g>>}
    ELSE IF boundary.notBefore = None THEN {<<"TIME_FORMAT_UNRESOLVED", g>>}
    ELSE IF now < boundary.notBefore THEN {<<"TIME_NOT_REACHED", g>>}
    ELSE Diagnose(boundary.assessment # "reached", "TIME_RECORDED", g)

GateDiagnostics(d, g, o, now) == LET gate == d.gates[g] IN
    Diagnose(~Resolved(d, gate.ownerRef), "GATE_OWNER_UNRESOLVED", g)
    \cup Diagnose(gate.status = "unsatisfied", "GATE_UNSATISFIED", g)
    \cup Diagnose(gate.status = "unresolved", "GATE_UNRESOLVED", g)
    \cup Evidence(d, gate.requiredReceiptRefs, o)
    \cup TimeDiagnostics(gate.timeBoundary, g, now)

CredentialDiagnostics(d, q, o) ==
    LET c == q.credentialRef credential == d.credentials[c] bind == d.operations[o].invocationBinding IN
    Diagnose(credential.readiness # "present", "CREDENTIAL_NOT_PRESENT", c)
    \cup Diagnose(credential.scopeVerification # "verified", "CREDENTIAL_SCOPE_UNVERIFIED", c)
    \cup Diagnose(credential.purpose # q.purpose \/ q.consumer \notin credential.authorizedConsumers,
                  "CREDENTIAL_SCOPE_MISMATCH", c)
    \cup Diagnose(bind # None /\ bind.principalRef \notin credential.authorizedPrincipalRefs,
                  "CREDENTIAL_PRINCIPAL_MISMATCH", c)
    \cup Diagnose(\/ q.requiredAuthorityRef \notin credential.authorityGrantedRefs
                  \/ q.requiredAuthorityRef \in credential.authorityNotGrantedRefs,
                  "CREDENTIAL_AUTHORITY_MISMATCH", c)
    \cup Diagnose(~Established(d, q.requiredAuthorityRef), "CREDENTIAL_AUTHORITY_UNRESOLVED", c)
    \cup Evidence(d, credential.evidenceRefs, o)

AuthorityDiagnostics(d, a, o, code) ==
    Diagnose(~Established(d, a), code, a) \cup Evidence(d, Elements(d.authorities[a].evidenceRefs), o)

ResourceDiagnostics(rule, r) ==
    LET sufficient == /\ rule.status = "meets"
                      /\ rule.observedAvailable # None
                      /\ rule.observedAvailable >= rule.minimum + rule.expectedAllocation
    IN  Diagnose(~sufficient, IF rule.status = "unknown" THEN "RESOURCE_UNRESOLVED"
                              ELSE "RESOURCE_INSUFFICIENT", r)

PrivacyDiagnostics(d, p, o) == LET rule == d.privacyEgress[p] IN
    Diagnose(rule.status = "unresolved", "PRIVACY_UNRESOLVED", p)
    \cup Diagnose(rule.status = "denied", "PRIVACY_DENIED", p)
    \cup UNION {AuthorityDiagnostics(d, a, o, "PRIVACY_AUTHORITY_UNRESOLVED") :
                  a \in rule.requiredAuthorityRefs}

CleanupDiagnostics(d, o) ==
    LET rules == {c \in DOMAIN d.cleanupRules : o \in d.cleanupRules[c].operationRefs} IN
    IF d.operations[o].kind # "cleanup" THEN {}
    ELSE Diagnose(rules = {}, "CLEANUP_RULE_MISSING", o)
         \cup {<<"CLEANUP_NOT_REGENERABLE", c>> : c \in {x \in rules : ~d.cleanupRules[x].regenerable}}
         \cup UNION {LET found == ReceiptDiagnostics(d, r, o) IN
                       found \cup Diagnose(found # {}, "CLEANUP_CUSTODY_UNSATISFIED", r)
                     : r \in UNION {d.cleanupRules[c].custodyPrerequisiteReceiptRefs : c \in rules}}

Blockers(d, o, now) == LET op == d.operations[o] IN
    BoundaryDiagnostics(d, o)
    \cup BindingDiagnostics(d, o)
    \cup ScopeDiagnostics(d, o)
    \cup (UNION {GateDiagnostics(d, g, o, now) : g \in GatesOf(d, o)})
    \cup (UNION {CredentialDiagnostics(d, q, o) : q \in op.credentialRequirements})
    \cup Evidence(d, op.requiredReceiptRefs
                       \ UNION {d.gates[g].requiredReceiptRefs : g \in GatesOf(d, o)}, o)
    \cup (UNION {AuthorityDiagnostics(d, a, o, "AUTHORITY_UNRESOLVED") : a \in op.requiredAuthorityRefs})
    \cup Diagnose(/\ d.assessment.verification # "caller-verified-index"
                  /\ op.kind \in {"local-effect", "cleanup"}, "ASSESSMENT_UNVERIFIED", o)
    \cup (UNION {ResourceDiagnostics(d.resourceRules[r], r) : r \in Applicable(d.resourceRules, o)})
    \cup (UNION {PrivacyDiagnostics(d, p, o) : p \in Applicable(d.privacyEgress, o)})
    \cup CleanupDiagnostics(d, o)
    \cup {<<"OWNER_DECISION_UNRESOLVED", x>> :
            x \in {y \in DOMAIN d.ownerDecisions : o \in d.ownerDecisions[y].affectedOperations}}

----------------------------------------------------------------------------
\* The report.

Disposition(op, blockers) ==
    IF blockers # {} THEN "blocked"
    ELSE IF op.kind \in {"external-effect", "production-effect"}
         THEN "ready-for-existing-authority-check"
         ELSE "permitted-by-declared-contract"

ClosureDiagnostics(d) ==
    IF d.interfaceClosure = Undeclared THEN {<<"INTERFACE_CLOSURE_MISSING", "interfaceClosure">>}
    ELSE {<<"INTERFACE_CLOSURE_INCOMPLETE", field>> :
            field \in {f \in DOMAIN ClosureCollections(d) :
                         ~(ClosureCollections(d)[f] \subseteq d.interfaceClosure[f])}}

Diagnostics(d, now) ==
    (UNION {Blockers(d, o, now) : o \in DOMAIN d.operations})
    \cup ClosureDiagnostics(d)
    \cup {<<"EXECUTION_BOUNDARY_MISSING", o>> :
            o \in {x \in DOMAIN d.operations : /\ d.operations[x].executionClass = "source-only"
                                               /\ Boundary(d, x) = Undeclared}}

\* Mutant: every diagnostic blocks the integration.
AllDiagnostics(d, now) == Diagnostics(d, now)

IntegrationBlockers(d, now) == {x \in Diagnostics(d, now) : x[1] \in IntegrationBlockerCodes}
=============================================================================
