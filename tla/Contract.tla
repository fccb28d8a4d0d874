------------------------------ MODULE Contract ------------------------------
(***************************************************************************)
(* What tools/integration_contract/validator.py accepts.  A document is a  *)
(* record with the fields of the JSON file; a collection is a function     *)
(* from its ids (so ids are unique); a list of references is a set, except *)
(* evidenceRefs of an authority, whose order the search of the preflight   *)
(* follows.  Text, formats and the types of single values are left out:    *)
(* None is JSON null, Undeclared an absent executionBoundary or closure.   *)
(***************************************************************************)
EXTENDS Naturals, Sequences, FiniteSets

CONSTANTS None, Undeclared

EffectKinds == {"local-effect", "external-effect", "production-effect"}

EffectAuthorityKind(kind) == IF kind = "local-effect" THEN "effect" ELSE kind

InvocationAuthorityKinds(kind) ==
    CASE kind = "local-preparation" -> {"local-work", "compute"}
      [] kind \in EffectKinds -> {EffectAuthorityKind(kind)}
      [] kind = "read-only-reconciliation" -> {"local-work"}
      [] kind = "cleanup" -> {"cleanup"}

AutonomousCategories == {"composition", "implementation", "test", "documentation"}

ProtectedBoundaries ==
    {"semantics", "authority", "privacy", "production-state", "acceptance-criteria"}

Elements(list) == {list[i] : i \in DOMAIN list}

Boundary(d, o) == d.operations[o].executionBoundary

\* Operations that declare a boundary record (not null, not absent).
Bounded(d) == {o \in DOMAIN d.operations : Boundary(d, o) \notin {None, Undeclared}}

----------------------------------------------------------------------------
\* What a document and the entries of its collections consist of, and the
\* values of the fields that are read as a state.

Keys ==
    [sources |-> {"status", "pin", "unresolvedReason"},
     owners |-> {"status", "evidenceRefs"},
     authorities |-> {"ownerRef", "kind", "status", "authorizedPrincipalRefs", "evidenceRefs"},
     operations |-> {"kind", "executionClass", "invocationBinding", "executionBoundary", "consumer",
                     "credentialRequirements", "requiredReceiptRefs", "producedReceiptRefs",
                     "requiredAuthorityRefs", "requiredResourceRuleRefs", "requiredPrivacyRuleRefs"},
     gates |-> {"kind", "ownerRef", "status", "requiredReceiptRefs", "blocks", "doesNotBlock",
                "timeBoundary"},
     credentials |-> {"purpose", "readiness", "scopeVerification", "authorizedConsumers",
                      "authorizedPrincipalRefs", "authorityGrantedRefs", "authorityNotGrantedRefs",
                      "evidenceRefs", "sourceRefs"},
     receipts |-> {"schemaType", "issuerOwnerRef", "issuerAuthorityRef", "evidenceBasisStatus",
                   "artifactIdentity", "artifactIdentityStatus", "custodyStatus",
                   "downstreamConsumers", "disposition", "role"},
     resourceRules |-> {"status", "observedAvailable", "provenance", "minimum",
                        "expectedAllocation", "applicableOperations"},
     privacyEgress |-> {"status", "requiredAuthorityRefs", "applicableOperations"},
     outcomes |-> {"kind", "requiredEvidenceRefs"},
     cleanupRules |-> {"regenerable", "custodyPrerequisiteReceiptRefs", "operationRefs"},
     ownerDecisions |-> {"ownerRef", "kind", "choices", "affectedOperations"}]

ReceiptFactStates == {"recorded", "missing", "template", "unverified"}
States ==
    [owners |-> [status |-> {"resolved", "unresolved"}],
     authorities |-> [status |-> {"established", "unresolved"}],
     operations |-> [executionClass |-> {"source-only", "runtime"}],
     gates |-> [status |-> {"satisfied", "unsatisfied", "unresolved"}],
     credentials |-> [readiness |-> {"present", "absent", "unverified"},
                      scopeVerification |-> {"verified", "unverified", "failed"}],
     receipts |-> [evidenceBasisStatus |-> ReceiptFactStates,
                   artifactIdentityStatus |-> ReceiptFactStates,
                   custodyStatus |-> ReceiptFactStates,
                   disposition |-> {"missing", "template", "retained-unverified",
                                    "externally-accepted", "failed"}],
     resourceRules |-> [status |-> {"meets", "does-not-meet", "unknown"}],
     privacyEgress |-> [status |-> {"satisfied", "unresolved", "denied"}]]

\* obj and collection: exactly these fields.  A document is finite.
ShapeOK(d) ==
    /\ DOMAIN d = DOMAIN Keys \cup
         {"consumers", "repairAuthority", "autonomousRepairs", "reconciliation", "rollback",
          "rawEvidence", "interfaceClosure", "assessment"}
    /\ \A c \in DOMAIN Keys : \A i \in DOMAIN d[c] : DOMAIN d[c][i] = Keys[c]
    /\ IsFiniteSet(DOMAIN d.receipts)

StatesOK(d) ==
    \A c \in DOMAIN States : \A field \in DOMAIN States[c] : \A i \in DOMAIN d[c] :
        d[c][i][field] \in States[c][field]

----------------------------------------------------------------------------
\* Sources, owners, authorities.

SourcesOK(d) ==
    \A s \in DOMAIN d.sources :
        /\ d.sources[s].status = "pinned" => d.sources[s].pin # None
        /\ d.sources[s].status = "unverified" => d.sources[s].unresolvedReason # None

IsPinned(d, s) == s \in DOMAIN d.sources /\ d.sources[s].status = "pinned"

AuthoritiesOK(d) ==
    \A a \in DOMAIN d.authorities :
        /\ d.authorities[a].ownerRef \in DOMAIN d.owners
        /\ d.authorities[a].authorizedPrincipalRefs \subseteq DOMAIN d.owners

----------------------------------------------------------------------------
\* The execution boundary of an operation, b its record.

\* validate_observation_coverage: profile is the one kind whose population
\* and namespaces the coverage states.
CoverageOK(c) ==
    /\ c.profile = c.kind
    /\ (c.kind = "all-owner-uid-processes") <=> (c.bindingReceiptRefs # {})

\* validate_mechanism_identity, and the pinned source its callers ask for.
IdentityOK(d, i) == i.exactPin /\ IsPinned(d, i.sourceRef)

\* A delegated primitive or executor: an exact argv unless a service, run by
\* the operation's own baseline principal.
DelegateOK(d, b, x) ==
    /\ IdentityOK(d, x.identity)
    /\ x.identity.kind # "service-endpoint" => x.command # None
    /\ (x.identity.kind = "digest" /\ x.command # None) => x.command = x.identity.reference
    /\ x.invokingPlatformPrincipal = b.baselinePlatformIdentity
    /\ x.receiptRefs # {} /\ x.receiptRefs \subseteq DOMAIN d.receipts

PrimitivesOK(d, b) ==
    \A p \in DOMAIN b.delegatedPrimitives : LET x == b.delegatedPrimitives[p] IN
        /\ DelegateOK(d, b, x)
        /\ CoverageOK(x.coverage)
        /\ x.coverage.bindingReceiptRefs \subseteq DOMAIN d.receipts

ExecutorsOK(d, o, b) ==
    \A e \in DOMAIN b.delegatedExecutors : LET x == b.delegatedExecutors[e] IN
        /\ DelegateOK(d, b, x)
        /\ d.operations[o].kind \in EffectKinds
        /\ x.authorityRef \in DOMAIN d.authorities \cap d.operations[o].requiredAuthorityRefs
        /\ d.authorities[x.authorityRef].kind = EffectAuthorityKind(d.operations[o].kind)
        /\ x.operationRef = o
        /\ x.receiptRefs \subseteq d.operations[o].producedReceiptRefs

Phases == <<"acquisition", "hold", "handoff", "release">>
CurrentPhases == {"acquisition", "hold"}

PhasePredicates(phase) ==
    CASE phase = "acquisition" -> {"before-observation", "before-dispatch"}
      [] phase = "hold" -> {"through-dispatch-handoff", "through-attempt-terminal"}
      [] phase = "handoff" -> {"to-declared-operation"}
      [] phase = "release" -> {"after-dispatch-handoff", "after-attempt-terminal",
                               "on-refusal-before-dispatch"}

\* x: the attempt or a current phase, which names who must have issued its receipt.
AnchorOK(d, x) ==
    /\ x.issuerOwnerRef \in DOMAIN d.owners
    /\ x.issuerAuthorityRef \in DOMAIN d.authorities
    /\ LET a == d.authorities[x.issuerAuthorityRef] IN
         /\ a.kind = "acceptance"
         /\ a.status = "established"
         /\ a.ownerRef = x.issuerOwnerRef
         /\ x.authorityEvidenceReceiptRef \in Elements(a.evidenceRefs)

AttemptOK(d, x) == LET t == x.attemptBinding IN
    /\ t.operationRef \in x.relevantOperationRefs
    /\ d.operations[t.operationRef].executionClass = "runtime"
    /\ d.operations[t.operationRef].kind \in EffectKinds
    /\ t.supervisorOwnerRef \in DOMAIN d.owners
    /\ IsPinned(d, t.identitySourceRef)
    /\ AnchorOK(d, t)

PhasesOK(d, x) ==
    /\ \A i \in DOMAIN Phases : LET phase == x.phases[Phases[i]] IN
         /\ phase.predicate \in PhasePredicates(Phases[i])
         /\ phase.predecessorReceiptRef =
              IF i = 1 THEN None ELSE x.phases[Phases[i - 1]].receiptRef
         /\ Phases[i] \in CurrentPhases => AnchorOK(d, phase)
         /\ Phases[i] = "handoff" => phase.targetOperationRef = x.attemptBinding.operationRef
    /\ Cardinality({x.attemptBinding.receiptRef}
                     \cup {x.phases[p].receiptRef : p \in Elements(Phases)}) = 5

ExclusionsOK(d, b) ==
    \A e \in DOMAIN b.sharedExclusions : LET x == b.sharedExclusions[e] IN
        /\ IdentityOK(d, x.mechanismIdentity)
        /\ x.ownerRef \in DOMAIN d.owners
        /\ x.relevantOperationRefs # {} /\ x.relevantOperationRefs \subseteq DOMAIN d.operations
        /\ x.honoringOperationRefs = x.relevantOperationRefs
        /\ AttemptOK(d, x)
        /\ PhasesOK(d, x)

NeedsDelegate(b, f) ==
    \/ f.requiredPlatformIdentity # b.operationPlatformIdentity
    \/ ~(f.requiredCapabilities \subseteq b.operationCapabilities)

FactPrimitiveOK(b, f) == LET p == f.delegatedPrimitiveRef IN
    IF p = None
      THEN ~NeedsDelegate(b, f) /\ f.coverage.kind # "all-owner-uid-processes"
      ELSE /\ p \in DOMAIN b.delegatedPrimitives
           /\ LET x == b.delegatedPrimitives[p] IN
                /\ x.executionPlatformIdentity = f.requiredPlatformIdentity
                /\ x.requiredCapabilities = f.requiredCapabilities
                /\ f.interfaces \subseteq x.interfaces
                /\ x.coverage = f.coverage
                /\ f.coverage.bindingReceiptRefs \subseteq x.receiptRefs
                /\ f.downstreamReceiptRefs \subseteq x.receiptRefs

\* A fact claims a reservation exactly when it names an exclusion this
\* operation takes part in and acquires before it observes.
FactExclusionOK(o, b, f) == LET e == f.sharedExclusionRef IN
    /\ (f.temporalScope = "reserved-through-dispatch") <=> (e # None)
    /\ f.establishesExclusion <=> (f.temporalScope = "reserved-through-dispatch")
    /\ e # None => /\ e \in DOMAIN b.sharedExclusions
                   /\ o \in b.sharedExclusions[e].relevantOperationRefs
                   /\ b.sharedExclusions[e].phases["acquisition"].predicate = "before-observation"

FactsOK(d, o, b) ==
    /\ DOMAIN b.technicalVisibilityFacts # {}
    /\ \A i \in DOMAIN b.technicalVisibilityFacts : LET f == b.technicalVisibilityFacts[i] IN
         /\ CoverageOK(f.coverage)
         /\ f.claimKind = "producer-absence" => f.coverage.kind = "all-owner-uid-processes"
         /\ FactPrimitiveOK(b, f)
         /\ FactExclusionOK(o, b, f)
         /\ f.downstreamReceiptRefs # {} /\ f.downstreamReceiptRefs \subseteq DOMAIN d.receipts
         /\ f.coverage.bindingReceiptRefs \subseteq f.downstreamReceiptRefs

FactRefs(b, field) ==
    {b.technicalVisibilityFacts[i][field] : i \in DOMAIN b.technicalVisibilityFacts} \ {None}

SemanticsOK(d, b) ==
    /\ b.principalRef \in DOMAIN d.owners \cup {None}
    /\ b.authorityRef \in DOMAIN d.authorities \cup {None}
    /\ b.status = "established" => b.principalRef # None /\ b.authorityRef # None

\* overclaims: the five flags of the boundary that must stay as the code wants
\* them (identity as authority, custody not separated, custody as privilege,
\* convention as requirement, broader privilege not refused).
PrivilegeOK(b) ==
    /\ b.overclaims = {}
    /\ b.operationPlatformIdentity = b.baselinePlatformIdentity
    /\ b.operationCapabilities = b.baselineCapabilities
    /\ IF b.unprivilegedEquivalence = "delegated-primitive"
         THEN /\ b.delegatedPrimitiveRefs # {}
              /\ b.delegatedPrimitiveRefs = FactRefs(b, "delegatedPrimitiveRef")
         ELSE b.delegatedPrimitiveRefs = {}
    /\ b.unprivilegedEquivalence = "exact" =>
         \A i \in DOMAIN b.technicalVisibilityFacts :
             ~NeedsDelegate(b, b.technicalVisibilityFacts[i])

BoundaryOK(d, o) == LET b == Boundary(d, o) IN
    /\ (b.status = "unresolved") <=> (b.unresolvedReason # None)
    /\ PrimitivesOK(d, b)
    /\ ExecutorsOK(d, o, b)
    /\ ExclusionsOK(d, b)
    /\ FactsOK(d, o, b)
    /\ DOMAIN b.delegatedPrimitives = FactRefs(b, "delegatedPrimitiveRef")
    /\ DOMAIN b.sharedExclusions = FactRefs(b, "sharedExclusionRef")
    /\ SemanticsOK(d, b)
    /\ b.custodyReceiptRefs # {} /\ b.custodyReceiptRefs \subseteq DOMAIN d.receipts
    /\ PrivilegeOK(b)
    /\ d.operations[o].executionClass # "source-only"

----------------------------------------------------------------------------
\* Operations, before the other collections are known.

OperationsOK(d) ==
    \A o \in DOMAIN d.operations : LET op == d.operations[o] IN
        /\ op.executionClass = "source-only" =>
             op.kind = "local-preparation" /\ op.invocationBinding = None
        /\ o \in Bounded(d) => BoundaryOK(d, o)
        /\ op.consumer \in d.consumers
        /\ op.kind \in EffectKinds => op.requiredAuthorityRefs # {}

\* Mutant: only that the others declare a boundary.
ProducersBounded(d) ==
    \A o \in Bounded(d) : \A e \in DOMAIN Boundary(d, o).sharedExclusions :
        Boundary(d, o).sharedExclusions[e].relevantOperationRefs \subseteq Bounded(d)

\* Every producer an exclusion names declares the same exclusion.
ProducersAgree(d) ==
    \A o \in Bounded(d) : \A e \in DOMAIN Boundary(d, o).sharedExclusions :
        LET x == Boundary(d, o).sharedExclusions[e] IN
        \A p \in x.relevantOperationRefs :
            /\ p \in Bounded(d)
            /\ e \in DOMAIN Boundary(d, p).sharedExclusions
            /\ LET y == Boundary(d, p).sharedExclusions[e] IN
                 \A field \in {"mechanismIdentity", "attemptBinding", "ownerRef", "phases",
                               "relevantOperationRefs"} : y[field] = x[field]

GatesOK(d) ==
    \A g \in DOMAIN d.gates : LET gate == d.gates[g] IN
        /\ gate.ownerRef \in DOMAIN d.owners
        /\ gate.blocks # {} /\ gate.blocks \cap gate.doesNotBlock = {}
        /\ gate.blocks \cup gate.doesNotBlock = DOMAIN d.operations
        /\ gate.status = "satisfied" => gate.requiredReceiptRefs # {}

CredentialsOK(d) ==
    \A c \in DOMAIN d.credentials : LET credential == d.credentials[c] IN
        /\ credential.authorizedConsumers # {} /\ credential.authorizedConsumers \subseteq d.consumers
        /\ credential.authorizedPrincipalRefs \subseteq DOMAIN d.owners
        /\ credential.authorityGrantedRefs \cap credential.authorityNotGrantedRefs = {}
        /\ credential.authorityGrantedRefs \cup credential.authorityNotGrantedRefs
             \subseteq DOMAIN d.authorities
        /\ credential.sourceRefs \subseteq DOMAIN d.sources

Recorded(receipt) ==
    {receipt.evidenceBasisStatus, receipt.artifactIdentityStatus, receipt.custodyStatus} = {"recorded"}

AcceptedReceipt(receipt) == receipt.disposition = "externally-accepted" /\ Recorded(receipt)

\* The schema a receipt must have for the kind of its semantic role.
RoleSchema(kind) ==
    CASE kind = "operation-attempt-binding" -> "attempt"
      [] kind = "observation-coverage-domain" -> "coverage"
      [] OTHER -> "phase"

\* What a semantic role names exists.
RoleOK(d, role) ==
    CASE role.kind = "operation-attempt-binding" ->
           /\ role.operationRef \in DOMAIN d.operations
           /\ role.supervisorOwnerRef \in DOMAIN d.owners
           /\ role.identitySourceRef \in DOMAIN d.sources
      [] role.kind = "observation-coverage-domain" -> role.operationRef \in DOMAIN d.operations
      [] OTHER ->
           /\ role.ownerRef \in DOMAIN d.owners
           /\ role.producerOperationRefs # {} /\ role.producerOperationRefs \subseteq DOMAIN d.operations
           /\ role.producerRef \in IF role.kind \in CurrentPhases THEN DOMAIN d.owners
                                   ELSE DOMAIN d.operations

ReceiptsOK(d) ==
    \A r \in DOMAIN d.receipts : LET receipt == d.receipts[r] IN
        /\ receipt.issuerOwnerRef \in DOMAIN d.owners
        /\ receipt.issuerAuthorityRef \in DOMAIN d.authorities
        /\ d.authorities[receipt.issuerAuthorityRef].kind = "acceptance"
        /\ d.authorities[receipt.issuerAuthorityRef].ownerRef = receipt.issuerOwnerRef
        /\ receipt.downstreamConsumers \subseteq DOMAIN d.operations
        /\ receipt.disposition = "externally-accepted" => Recorded(receipt)
        /\ receipt.role # None => /\ RoleOK(d, receipt.role)
                                  /\ receipt.schemaType = RoleSchema(receipt.role.kind)

----------------------------------------------------------------------------
\* Checks the code defers until every receipt is known.

ReferencesOK(d) ==
    LET known == DOMAIN d.receipts IN
    /\ \A o \in DOMAIN d.owners : d.owners[o].evidenceRefs \subseteq known
    /\ \A a \in DOMAIN d.authorities : d.authorities[a].evidenceRefs \in Seq(known)
    /\ \A c \in DOMAIN d.credentials : d.credentials[c].evidenceRefs \subseteq known
    /\ \A g \in DOMAIN d.gates : d.gates[g].requiredReceiptRefs \subseteq known

\* The domain receipts of an all-owner census carry the role of that very fact.
CoverageRolesOK(d, o) == LET b == Boundary(d, o) IN
    \A i \in DOMAIN b.technicalVisibilityFacts : LET f == b.technicalVisibilityFacts[i] IN
        f.coverage.kind = "all-owner-uid-processes" =>
          \A r \in f.coverage.bindingReceiptRefs :
             d.receipts[r].role =
               [kind |-> "observation-coverage-domain", operationRef |-> o, factRef |-> i,
                primitiveRef |-> f.delegatedPrimitiveRef, coverageKind |-> f.coverage.kind,
                primitiveIdentityPin |->
                   b.delegatedPrimitives[f.delegatedPrimitiveRef].identity.identityPin]

AnchorEvidenceOK(d, x) ==
    /\ {x.receiptRef, x.authorityEvidenceReceiptRef} \subseteq DOMAIN d.receipts
    /\ d.receipts[x.receiptRef].issuerOwnerRef = x.issuerOwnerRef
    /\ d.receipts[x.receiptRef].issuerAuthorityRef = x.issuerAuthorityRef
    /\ x.authorityEvidenceReceiptRef # x.receiptRef
    /\ d.receipts[x.authorityEvidenceReceiptRef].issuerOwnerRef # x.issuerOwnerRef
    /\ AcceptedReceipt(d.receipts[x.authorityEvidenceReceiptRef])

AttemptEvidenceOK(d, x) ==
    LET t == x.attemptBinding
        r == d.receipts[t.receiptRef]
    IN  /\ AnchorEvidenceOK(d, t)
        /\ AcceptedReceipt(r)
        /\ r.artifactIdentity = t.identityPin
        /\ r.role = [kind |-> "operation-attempt-binding", bindingRef |-> t.id,
                     operationRef |-> t.operationRef,
                     supervisorOwnerRef |-> t.supervisorOwnerRef,
                     identitySourceRef |-> t.identitySourceRef, identityPin |-> t.identityPin]
        /\ r.issuerOwnerRef # t.supervisorOwnerRef
        /\ x.relevantOperationRefs \subseteq r.downstreamConsumers

PhaseRole(e, x, p) ==
    [kind |-> p, mechanismRef |-> e, mechanismIdentityPin |-> x.mechanismIdentity.identityPin,
     attemptBindingRef |-> x.attemptBinding.id,
     attemptIdentityPin |-> x.attemptBinding.identityPin, ownerRef |-> x.ownerRef,
     producerOperationRefs |-> x.relevantOperationRefs,
     predecessorReceiptRef |-> x.phases[p].predecessorReceiptRef,
     producerRef |-> IF p \in CurrentPhases THEN x.attemptBinding.supervisorOwnerRef
                     ELSE x.attemptBinding.operationRef,
     predicate |-> x.phases[p].predicate]

PhaseEvidenceOK(d, e, x, p) ==
    /\ x.phases[p].receiptRef \in DOMAIN d.receipts
    /\ LET r == d.receipts[x.phases[p].receiptRef] IN
         /\ IF p \in CurrentPhases
              THEN /\ AnchorEvidenceOK(d, x.phases[p])
                   /\ AcceptedReceipt(r)
                   /\ r.issuerOwnerRef # x.attemptBinding.supervisorOwnerRef
              ELSE {r.disposition, r.artifactIdentityStatus, r.custodyStatus} = {"missing"}
         /\ r.role = PhaseRole(e, x, p)
         /\ x.relevantOperationRefs \subseteq r.downstreamConsumers

EvidenceOK(d) ==
    \A o \in Bounded(d) :
        /\ CoverageRolesOK(d, o)
        /\ \A e \in DOMAIN Boundary(d, o).sharedExclusions :
             LET x == Boundary(d, o).sharedExclusions[e] IN
             /\ AttemptEvidenceOK(d, x)
             /\ \A p \in Elements(Phases) : PhaseEvidenceOK(d, e, x, p)

----------------------------------------------------------------------------
\* The remaining collections.

ResourcesOK(d) ==
    \A r \in DOMAIN d.resourceRules : LET rule == d.resourceRules[r] IN
        /\ rule.applicableOperations # {} /\ rule.applicableOperations \subseteq DOMAIN d.operations
        /\ rule.status # "unknown" => None \notin {rule.observedAvailable, rule.provenance}

PrivacyOK(d) ==
    \A p \in DOMAIN d.privacyEgress : LET rule == d.privacyEgress[p] IN
        /\ rule.requiredAuthorityRefs # {} /\ rule.requiredAuthorityRefs \subseteq DOMAIN d.authorities
        /\ \A a \in rule.requiredAuthorityRefs : d.authorities[a].kind = "privacy"
        /\ rule.applicableOperations # {} /\ rule.applicableOperations \subseteq DOMAIN d.operations

RepairOK(d) ==
    /\ d.repairAuthority.sourceRef \in DOMAIN d.sources
    /\ d.repairAuthority.allowedCategories # {}
    /\ d.repairAuthority.allowedCategories \subseteq AutonomousCategories
    /\ d.repairAuthority.protectedBoundaries = ProtectedBoundaries
    /\ \A r \in DOMAIN d.autonomousRepairs :
         d.autonomousRepairs[r] \in d.repairAuthority.allowedCategories

RecoveryOK(d) ==
    /\ {d.outcomes[o].kind : o \in DOMAIN d.outcomes} = {"success", "refusal", "indeterminate"}
    /\ Cardinality(DOMAIN d.outcomes) = 3
    /\ \A o \in DOMAIN d.outcomes : d.outcomes[o].requiredEvidenceRefs \subseteq DOMAIN d.receipts
    /\ {d.reconciliation, d.rollback} \cup d.rawEvidence.sourceRefs \subseteq DOMAIN d.sources
    /\ d.rawEvidence.immutable

CleanupOK(d) ==
    \A c \in DOMAIN d.cleanupRules : LET rule == d.cleanupRules[c] IN
        /\ rule.custodyPrerequisiteReceiptRefs # {}
        /\ rule.custodyPrerequisiteReceiptRefs \subseteq DOMAIN d.receipts
        /\ rule.operationRefs # {} /\ rule.operationRefs \subseteq DOMAIN d.operations

DecisionsOK(d) ==
    \A x \in DOMAIN d.ownerDecisions : LET decision == d.ownerDecisions[x] IN
        /\ decision.ownerRef \in DOMAIN d.owners
        /\ decision.affectedOperations # {}
        /\ decision.affectedOperations \subseteq DOMAIN d.operations
        /\ IF decision.kind = "choice" THEN Cardinality(decision.choices) >= 2
           ELSE decision.choices = {}

BindingOK(d, op) ==
    op.invocationBinding # None =>
        /\ op.invocationBinding.principalRef \in DOMAIN d.owners
        /\ op.invocationBinding.authorityRef \in op.requiredAuthorityRefs
        /\ d.authorities[op.invocationBinding.authorityRef].kind
             \in InvocationAuthorityKinds(op.kind)

CredentialRequirementsOK(d, op) ==
    \A q \in op.credentialRequirements :
        /\ q.credentialRef \in DOMAIN d.credentials
        /\ q.consumer = op.consumer
        /\ q.requiredAuthorityRef \in op.requiredAuthorityRefs

Applicable(rules, o) == {r \in DOMAIN rules : o \in rules[r].applicableOperations}

OperationRefsOK(d) ==
    \A o \in DOMAIN d.operations : LET op == d.operations[o] IN
        /\ op.requiredAuthorityRefs \subseteq DOMAIN d.authorities
        /\ BindingOK(d, op)
        /\ op.requiredReceiptRefs \cup op.producedReceiptRefs \subseteq DOMAIN d.receipts
        /\ op.requiredReceiptRefs \cap op.producedReceiptRefs = {}
        /\ CredentialRequirementsOK(d, op)
        /\ op.kind \in EffectKinds \cup {"cleanup"} =>
             \E a \in op.requiredAuthorityRefs : d.authorities[a].kind = EffectAuthorityKind(op.kind)
        /\ op.requiredResourceRuleRefs = Applicable(d.resourceRules, o)
        /\ op.requiredPrivacyRuleRefs = Applicable(d.privacyEgress, o)

Producers(d, r) == {o \in DOMAIN d.operations : r \in d.operations[o].producedReceiptRefs}

GateInputs(d) == UNION {d.gates[g].requiredReceiptRefs : g \in DOMAIN d.gates}
OperationInputs(d) == UNION {d.operations[o].requiredReceiptRefs : o \in DOMAIN d.operations}

\* Current evidence comes from outside; future evidence from the attempt alone,
\* and nothing waits for it.
DirectionsOK(d) ==
    \A o \in Bounded(d) : \A e \in DOMAIN Boundary(d, o).sharedExclusions :
        LET x == Boundary(d, o).sharedExclusions[e] IN
        /\ Producers(d, x.attemptBinding.receiptRef) = {}
        /\ \A p \in Elements(Phases) : LET r == x.phases[p].receiptRef IN
             IF p \in CurrentPhases THEN Producers(d, r) = {}
             ELSE /\ Producers(d, r) = {x.attemptBinding.operationRef}
                  /\ r \notin GateInputs(d) \cup OperationInputs(d)

\* Mutant: only the operation's own list is compared with its outputs.
GateOutputsUnchecked(d) ==
    \A o \in DOMAIN d.operations :
        d.operations[o].requiredReceiptRefs \cap d.operations[o].producedReceiptRefs = {}

GateOutputsOK(d) ==
    \A g \in DOMAIN d.gates : \A o \in d.gates[g].blocks :
        d.gates[g].requiredReceiptRefs \cap d.operations[o].producedReceiptRefs = {}

\* The ids of every collection an interface closure lists.
ClosureCollections(d) ==
    [basisSourceRefs |-> DOMAIN d.sources, ownerRefs |-> DOMAIN d.owners,
     authorityRefs |-> DOMAIN d.authorities, operationRefs |-> DOMAIN d.operations,
     gateRefs |-> DOMAIN d.gates, credentialRefs |-> DOMAIN d.credentials,
     receiptRefs |-> DOMAIN d.receipts, resourceRuleRefs |-> DOMAIN d.resourceRules,
     privacyRuleRefs |-> DOMAIN d.privacyEgress, cleanupRuleRefs |-> DOMAIN d.cleanupRules]

ClosureOK(d) ==
    d.interfaceClosure # Undeclared =>
        /\ d.interfaceClosure.basisSourceRefs # {} /\ d.interfaceClosure.operationRefs # {}
        /\ \A field \in DOMAIN ClosureCollections(d) :
             d.interfaceClosure[field] \subseteq ClosureCollections(d)[field]

AssessmentOK(d) ==
    d.assessment.verification = "caller-verified-index" => d.assessment.sourcePin # None

\* validate_contract raises or returns the document; the order of its checks
\* only chooses which refusal is reported.
ValidContract(d) ==
    /\ ShapeOK(d) /\ StatesOK(d)
    /\ SourcesOK(d) /\ AuthoritiesOK(d) /\ ReferencesOK(d)
    /\ \A o \in DOMAIN d.operations :
         d.operations[o].requiredAuthorityRefs \subseteq DOMAIN d.authorities
    /\ OperationsOK(d) /\ ProducersAgree(d)
    /\ GatesOK(d) /\ CredentialsOK(d) /\ ReceiptsOK(d) /\ EvidenceOK(d)
    /\ ResourcesOK(d) /\ PrivacyOK(d) /\ RepairOK(d) /\ RecoveryOK(d)
    /\ CleanupOK(d) /\ DecisionsOK(d)
    /\ OperationRefsOK(d)
    /\ \A r \in DOMAIN d.receipts : Cardinality(Producers(d, r)) <= 1
    /\ DirectionsOK(d) /\ GateOutputsOK(d)
    /\ ClosureOK(d) /\ AssessmentOK(d)
=============================================================================
