------------------------------- MODULE MCDraft -------------------------------
(* Two drafts: one whose operations wait for each other's evidence, one     *)
(* whose two effect operations share an exclusion; and the edits of them.   *)
EXTENDS Draft, TLC

Source == [status |-> "pinned", pin |-> "pin", unresolvedReason |-> None]
Owner == [status |-> "resolved", evidenceRefs |-> {}]
Authority(owner, kind, evidence) ==
    [ownerRef |-> owner, kind |-> kind, status |-> "established",
     authorizedPrincipalRefs |-> {"team"}, evidenceRefs |-> evidence]
Receipt(owner, authority, consumers) ==
    [schemaType |-> "plain", issuerOwnerRef |-> owner, issuerAuthorityRef |-> authority,
     evidenceBasisStatus |-> "recorded", artifactIdentity |-> "artifact",
     artifactIdentityStatus |-> "recorded", custodyStatus |-> "recorded",
     downstreamConsumers |-> consumers, disposition |-> "externally-accepted", role |-> None]
Owed(owner, authority, consumers) ==
    [Receipt(owner, authority, consumers) EXCEPT !.disposition = "missing",
     !.artifactIdentityStatus = "missing", !.custodyStatus = "missing"]
Gate(required, blocked, all) ==
    [kind |-> "required-evidence", ownerRef |-> "team", status |-> "satisfied",
     requiredReceiptRefs |-> required, blocks |-> blocked, doesNotBlock |-> all \ blocked,
     timeBoundary |-> None]
Identity(kind) ==
    [kind |-> kind, reference |-> "tool", exactPin |-> TRUE, identityPin |-> kind, sourceRef |-> "repo"]
Coverage(kind, bound) == [kind |-> kind, profile |-> kind, bindingReceiptRefs |-> bound]
Fact(receipts) ==
    [requiredPlatformIdentity |-> "base", requiredCapabilities |-> {}, interfaces |-> {"files"},
     claimKind |-> "input-state", coverage |-> Coverage("declared-inputs", {}),
     delegatedPrimitiveRef |-> None, temporalScope |-> "point-in-time",
     sharedExclusionRef |-> None, establishesExclusion |-> FALSE, downstreamReceiptRefs |-> receipts]
PlainBoundary(principal, authority, receipt) ==
    [status |-> "established", unresolvedReason |-> None, baselinePlatformIdentity |-> "base",
     operationPlatformIdentity |-> "base", baselineCapabilities |-> {}, operationCapabilities |-> {},
     principalRef |-> principal, authorityRef |-> authority, overclaims |-> {},
     unprivilegedEquivalence |-> "exact", delegatedPrimitiveRefs |-> {},
     delegatedPrimitives |-> [x \in {} |-> None], delegatedExecutors |-> [x \in {} |-> None],
     sharedExclusions |-> [x \in {} |-> None], custodyReceiptRefs |-> {receipt},
     technicalVisibilityFacts |-> [f \in {"state"} |-> Fact({receipt})]]
Operation(kind, requires, produces, authority, bound) ==
    [kind |-> kind, executionClass |-> IF kind = "local-preparation" THEN "source-only" ELSE "runtime",
     invocationBinding |-> IF kind = "local-preparation" THEN None
                           ELSE [principalRef |-> "team", authorityRef |-> authority],
     executionBoundary |-> bound, consumer |-> "site", credentialRequirements |-> {},
     requiredReceiptRefs |-> requires, producedReceiptRefs |-> produces,
     requiredAuthorityRefs |-> {authority}, requiredResourceRuleRefs |-> {},
     requiredPrivacyRuleRefs |-> {}]

Whole(d) == [d EXCEPT !.interfaceClosure = ClosureCollections(d)]
Common(operations, gates, receipts) == Whole(
    [sources |-> [s \in {"repo"} |-> Source], consumers |-> {"site"},
     owners |-> [o \in {"team", "lab", "board"} |-> Owner],
     authorities |-> [a \in {"work", "effect", "clean", "accept", "charter", "disclose"} |->
        CASE a = "work" -> Authority("team", "local-work", <<>>)
          [] a = "effect" -> Authority("team", "effect", <<>>)
          [] a = "disclose" -> Authority("team", "privacy", <<>>)
          [] a = "clean" -> Authority("team", "cleanup", <<>>)
          [] a = "accept" -> Authority("lab", "acceptance", <<"mandate">>)
          [] a = "charter" -> Authority("board", "acceptance", <<>>)],
     operations |-> operations, gates |-> gates,
     credentials |-> [c \in {"token"} |->
        [purpose |-> "use", readiness |-> "present", scopeVerification |-> "verified",
         authorizedConsumers |-> {"site"}, authorizedPrincipalRefs |-> {"team"},
         authorityGrantedRefs |-> {"effect"}, authorityNotGrantedRefs |-> {"clean"},
         evidenceRefs |-> {}, sourceRefs |-> {"repo"}]],
     receipts |-> receipts, resourceRules |-> [r \in {} |-> None], privacyEgress |-> [p \in {} |-> None],
     repairAuthority |-> [sourceRef |-> "repo", allowedCategories |-> {"test"},
                          protectedBoundaries |-> ProtectedBoundaries],
     autonomousRepairs |-> [r \in {} |-> None],
     outcomes |-> [o \in {"success", "refusal", "indeterminate"} |->
                     [kind |-> o, requiredEvidenceRefs |-> {}]],
     reconciliation |-> "repo", rollback |-> "repo",
     rawEvidence |-> [immutable |-> TRUE, sourceRefs |-> {}],
     cleanupRules |-> [c \in {"scratch"} \cap {x \in {"scratch"} : "sweep" \in DOMAIN operations} |->
        [regenerable |-> TRUE, custodyPrerequisiteReceiptRefs |-> {"result"}, operationRefs |-> {"sweep"}]],
     ownerDecisions |-> [x \in {} |-> None], interfaceClosure |-> Undeclared,
     assessment |-> [verification |-> "caller-verified-index", sourcePin |-> "pin"]])

\* prepare builds, dispatch uses what was built, sweep cleans once the result
\* is in custody; lab accepts receipts, board vouches for lab.
Waiting ==
    LET all == {"prepare", "dispatch", "sweep"}
        rules == [resourceRules |-> [r \in {"disk"} |->
                    [status |-> "meets", observedAvailable |-> 4, provenance |-> "probe", minimum |-> 1,
                     expectedAllocation |-> 3, applicableOperations |-> {"dispatch"}]],
                  privacyEgress |-> [p \in {"egress"} |->
                    [status |-> "satisfied", requiredAuthorityRefs |-> {"disclose"},
                     applicableOperations |-> {"dispatch"}]]]
    IN Whole(rules @@ Common(
    [o \in all |->
        CASE o = "prepare" -> Operation("local-preparation", {}, {"built"}, "work", None)
          [] o = "dispatch" -> [Operation("local-effect", {"built"}, {"result"}, "effect",
                                          PlainBoundary("team", "effect", "result"))
                                EXCEPT !.requiredResourceRuleRefs = {"disk"}, !.requiredPrivacyRuleRefs = {"egress"},
                                       !.credentialRequirements =
                                   {[credentialRef |-> "token", purpose |-> "use", consumer |-> "site",
                                     requiredAuthorityRef |-> "effect"]}]
          [] o = "sweep" -> Operation("cleanup", {"result"}, {}, "clean",
                                      PlainBoundary("team", "clean", "result"))],
    [g \in {"inputs", "custody"} |-> IF g = "inputs" THEN Gate({"built", "mandate"}, {"dispatch"}, all)
                                     ELSE Gate({"result", "mandate"}, {"sweep"}, all)],
    [r \in {"built", "result", "mandate"} |->
        CASE r = "built" -> Receipt("lab", "accept", {"dispatch"})
          [] r = "result" -> [Receipt("lab", "accept", {"sweep"})
                              EXCEPT !.disposition = "retained-unverified"]
          [] r = "mandate" -> Receipt("board", "charter", {"dispatch", "sweep"})]))

Anchor(receipt) ==
    [receiptRef |-> receipt, issuerOwnerRef |-> "lab", issuerAuthorityRef |-> "accept",
     authorityEvidenceReceiptRef |-> "mandate"]
Slot ==
    LET phase(p, predicate, receipt, before) ==
          [predicate |-> predicate, predecessorReceiptRef |-> before, targetOperationRef |-> "dispatch"]
          @@ Anchor(receipt)
    IN  [mechanismIdentity |-> Identity("filesystem-lock"), ownerRef |-> "team",
         relevantOperationRefs |-> {"dispatch", "rival"}, honoringOperationRefs |-> {"dispatch", "rival"},
         attemptBinding |-> [id |-> "attempt-1", operationRef |-> "dispatch", supervisorOwnerRef |-> "team",
                             identitySourceRef |-> "repo", identityPin |-> "pin"] @@ Anchor("attempt"),
         phases |-> [p \in Elements(Phases) |->
            CASE p = "acquisition" -> phase(p, "before-observation", "acquired", None)
              [] p = "hold" -> phase(p, "through-attempt-terminal", "held", "acquired")
              [] p = "handoff" -> phase(p, "to-declared-operation", "handed", "held")
              [] p = "release" -> phase(p, "after-attempt-terminal", "released", "handed")]]
Census ==
    [identity |-> Identity("digest"), command |-> "tool", invokingPlatformPrincipal |-> "base",
     executionPlatformIdentity |-> "root", requiredCapabilities |-> {"ptrace"}, interfaces |-> {"files"},
     coverage |-> Coverage("all-owner-uid-processes", {"domain"}), receiptRefs |-> {"domain", "released"}]
SlotBoundary(slot) ==
    [PlainBoundary("team", "effect", "released") EXCEPT
        !.sharedExclusions = [e \in {"slot"} |-> slot],
        !.technicalVisibilityFacts = [f \in {"state"} |->
            [Fact({"released"}) EXCEPT !.temporalScope = "reserved-through-dispatch",
             !.sharedExclusionRef = "slot", !.establishesExclusion = TRUE]]]
CensusBoundary ==
    [SlotBoundary(Slot) EXCEPT
        !.delegatedPrimitives = [p \in {"census"} |-> Census], !.unprivilegedEquivalence = "delegated-primitive",
        !.delegatedPrimitiveRefs = {"census"},
        !.technicalVisibilityFacts = @ @@ [f \in {"idle"} |->
            [Fact({"domain", "released"}) EXCEPT !.claimKind = "producer-absence",
             !.requiredPlatformIdentity = "root", !.requiredCapabilities = {"ptrace"},
             !.coverage = Census.coverage, !.delegatedPrimitiveRef = "census"]]]
HelperBoundary ==
    [SlotBoundary(Slot) EXCEPT !.delegatedExecutors = [x \in {"helper"} |->
        [identity |-> Identity("digest"), command |-> "tool", invokingPlatformPrincipal |-> "base",
         authorityRef |-> "effect", operationRef |-> "dispatch", receiptRefs |-> {"handed"}]]]

\* dispatch and rival want the same slot; only dispatch's attempt is bound.
Sharing ==
    LET all == {"prepare", "dispatch", "rival"} users == {"dispatch", "rival"} IN Common(
    [o \in all |->
        CASE o = "prepare" -> Operation("local-preparation", {}, {}, "work", None)
          [] o = "dispatch" -> Operation("local-effect", {}, {"handed", "released"}, "effect", CensusBoundary)
          [] o = "rival" -> Operation("local-effect", {}, {}, "effect", SlotBoundary(Slot))],
    [g \in {"slot"} |-> Gate({"attempt", "acquired", "held", "mandate"}, users, all)],
    [r \in {"attempt", "acquired", "held", "handed", "released", "mandate", "domain"} |->
        CASE r = "mandate" -> Receipt("board", "charter", users)
          [] r = "domain" -> [Receipt("lab", "accept", users) EXCEPT !.schemaType = "coverage",
               !.role = [kind |-> "observation-coverage-domain", operationRef |-> "dispatch",
                         factRef |-> "idle", primitiveRef |-> "census",
                         coverageKind |-> "all-owner-uid-processes", primitiveIdentityPin |-> "digest"]]
          [] r = "attempt" -> [Receipt("lab", "accept", users) EXCEPT !.schemaType = "attempt",
               !.artifactIdentity = "pin",
               !.role = [kind |-> "operation-attempt-binding", bindingRef |-> "attempt-1",
                         operationRef |-> "dispatch", supervisorOwnerRef |-> "team",
                         identitySourceRef |-> "repo", identityPin |-> "pin"]]
          [] OTHER ->
               LET p == CASE r = "acquired" -> "acquisition" [] r = "held" -> "hold"
                          [] r = "handed" -> "handoff" [] r = "released" -> "release"
               IN  [(IF p \in CurrentPhases THEN Receipt("lab", "accept", users)
                     ELSE Owed("lab", "accept", users))
                    EXCEPT !.schemaType = "phase", !.role = PhaseRole("slot", Slot, p)]])

\* The edits, applied wherever the entry exists.
Set(collection, ids, field, values) == {collection} \X ids \X {field} \X values
Edits ==
    Set("owners", {"team", "lab", "board"}, "status", {"unresolved", "resolved"})
    \cup Set("authorities", {"effect", "accept", "charter"}, "status", {"unresolved", "established"})
    \cup Set("authorities", {"accept", "charter", "effect", "work"}, "evidenceRefs",
             {<<>>, <<"mandate">>, <<"built">>, <<"result", "mandate">>})
    \cup Set("authorities", {"effect"}, "authorizedPrincipalRefs", {{}})
    \cup Set("receipts", {"built", "result", "mandate", "attempt"}, "disposition",
             {"externally-accepted", "failed"})
    \cup Set("receipts", {"result", "held", "handed"}, "custodyStatus", {"missing", "recorded"})
    \cup Set("receipts", {"built", "mandate", "result"}, "downstreamConsumers",
             {{}, {"prepare", "dispatch", "sweep"}})
    \cup Set("receipts", {"held"}, "issuerOwnerRef", {"team"})
    \cup Set("gates", {"inputs", "custody"}, "status", {"unresolved", "satisfied"})
    \cup Set("gates", {"inputs", "slot"}, "requiredReceiptRefs",
             {{"built"}, {"built", "mandate", "result"}, {"attempt", "acquired"}})
    \cup Set("gates", {"inputs"}, "kind", {"owner"})
    \cup Set("gates", {"inputs"}, "timeBoundary",
             {[clockContractRef |-> "rfc3339-utc", notBefore |-> 1, assessment |-> "reached"]})
    \cup Set("operations", {"dispatch", "sweep"}, "requiredReceiptRefs", {{}, {"built", "result"}})
    \cup Set("operations", {"dispatch"}, "producedReceiptRefs", {{}, {"built"}, {"handed"}})
    \cup Set("operations", {"prepare"}, "producedReceiptRefs", {{}, {"result"}, {"held"}})
    \cup Set("operations", {"dispatch"}, "invocationBinding", {None})
    \cup Set("operations", {"prepare", "dispatch"}, "executionBoundary",
             {Undeclared, None, HelperBoundary,
              [PlainBoundary("team", "effect", "result") EXCEPT !.status = "unresolved",
               !.unresolvedReason = "why"]})
    \cup Set("operations", {"rival"}, "executionBoundary",
             {PlainBoundary("team", "effect", "released"),
              SlotBoundary([Slot EXCEPT !.relevantOperationRefs = {"rival"},
                                        !.honoringOperationRefs = {"rival"}]),
              SlotBoundary([Slot EXCEPT !.phases["acquisition"].predicate = "before-dispatch"]),
              SlotBoundary([Slot EXCEPT !.attemptBinding.id = "attempt-2"])})
    \cup Set("credentials", {"token"}, "readiness", {"absent", "present"})
    \cup Set("resourceRules", {"disk"}, "status", {"unknown"})
    \cup Set("resourceRules", {"disk"}, "observedAvailable", {None, 3})
    \cup Set("privacyEgress", {"egress"}, "status", {"denied", "satisfied"})
    \cup Set("authorities", {"disclose"}, "evidenceRefs", {<<"mandate">>})
    \cup Set("cleanupRules", {"scratch"}, "regenerable", {FALSE})

Parts ==
    {<<"interfaceClosure", Undeclared>>,
     <<"interfaceClosure", [Waiting.interfaceClosure EXCEPT !.gateRefs = {}]>>,
     <<"assessment", [verification |-> "not-verified", sourcePin |-> None]>>,
     <<"ownerDecisions", [x \in {"who"} |->
        [ownerRef |-> "team", kind |-> "owner-supplied-fact", choices |-> {},
         affectedOperations |-> {"dispatch"}]]>>}

MCDrafts == {Waiting, Sharing}
=============================================================================
