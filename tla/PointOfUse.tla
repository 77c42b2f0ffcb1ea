----------------------------- MODULE PointOfUse ------------------------------
(***************************************************************************)
(* What an invocation must pass before its operation runs: validate of       *)
(* InvocationService (kiteframe-provider/src/invocation.rs), await by await, *)
(* under the admissions of Admission: the admission is loaded, the grant,    *)
(* the principals, the authority revisions, the evidence, the preconditions  *)
(* and the relationship store are checked in turn, time passes and relations *)
(* and deployments change in between, and an invocation without its evidence *)
(* is suspended and resumed.                                                 *)
(*                                                                          *)
(* A use is an invoke or a resume under way.  A dispatch is where a read     *)
(* executes and where an effect is handed to execute_effect, whose own steps *)
(* are those of EffectInvocation; of the invocation store only what a        *)
(* suspension leaves there is kept.  A checkpoint is its proposal's, whose   *)
(* random part EffectInvocation follows.                                     *)
(***************************************************************************)
EXTENDS Admission

CONSTANTS
    Uses,           \* the invocations that can be under way at a time
    Invocations,    \* what clients ask for: id, capability, resource, preconditions
    EvidenceLife,   \* how long evidence is valid
    MaxEvidence     \* bound on the pieces of evidence issued

ASSUME UseAssumption == \A i \in Invocations : i.resource \in Selectors

VARIABLES
    evidence,       \* the evidence issued so far, by its reference
    stored,         \* the invocation store's rows
    pending,        \* the service's map of suspended invocations
    uses,           \* where each use stands
    seen,           \* history: the relations since each use's question
    dispatched      \* history: the dispatch since the last use began

useVars == <<evidence, stored, pending, uses, seen, dispatched>>
vars == <<admissionVars, useVars>>

-----------------------------------------------------------------------------
(* An invocation request, its admission and its proposal.                    *)

\* The locked descriptor and the grant of the capability, in the admission.
Descriptor(request) ==
    LET requirements == Requests[request.admission.request].requirements
    IN requirements[CHOOSE n \in DOMAIN requirements :
                        requirements[n].capability = request.capability].descriptor

Grants(request) == GrantsFor(request.admission, request.capability)
Grant(request) == CHOOSE g \in Grants(request) : TRUE

\* EffectProposal digests all of a request but its evidence references.
Proposal(request) ==
    [id            |-> request.id,
     admission     |-> request.admission,
     capability    |-> request.capability,
     resource      |-> request.resource,
     preconditions |-> request.preconditions]

Snapshot(request) ==
    [admission |-> request.admission, grant |-> Grant(request),
     descriptor |-> Descriptor(request)]

\* load, locked_capability, InvocationAdmission::try_new and effective_grant.
Loads(request) ==
    /\ request.admission \in admissions
    /\ LET requirements == Requests[request.admission.request].requirements
       IN \E n \in DOMAIN requirements :
             requirements[n].capability = request.capability
    /\ Cardinality(Grants(request)) = 1

\* The grant still is what admission made of it, and has not expired.
GrantStands(request, at) ==
    /\ GrantNarrows(Grant(request), Descriptor(request), request.admission.expires)
    /\ at < request.admission.expires
    /\ at < Grant(request).expires

Permits(request, mode) ==
    mode \in Descriptor(request).modes \cap Grant(request).modes

ModesStand(request) ==
    /\ Descriptor(request).effect <= Grant(request).effect
    /\ Descriptor(request).effect = ReadOnly => Permits(request, "immediate")

\* validate_freshness, once the revisions are known to be the admitted ones.
FreshEnough(request, at) ==
    LET freshness == Grant(request).freshness
    IN /\ Descriptor(request).freshness.policy => freshness.policy
       /\ freshness.age # Unset =>
             /\ request.admission.issued <= at
             /\ at - request.admission.issued <= freshness.age
       /\ freshness.input = Unset

\* validate_resource, without the descriptor's schema of selectors.
ResourceStands(request) ==
    /\ IsConcrete(request.resource)
    /\ Covered({request.resource}, Grant(request).resources)

RequiredNames(preconditions) == {p.name : p \in {q \in preconditions : q.required}}

\* validate_required_preconditions.
PreconditionsSupplied(request) ==
    RequiredNames(Grant(request).preconditions \cup Descriptor(request).preconditions)
        \subseteq request.preconditions

\* The kinds of evidence the grant requires, and the first to be looked for.
RequiredEvidence(request) ==
    {kind \in Evidences : Grant(request).evidence[kind] # Unset}

EvidenceOrder == [confirmation |-> 1, approval |-> 2, consent |-> 3]

First(kinds) ==
    CHOOSE k \in kinds : \A j \in kinds : EvidenceOrder[k] <= EvidenceOrder[j]

\* What a request refers to for a kind: evidence is looked up by requirement.
Referred(request, kind) ==
    {e \in request.evidence : e.requirement = Grant(request).evidence[kind]}

\* validate_verified_evidence.
FaultyEvidenceVerified(e, request, kind, principals, at) ==
    e.kind = kind /\ e.issued <= at /\ at < e.expires

EvidenceVerified(e, request, kind, principals, at) ==
    /\ e.kind = kind
    /\ e.requirement = Grant(request).evidence[kind]
    /\ kind \in {"confirmation", "consent"} => e.subject = principals.human
    /\ e.issued <= at
    /\ at < e.expires
    /\ e.proposal = Proposal(request)

-----------------------------------------------------------------------------
(* Steps of a use and the lease of a resume.                                *)

Goto(u, pc) == [uses[u] EXCEPT !.pc = pc]

NewUse(request, suspension, pc) ==
    [pc |-> pc, request |-> request, suspension |-> suspension, leased |-> {},
     started |-> 0, principals |-> {}, revisions |-> {}, left |-> {},
     decision |-> "none", decidedAt |-> 0]

Resumed(use) == use.suspension # {}

\* A step from one await to the next that reads and changes nothing else.
Proceed(u, use) ==
    /\ uses' = [uses EXCEPT ![u] = use]
    /\ UNCHANGED <<admissionVars, evidence, stored, pending, seen, dispatched>>

\* finish_resume: a lease ends with its use, and only an error that may be
\* retried leaves the suspension to another resume.
Released(use, retry) ==
    {p \in pending : p \notin use.leased} \cup
        IF retry THEN {[p EXCEPT !.busy = FALSE] : p \in use.leased} ELSE {}

Finish(u, retry) ==
    /\ uses' = [uses EXCEPT ![u] = Idle]
    /\ seen' = [seen EXCEPT ![u] = {}]
    /\ pending' = Released(uses[u], retry)

Fail(u, retry) ==
    /\ Finish(u, retry)
    /\ UNCHANGED <<admissionVars, evidence, stored, dispatched>>

Begin(u, use) ==
    /\ uses[u] = Idle
    /\ uses' = [uses EXCEPT ![u] = use]
    /\ dispatched' = {}
    /\ UNCHANGED <<admissionVars, evidence, stored, seen>>

\* The requests of clients that have been answered an admission and hold
\* evidence for the invocation, at most one piece for a requirement.
EvidenceFor(invocation) ==
    {s \in SUBSET {e \in evidence : e.proposal.id = invocation.id} :
        \A e, f \in s : e.requirement = f.requirement => e = f}

ClientRequests ==
    UNION {{[id |-> i.id, capability |-> i.capability, resource |-> i.resource,
             preconditions |-> i.preconditions, admission |-> a, evidence |-> refs] :
                a \in answered, refs \in EvidenceFor(i)} : i \in Invocations}

\* POST /v1/capability-invocations/{name}.
Invoke(u, request, credential) ==
    /\ Authenticated(credential)
    /\ credential.workload.admission = request.admission.request
    /\ Begin(u, NewUse(request, {}, "validate"))
    /\ UNCHANGED pending

PendingFor(suspension) == {p \in pending : p.suspension = suspension}

Taken(u, lease) ==
    pending' = (pending \ {lease}) \cup {[lease EXCEPT !.busy = TRUE]}

\* resume with begin_resume: the lease is taken, or the suspension must be
\* restored from the store.
Resume(u, request, suspension) ==
    LET use == NewUse(request, {suspension}, "validate")
    IN \/ \E lease \in PendingFor(suspension) :
             /\ ~lease.busy
             /\ Begin(u, [use EXCEPT !.leased = {[lease EXCEPT !.busy = TRUE]}])
             /\ Taken(u, lease)
       \/ /\ PendingFor(suspension) = {}
          /\ Begin(u, [use EXCEPT !.pc = "restore"])
          /\ UNCHANGED pending

\* restore_durable_suspension up to the verification of the principals.
Restore(u) ==
    /\ uses[u].pc = "restore"
    /\ IF Loads(uses[u].request)
          /\ uses[u].suspension = {Proposal(uses[u].request)}
         THEN Proceed(u, [uses[u] EXCEPT !.pc = "restoring", !.started = now])
         ELSE Fail(u, FALSE)

AdmittedParty(request) == Requests[request.admission.request]

\* verify and correlate_principals, for the admission's parties.
Verified(credential, request, at) ==
    /\ Correlates(credential, AdmittedParty(request), at)
    /\ credential.workload.admission = request.admission.request

StatusContext(credential) ==
    <<credential.human.human, credential.human.actor, credential.workload>>

\* The rest of it: the row is suspended as presented, in its own context, and
\* the suspension becomes pending again, under the admission as it is now.
RestoreSuspension(u, credential) ==
    LET request == uses[u].request
        restored == [suspension |-> Proposal(request),
                     snapshot |-> Snapshot(request), busy |-> FALSE]
    IN /\ uses[u].pc = "restoring"
       /\ IF /\ Verified(credential, request, uses[u].started)
             /\ \E row \in stored : /\ row.proposal = Proposal(request)
                                    /\ row.state = "suspended"
                                    /\ row.context = StatusContext(credential)
             /\ \A p \in PendingFor(Proposal(request)) : ~p.busy
            THEN /\ uses' = [uses EXCEPT ![u] = Goto(u, "lease")]
                 /\ pending' = IF PendingFor(Proposal(request)) = {}
                                 THEN pending \cup {restored}
                                 ELSE pending
                 /\ UNCHANGED <<admissionVars, evidence, stored, seen, dispatched>>
            ELSE Fail(u, FALSE)

\* begin_resume again.
TakeLease(u) ==
    /\ uses[u].pc = "lease"
    /\ IF \E p \in PendingFor(Proposal(uses[u].request)) : ~p.busy
         THEN LET lease == CHOOSE p \in PendingFor(Proposal(uses[u].request)) : TRUE
              IN /\ uses' = [uses EXCEPT ![u] = [@ EXCEPT !.pc = "validate",
                                 !.leased = {[lease EXCEPT !.busy = TRUE]}]]
                 /\ Taken(u, lease)
                 /\ UNCHANGED <<admissionVars, evidence, stored, seen, dispatched>>
         ELSE Fail(u, FALSE)

-----------------------------------------------------------------------------
(* validate.                                                                *)

\* Up to the verification of the principals.
Validate(u) ==
    LET request == uses[u].request
    IN /\ uses[u].pc = "validate"
       /\ IF /\ Loads(request)
             /\ \A p \in uses[u].leased : p.snapshot = Snapshot(request)
             /\ GrantStands(request, now)
             /\ ModesStand(request)
            THEN Proceed(u, [uses[u] EXCEPT !.pc = "verify", !.started = now])
            ELSE Fail(u, FALSE)

Verify(u, credential) ==
    /\ uses[u].pc = "verify"
    /\ IF Verified(credential, uses[u].request, uses[u].started)
         THEN Proceed(u, [uses[u] EXCEPT !.pc = "revisions",
                 !.principals = [Principals(credential) EXCEPT
                                    !.agent = StatusContext(credential)]])
         ELSE Fail(u, FALSE)

\* The proposal a resume makes must be the one that was suspended.
ProposalStands(use) == Resumed(use) => use.suspension = {Proposal(use.request)}

\* The backend's revisions, freshness, resource and proposal.
CheckFreshness(u) ==
    LET request == uses[u].request
    IN /\ uses[u].pc = "revisions"
       /\ CASE \/ Running.backend # request.admission.revisions
               \/ ~FreshEnough(request, uses[u].started) -> Fail(u, TRUE)
            [] ~(ResourceStands(request) /\ ProposalStands(uses[u])) -> Fail(u, FALSE)
            [] OTHER ->
                 Proceed(u, [uses[u] EXCEPT !.pc = "evidence",
                                !.revisions = Running.backend,
                                !.left = RequiredEvidence(request)])

\* validate_evidence, a kind at a time.  Without its evidence an invocation is
\* suspended if that is allowed, and a resumed one must be retried.
CheckEvidence(u) ==
    LET request == uses[u].request
        left == uses[u].left
        kind == First(left)
        referred == Referred(request, kind)
    IN /\ uses[u].pc = "evidence"
       /\ CASE left = {} -> Proceed(u, Goto(u, "preconditions"))
            [] left # {} /\ referred = {} ->
                 IF ~Resumed(uses[u]) /\ Permits(request, "suspendable")
                    /\ Descriptor(request).effect # ReadOnly
                   THEN Proceed(u, Goto(u, "suspend"))
                   ELSE Fail(u, Resumed(uses[u]))
            [] OTHER ->
                 IF \A e \in referred : EvidenceVerified(e, request, kind,
                                            uses[u].principals, uses[u].started)
                   THEN Proceed(u, [uses[u] EXCEPT !.left = left \ {kind}])
                   ELSE Fail(u, TRUE)

RowsOf(request) == {row \in stored : row.proposal.id = request.id}

\* persist_suspension: the row is reserved and suspended.
PersistSuspension(u) ==
    LET request == uses[u].request
    IN /\ uses[u].pc = "suspend"
       /\ IF RowsOf(request) = {}
            THEN /\ stored' = stored \cup
                      {[proposal |-> Proposal(request), state |-> "suspended",
                        context |-> uses[u].principals.agent,
                        snapshot |-> Snapshot(request)]}
                 /\ uses' = [uses EXCEPT ![u] = Goto(u, "publish")]
                 /\ UNCHANGED <<admissionVars, evidence, pending, seen, dispatched>>
            ELSE Fail(u, FALSE)

\* The suspension becomes pending in memory and is answered.
Publish(u) ==
    LET request == uses[u].request
    IN /\ uses[u].pc = "publish"
       /\ uses' = [uses EXCEPT ![u] = Idle]
       /\ seen' = [seen EXCEPT ![u] = {}]
       /\ pending' = IF PendingFor(Proposal(request)) = {}
                       THEN pending \cup {[suspension |-> Proposal(request),
                              snapshot |-> Snapshot(request), busy |-> FALSE]}
                       ELSE pending
       /\ UNCHANGED <<admissionVars, evidence, stored, dispatched>>

\* The operation's own check of the preconditions may refuse them.
CheckPreconditions(u) ==
    /\ uses[u].pc = "preconditions"
    /\ \/ PreconditionsSupplied(uses[u].request) /\ Proceed(u, Goto(u, "ask"))
       \/ Fail(u, TRUE)

\* check: the client's own clock decides when the decision was made.
AskCheck(u) ==
    /\ uses[u].pc = "ask"
    /\ IF FreshAuthority(uses[u].principals, uses[u].revisions)
         THEN /\ uses' = [uses EXCEPT ![u] = [@ EXCEPT !.pc = "checking",
                                                       !.decidedAt = now]]
              /\ seen' = [seen EXCEPT ![u] = relation]
              /\ UNCHANGED <<admissionVars, evidence, stored, pending, dispatched>>
         ELSE Fail(u, FALSE)

\* The relationship store decides, and its answer is on its way.
Evaluate(u) ==
    /\ uses[u].pc = "checking"
    /\ Proceed(u, [uses[u] EXCEPT !.pc = "checked", !.decision =
           IF Related(uses[u].principals, uses[u].request.capability,
                      uses[u].request.resource) THEN "allow" ELSE "deny"])

\* validate_final_point_of_use at dispatch_now, evidence apart.
FaultyFinalPointOfUse(use) == use.decision = "allow" /\ use.decidedAt <= now

UndecidedPointOfUse(use) ==
    /\ now < use.request.admission.expires
    /\ now < Grant(use.request).expires
    /\ now < use.principals.expires

FinalPointOfUse(use) ==
    /\ now < use.request.admission.expires
    /\ now < Grant(use.request).expires
    /\ use.decision = "allow"
    /\ use.decidedAt <= now
    /\ now < use.principals.expires

EvidenceStands(use) ==
    \A kind \in RequiredEvidence(use.request) :
        \A e \in Referred(use.request, kind) :
            e.issued <= now /\ now < e.expires

\* execute_effect goes ahead if reserve_or_get finds no row, or the suspended
\* one that it resumes, of the same request and the same principals.
FaultyMayRun(use) == RowsOf(use.request) # {} => Resumed(use)

MayRun(use) ==
    \A row \in RowsOf(use.request) :
        /\ Resumed(use)
        /\ row.state = "suspended"
        /\ row.proposal = Proposal(use.request)
        /\ row.context = use.principals.agent

\* The decision arrives and is checked; a read executes, an effect is handed
\* over, or answered from its row.
Dispatch(u) ==
    LET use == uses[u]
        request == use.request
        effect == Descriptor(request).effect # ReadOnly
    IN /\ use.pc = "checked"
       /\ IF /\ FinalPointOfUse(use)
             /\ EvidenceStands(use)
             /\ effect => Permits(request, "deferred") /\ MayRun(use)
            THEN /\ Finish(u, FALSE)
                 /\ dispatched' = {[request |-> request, at |-> now,
                        principals |-> use.principals,
                        related |-> <<use.principals.actor, request.capability,
                                      request.resource>> \in seen[u],
                        resumes |-> IF Resumed(use) THEN RowsOf(request) ELSE {}]}
                 /\ stored' = IF effect
                      THEN (stored \ RowsOf(request)) \cup
                           {[proposal |-> Proposal(request), state |-> "handed",
                             context |-> use.principals.agent,
                             snapshot |-> Snapshot(request)]}
                      ELSE stored
                 /\ UNCHANGED <<admissionVars, evidence>>
            ELSE Fail(u, ~EvidenceStands(use))

\* The task is dropped at an await, or what it awaits fails: of a resume the
\* suspension is pending again.
Drop(u) ==
    /\ uses[u].pc \in {"restoring", "verify", "revisions", "evidence", "suspend",
                       "preconditions", "checking", "checked"}
    /\ Fail(u, TRUE)

UseStep(u) ==
    \/ \E request \in ClientRequests :
          \/ \E credential \in Credentials : Invoke(u, request, credential)
          \/ \E row \in stored : Resume(u, request, row.proposal)
    \/ Restore(u) \/ TakeLease(u)
    \/ \E credential \in Credentials :
          RestoreSuspension(u, credential) \/ Verify(u, credential)
    \/ Validate(u)
    \/ CheckFreshness(u)
    \/ CheckEvidence(u)
    \/ PersistSuspension(u) \/ Publish(u)
    \/ CheckPreconditions(u)
    \/ AskCheck(u) \/ Evaluate(u) \/ Dispatch(u)
    \/ Drop(u)

-----------------------------------------------------------------------------
(* Evidence, and the whole provider.                                        *)

\* Someone gives evidence for what a suspended invocation proposes.
IssueEvidence ==
    /\ Cardinality(evidence) < MaxEvidence
    /\ \E row \in stored, kind \in Evidences, credential \in Credentials :
          /\ row.snapshot.grant.evidence[kind] # Unset
          /\ evidence' = evidence \cup
                {[kind |-> kind, requirement |-> row.snapshot.grant.evidence[kind],
                  subject |-> credential.human.human, proposal |-> row.proposal,
                  issued |-> now, expires |-> now + EvidenceLife]}
    /\ UNCHANGED <<admissionVars, stored, pending, uses, seen, dispatched>>

Init ==
    /\ AdmissionInit
    /\ evidence = {}
    /\ stored = {}
    /\ pending = {}
    /\ uses = [u \in Uses |-> Idle]
    /\ seen = [u \in Uses |-> {}]
    /\ dispatched = {}

Next ==
    \/ \E a \in Admits : AdmitStep(a) /\ UNCHANGED useVars
    \/ \E u \in Uses : UseStep(u)
    \/ IssueEvidence
    \/ Tick /\ UNCHANGED useVars
    \/ /\ Relate
       /\ seen' = [u \in Uses |-> IF uses[u].pc \in {"checking", "checked"}
                                        THEN seen[u] \cup relation' ELSE {}]
       /\ UNCHANGED <<evidence, stored, pending, uses, dispatched>>
    \/ /\ Redeploy
       /\ pending' = {}
       /\ uses' = [u \in Uses |-> Idle]
       /\ seen' = [u \in Uses |-> {}]
       /\ dispatched' = {}
       /\ UNCHANGED <<evidence, stored>>

Spec == Init /\ [][Next]_vars

-----------------------------------------------------------------------------
(* Properties.                                                              *)

Reaches(selectors, resource) == Covered({resource}, selectors)

\* intersect_authority and admit_capability: a grant kept by the running
\* provider is the meet of the request, the locked requirement and every term
\* of its planes.  It reaches a resource exactly if all of them do, narrows
\* each of them, and is of no capability that any plane denies.
GrantsAreMeets ==
    \A set \in admissions : \A grant \in set.grants :
        LET capability == grant.capability
            requirements == Requests[set.request].requirements
            asked == {p \in Requested(Requests[set.request]) : p.capability = capability}
            locked == {n \in DOMAIN requirements :
                          requirements[n].capability = capability}
        IN /\ ~DeniedSomewhere(capability)
           /\ \A term \in Allowed(capability) : GrantSubset(grant, term)
           /\ \A resource \in {i.resource : i \in Invocations} :
                 Reaches(grant.resources, resource) <=>
                    /\ \A p \in asked : Reaches(p.resources, resource)
                    /\ \A n \in locked :
                          Reaches(requirements[n].resources, resource)
                    /\ \A term \in Allowed(capability) :
                          Reaches(term.resources, resource)

\* Every plane of the deployment allows what runs, in its mode, with its
\* effect and at its time, and none denies it.
WithinPlanes(d) ==
    LET request == d.request
        effect == Descriptor(request).effect
    IN /\ ~DeniedSomewhere(request.capability)
       /\ \A s \in Running.sources : \A domain \in DOMAIN s.planes :
             \E t \in s.planes[domain] :
                t.allow /\ t.grant.capability = request.capability
       /\ \A term \in Allowed(request.capability) :
             /\ (IF effect = ReadOnly THEN "immediate" ELSE "deferred")
                   \in term.modes
             /\ effect <= term.effect
             /\ d.at < term.expires

\* admit, validate and execute_effect together: what runs is of a resource, a
\* mode and an effect that every plane of the deployment allows and none
\* denies, whatever the client was answered and however it was resumed.
DispatchedWithinAuthority ==
    \A d \in dispatched :
        /\ WithinPlanes(d)
        /\ \A term \in Allowed(d.request.capability) :
              Reaches(term.resources, d.request.resource)

\* validate from load to validate_final_point_of_use: what runs is of an
\* admission this provider made under the revisions it has, of a concrete
\* resource its grant reaches, before the grant set, the grant and the
\* credentials expire, however many awaits lie between the checks.
DispatchedAsGranted ==
    \A d \in dispatched :
        /\ d.request.admission \in admissions
        /\ d.request.admission.revisions = Running.backend
        /\ ResourceStands(d.request)
        /\ d.at < d.request.admission.expires
        /\ d.at < Grant(d.request).expires
        /\ d.at < d.principals.expires

\* validate_evidence and the recheck at dispatch: evidence a plane demands was
\* given for this very proposal, by the human on whose behalf it runs, and is
\* valid when it runs.
EvidenceBound ==
    \A d \in dispatched : \A term \in Allowed(d.request.capability) :
        \A kind \in {k \in Evidences : term.evidence[k] # Unset} :
            \E e \in d.request.evidence :
                /\ e.kind = kind
                /\ e.requirement = term.evidence[kind]
                /\ e.proposal = Proposal(d.request)
                /\ kind # "approval" => e.subject = d.principals.human
                /\ e.issued <= d.at
                /\ d.at < e.expires

\* OpenFgaAuthorizationBackend::check at point of use: nothing runs whose
\* actor the relationship store related to the resource at no time from the
\* question to the answer.
RevokedNeverDispatched == \A d \in dispatched : d.related

\* begin_resume, restore_durable_suspension and execute_effect: what a resume
\* runs is what was suspended, under the same grant and lock and for the same
\* principals, through restarts and redeployments.
ResumedAsSuspended ==
    \A d \in dispatched : \A row \in d.resumes :
        /\ row.proposal = Proposal(d.request)
        /\ row.snapshot = Snapshot(d.request)
        /\ row.context = d.principals.agent

\* The plan of the enforcement plane: "Policy that is older than the
\* descriptor/admission freshness requirement fails".  validate_freshness
\* compares the admission's age once, before the awaits of validate.
AdmissionAgeKept ==
    \A d \in dispatched :
        LET age == Grant(d.request).freshness.age
        IN age # Unset => d.at - d.request.admission.issued <= age
=============================================================================
