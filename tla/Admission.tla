------------------------------ MODULE Admission ------------------------------
(***************************************************************************)
(* Admission: a client's request for capabilities, from the HTTP route that  *)
(* correlates it with verified principals (kiteframe-provider-http), through *)
(* AdmissionService::admit (kiteframe-provider/src/admission.rs), which asks *)
(* the OpenFGA relationship client (kiteframe-openfga) about every resource  *)
(* and intersects the deployment's authority planes, to the grant set kept   *)
(* in memory and answered to the client.                                    *)
(*                                                                          *)
(* Digests are the records they digest: an admission's digest is the         *)
(* admission, and the id of a request stands for all of it.  An action is what an admit does     *)
(* from one await to the next; a request that a guard refuses leaves no      *)
(* trace, and its admit starts over as another.                             *)
(***************************************************************************)
EXTENDS Authority

CONSTANTS
    Admits,         \* the admissions that can be under way at a time
    Deployments,    \* what the provider can be deployed as, by name
    Requests,       \* the admission requests clients make, by id
    Credentials,    \* what the deployment's verifiers can return
    Relations,      \* what the relationship store can contain
    MaxTime,        \* bound on the clock
    MaxAdmissions,  \* bound on the admissions a running provider keeps
    MaxAnswers      \* bound on the grant sets clients have been answered

Domains == {"package", "deployment", "human", "workload", "task", "session"}

Requested(request) == request.required \cup request.optional

-----------------------------------------------------------------------------
(* What a deployment and a request are checked for when they are made.       *)

\* OpenFgaConfig::revision_set.
ReservedSources == {"openfga-model", "openfga-store", "tenant-policy"}

UniqueSources(revisions) ==
    \A r, s \in revisions : r.source = s.source => r = s

\* AdmissionService::try_new, and the backend the deployment configures.
WellDeployed(d) ==
    /\ d.issued < d.expires
    /\ d.catalog.issued <= d.issued
    /\ d.catalog.expires # Unset => d.expires <= d.catalog.expires
    /\ d.registry = d.catalog.descriptors
    /\ UniqueSources({s.revision : s \in d.sources})
    /\ \A s, t \in d.sources :
          s # t => DOMAIN s.planes \cap DOMAIN t.planes = {}
    /\ UniqueSources(d.backend)
    /\ \A source \in ReservedSources : \E r \in d.backend : r.source = source

\* DelegationAncestry::try_new: one path that visits no agent twice.
WellDelegated(ancestry) ==
    /\ \A n \in DOMAIN ancestry : ancestry[n].parent # ancestry[n].child
    /\ \A n \in DOMAIN ancestry \ {1} : ancestry[n].parent = ancestry[n - 1].child
    /\ \A m, n \in DOMAIN ancestry :
          /\ m # n => ancestry[m].child # ancestry[n].child
          /\ ancestry[1].parent # ancestry[n].child

\* AdmissionRequest::try_new, which decoding a request goes through.
WellRequested(request) ==
    /\ WellDelegated(request.ancestry)
    /\ \A p, q \in Requested(request) : p.capability = q.capability => p = q
    /\ {p.capability : p \in request.required}
          \cap {p.capability : p \in request.optional} = {}
    /\ \A p \in Requested(request) : \E n \in DOMAIN request.requirements :
          /\ request.requirements[n].capability = p.capability
          /\ ContractCovered(p.resources, request.requirements[n].resources)

\* What the types of terms, deployments and requests allow.
WellTyped(term) ==
    term.allow => /\ WellLimited(term.grant)
                  /\ term.grant.expires \in Nat
                  /\ term.grant.resources \subseteq Selectors

ASSUME AdmissionAssumption ==
    /\ Unset \notin Nat
    /\ \A name \in DOMAIN Deployments :
          LET d == Deployments[name]
          IN /\ WellDeployed(d)
             /\ d.expires \in Nat
             /\ IsFiniteSet(d.sources)
             /\ \A s \in d.sources :
                   /\ DOMAIN s.planes \subseteq Domains
                   /\ \A domain \in DOMAIN s.planes :
                         /\ IsFiniteSet(s.planes[domain])
                         /\ \A term \in s.planes[domain] : WellTyped(term)
    /\ \A id \in DOMAIN Requests :
          LET requirements == Requests[id].requirements
          IN /\ WellRequested(Requests[id])
             /\ Len(requirements) \in Nat
             /\ DOMAIN requirements = 1 .. Len(requirements)
             /\ \A n \in DOMAIN requirements :
                   /\ WellLimited(requirements[n].descriptor)
                   /\ requirements[n].resources \subseteq Selectors
             /\ \A p \in Requested(Requests[id]) : p.resources \subseteq Selectors

VARIABLES
    now,            \* the clocks of the service and of its OpenFGA client
    deployment,     \* what the running provider is deployed as
    relation,       \* the relationship store: who may use what on which object
    admissions,     \* the service's map of persisted admissions
    answered,       \* the admissions clients have been answered, in any run
    admits          \* where each admission under way stands

admissionVars == <<now, deployment, relation, admissions, answered, admits>>

Idle == [pc |-> "idle"]

Running == Deployments[deployment]

-----------------------------------------------------------------------------
(* Principals.                                                              *)

\* correlate_principals: the credentials are of one tenant, stand for the
\* parties the request names, and have not expired at the given time.
Correlates(credential, party, at) ==
    /\ credential.human.tenant = credential.workload.tenant
    /\ credential.human.actor = party.actor
    /\ credential.workload.agent = party.agent
    /\ credential.workload.task = party.task
    /\ credential.workload.session = party.session
    /\ at < credential.human.expires
    /\ at < credential.workload.expires

\* The AuthenticatedInvocationContext made of them.
Principals(credential) ==
    [human   |-> credential.human.human,
     actor   |-> credential.human.actor,
     agent   |-> credential.workload.agent,
     expires |-> Min({credential.human.expires, credential.workload.expires})]

\* authenticate_provider_request: both credentials are of one tenant.
Authenticated(credential) == credential.human.tenant = credential.workload.tenant

\* validate_admission_principals: the request names the parties of the
\* credentials, and agents that the workload may have been delegated by.
Presents(credential, request) ==
    LET ancestry == request.ancestry
    IN /\ credential.human.actor = request.actor
       /\ credential.workload.agent = request.agent
       /\ credential.workload.task = request.task
       /\ credential.workload.session = request.session
       /\ \A n \in DOMAIN ancestry :
             {ancestry[n].parent, ancestry[n].child}
                 \subseteq credential.delegates \cup {credential.workload.agent}
       /\ ancestry # <<>> => ancestry[Len(ancestry)].child = request.agent

\* authenticated_admission_context: an admission is correlated at the time the
\* deployment's grants are issued, and not at the time of the request.
CorrelatesAdmission(credential, request) ==
    Correlates(credential, request, Running.issued)

-----------------------------------------------------------------------------
(* The relationship client.                                                 *)

\* require_fresh_authority, before each question it puts.
FreshAuthority(principals, loaded) ==
    /\ loaded = Running.backend
    /\ now < principals.expires

\* What the store answers: list-objects names the selector's text as an
\* object, a wildcard like any other; check names the concrete resource.
Related(principals, capability, selector) ==
    <<principals.actor, capability, selector>> \in relation

-----------------------------------------------------------------------------
(* The admission service.                                                   *)

\* validate_request_locks: the client's locks are the registry's.
LocksMatch(request) ==
    /\ \A n \in DOMAIN request.requirements :
          LET r == request.requirements[n]
          IN /\ r.capability \in DOMAIN Running.registry
             /\ r.descriptor = Running.registry[r.capability]
    /\ \A m, n \in DOMAIN request.requirements : m # n =>
          request.requirements[m].capability # request.requirements[n].capability

\* validate_requirement_mapping: one requirement for each entry.
MapsOneToOne(request) ==
    /\ Len(request.requirements) =
          Cardinality(request.required) + Cardinality(request.optional)
    /\ \A n \in DOMAIN request.requirements :
          LET r == request.requirements[n]
          IN \E p \in IF r.required THEN request.required ELSE request.optional :
                p.capability = r.capability

SourceRevisions(d) == {s.revision : s \in d.sources}

FaultyTermMatches(term, capability) ==
    term.allow /\ term.grant.capability = capability

\* The terms of every plane that bear on a capability: an allow is of one
\* version, a deny is of a name.
TermMatches(term, capability) ==
    IF term.allow THEN term.grant.capability = capability
                  ELSE term.name = capability.name

PlaneTerms(d, capability) ==
    [domain \in Domains |->
        UNION {{t \in s.planes[domain] : TermMatches(t, capability)} :
                  s \in {x \in d.sources : domain \in DOMAIN x.planes}}]

RequestBoundary(requirement, requested, expires) ==
    [capability    |-> requirement.capability,
     resources     |-> requested.resources,
     modes         |-> requirement.descriptor.modes,
     effect        |-> requirement.descriptor.effect,
     expires       |-> expires,
     evidence      |-> requirement.descriptor.evidence,
     freshness     |-> requirement.descriptor.freshness,
     preconditions |-> requirement.descriptor.preconditions]

\* admit_capability.
AdmitCapability(d, requested, requirement) ==
    LET planes == PlaneTerms(d, requested.capability)
        stated == UNION {{domain} \X planes[domain] : domain \in Domains}
        boundary == <<"request", Allow(RequestBoundary(requirement, requested,
                                                       d.expires))>>
    IN CASE \E domain \in Domains : planes[domain] = {} -> Absent
         [] requested.resources = {} -> Refused("precondition")
         [] OTHER -> IntersectAuthority(requirement,
                         [term \in stated \cup {boundary} |-> term[2]])

Requirement(admit) == Requests[admit.request].requirements[admit.at]

RequestedFor(admit) ==
    CHOOSE p \in Requested(Requests[admit.request]) :
        p.capability = Requirement(admit).capability

\* The resources to ask about for the requirement admit.at, if there is one.
AtRequirement(admit, at) ==
    LET next == [admit EXCEPT !.at = at]
    IN IF at > Len(Requests[admit.request].requirements)
         THEN [next EXCEPT !.pc = "persist"]
         ELSE [next EXCEPT !.pc = "ask", !.left = RequestedFor(next).resources]

\* The loop's body once it is known whether every resource is admissible:
\* a required capability is granted or the admission fails; an optional one
\* is granted or denied.
Decide(d, admit, admissible) ==
    LET outcome == IF admissible
                     THEN AdmitCapability(d, RequestedFor(admit), Requirement(admit))
                     ELSE Absent
    IN CASE outcome.status = "granted" ->
              AtRequirement([admit EXCEPT !.grants = @ \cup {outcome.grant}],
                            admit.at + 1)
         [] /\ ~Requirement(admit).required
            /\ outcome \in {Absent, Refused("denied")} ->
              AtRequirement([admit EXCEPT !.denials =
                                @ \cup {Requirement(admit).capability}],
                            admit.at + 1)
         [] OTHER -> Idle

\* The CapabilityGrantSet.  The locks kept beside it are its request's.
GrantSet(d, admit) ==
    [request   |-> admit.request,
     revisions |-> admit.revisions,
     issued    |-> d.issued,
     expires   |-> d.expires,
     grants    |-> admit.grants,
     denials   |-> admit.denials]

GrantsFor(grantSet, capability) ==
    {g \in grantSet.grants : g.capability = capability}

\* CapabilityGrantSet::validate_against its request.
ValidatesAgainst(grantSet, request) ==
    LET denied(p) == grantSet.denials \cap {p.capability}
        grants(p) == GrantsFor(grantSet, p.capability)
    IN /\ \A p \in request.required : Cardinality(grants(p)) = 1
       /\ \A p \in request.optional :
             Cardinality(grants(p)) + Cardinality(denied(p)) = 1
       /\ grantSet.denials \subseteq {p.capability : p \in request.optional}
       /\ \A g \in grantSet.grants :
             /\ \E p \in Requested(request) :
                   /\ p.capability = g.capability
                   /\ ContractCovered(g.resources, p.resources)
             /\ \E n \in DOMAIN request.requirements :
                   /\ request.requirements[n].capability = g.capability
                   /\ GrantNarrows(g, request.requirements[n].descriptor,
                                   grantSet.expires)

-----------------------------------------------------------------------------
(* admit, from await to await.                                              *)

Advance(a, admit) == admits' = [admits EXCEPT ![a] = admit]

\* POST /v1/capability-admissions up to the backend's revisions.
Admit(a, id, credential) ==
    LET request == Requests[id] IN
    /\ admits[a] = Idle
    /\ Cardinality(admissions) < MaxAdmissions
    /\ Authenticated(credential)
    /\ Presents(credential, request)
    /\ CorrelatesAdmission(credential, request)
    /\ request.catalog = Running.catalog.id
    /\ LocksMatch(request)
    /\ MapsOneToOne(request)
    /\ Advance(a, [pc |-> "revisions", request |-> id,
                   principals |-> Principals(credential), revisions |-> {},
                   at |-> 0, asked |-> {}, left |-> {}, grants |-> {},
                   denials |-> {}])
    /\ UNCHANGED <<now, deployment, relation, admissions, answered>>

ReadRevisions(a) ==
    /\ admits[a].pc = "revisions"
    /\ Advance(a, IF Running.backend = SourceRevisions(Running)
                    THEN AtRequirement([admits[a] EXCEPT
                                            !.revisions = Running.backend], 1)
                    ELSE Idle)
    /\ UNCHANGED <<now, deployment, relation, admissions, answered>>

\* list_admissible sends its question, if the client is fresh.
Ask(a) ==
    /\ admits[a].pc = "ask"
    /\ \E selector \in admits[a].left :
          Advance(a, IF FreshAuthority(admits[a].principals, admits[a].revisions)
                       THEN [admits[a] EXCEPT !.pc = "listing",
                                !.asked = {selector}, !.left = @ \ {selector}]
                       ELSE Idle)
    /\ UNCHANGED <<now, deployment, relation, admissions, answered>>

\* A requirement whose entry names no resource has nothing to ask about.
AskNothing(a) ==
    /\ admits[a].pc = "ask"
    /\ admits[a].left = {}
    /\ Advance(a, Decide(Running, admits[a], TRUE))
    /\ UNCHANGED <<now, deployment, relation, admissions, answered>>

Answered(a) ==
    /\ admits[a].pc = "listing"
    /\ LET answer == [admits[a] EXCEPT !.pc = "ask", !.asked = {}]
           capability == Requirement(answer).capability
           admissible == \A s \in admits[a].asked :
                            Related(answer.principals, capability, s)
       IN Advance(a, IF admissible /\ answer.left # {}
                       THEN answer
                       ELSE Decide(Running, answer, admissible))
    /\ UNCHANGED <<now, deployment, relation, admissions, answered>>

Persist(a) ==
    /\ admits[a].pc = "persist"
    /\ LET grantSet == GrantSet(Running, admits[a])
       IN /\ Cardinality(answered \cup {grantSet}) <= MaxAnswers
          /\ IF ValidatesAgainst(grantSet, Requests[admits[a].request])
               THEN /\ admissions' = admissions \cup {grantSet}
                    /\ answered' = answered \cup {grantSet}
               ELSE UNCHANGED <<admissions, answered>>
    /\ Advance(a, Idle)
    /\ UNCHANGED <<now, deployment, relation>>

\* The store cannot be reached or answers badly, or the task is dropped.
AdmitFails(a) ==
    /\ admits[a].pc \in {"revisions", "listing"}
    /\ Advance(a, Idle)
    /\ UNCHANGED <<now, deployment, relation, admissions, answered>>

AdmitStep(a) ==
    \/ \E id \in DOMAIN Requests, credential \in Credentials :
          Admit(a, id, credential)
    \/ ReadRevisions(a)
    \/ Ask(a) \/ AskNothing(a) \/ Answered(a)
    \/ Persist(a)
    \/ AdmitFails(a)

-----------------------------------------------------------------------------
(* What surrounds the provider.                                             *)

Tick ==
    /\ now < MaxTime
    /\ now' = now + 1
    /\ UNCHANGED <<deployment, relation, admissions, answered, admits>>

Relate ==
    /\ relation' \in Relations \ {relation}
    /\ UNCHANGED <<now, deployment, admissions, answered, admits>>

\* The provider stops and is deployed anew.  Admissions are kept in memory.
Redeploy ==
    /\ deployment' \in DOMAIN Deployments
    /\ admissions' = {}
    /\ admits' = [a \in Admits |-> Idle]
    /\ UNCHANGED <<now, relation, answered>>

AdmissionInit ==
    /\ now = 0
    /\ deployment \in DOMAIN Deployments
    /\ relation \in Relations
    /\ admissions = {}
    /\ answered = {}
    /\ admits = [a \in Admits |-> Idle]

-----------------------------------------------------------------------------
(* For the properties of what is built on admission.                        *)

\* What the planes of the deployment say of a capability, read off the planes
\* themselves and not through admission.
AllPlanes == UNION {{s.planes[d] : d \in DOMAIN s.planes} : s \in Running.sources}
DeniedSomewhere(capability) ==
    \E plane \in AllPlanes : Deny(capability.name) \in plane
Allowed(capability) ==
    {t.grant : t \in {x \in UNION AllPlanes : x.allow /\ x.grant.capability = capability}}
=============================================================================
