-------------------------- MODULE PointOfUseProofs --------------------------
(***************************************************************************)
(* What PointOfUse promises of a dispatch, for any number of invocations and *)
(* admissions under way, any deployments, requests, credentials, relations   *)
(* and bounds.                                                              *)
(*                                                                          *)
(* The properties are about one step, the dispatch, and rest on checks made  *)
(* several awaits before it.  The invariant says what of each check is still *)
(* true at each later await; a step of one use moves that use along          *)
(* (UseMoves), and whatever the others do meanwhile only adds to what it     *)
(* relies on (Steady), save a redeployment, which ends every use.            *)
(***************************************************************************)
EXTENDS PointOfUse, AdmissionProofs

-----------------------------------------------------------------------------
(* The invariant.                                                           *)

\* A use has the fields NewUse gives it.
UseFields == {"pc", "request", "suspension", "leased", "started", "principals",
              "revisions", "left", "decision", "decidedAt"}
IsUse(use) == use = [field \in UseFields |-> use[field]]

Asked == {"checking", "checked"}
Fresh == {"evidence", "suspend", "publish", "preconditions", "ask"} \cup Asked
Loaded == {"verify", "revisions"} \cup Fresh

Vetted == {"preconditions", "ask"} \cup Asked

Effectful(request) == Descriptor(request).effect # ReadOnly

Question(use) ==
    <<use.principals.actor, use.request.capability, use.request.resource>>

\* There is evidence of these kinds, verified for the principals at a time.
VerifiedFor(kinds, request, principals, at) ==
    \A kind \in kinds :
        /\ Referred(request, kind) # {}
        /\ \A e \in Referred(request, kind) :
              EvidenceVerified(e, request, kind, principals, at)

\* What has been checked for a use and still holds, with the relations of
\* the store since its question.
Sound(use, since) ==
    \/ use = Idle
    \/ /\ IsUse(use)
       /\ \A p \in use.suspension : Effectful(p)
       /\ use.pc \in Loaded => Loads(use.request) /\ ModesStand(use.request)
       /\ use.pc \in Fresh =>
             /\ use.request.admission.revisions = Running.backend
             /\ ResourceStands(use.request)
             /\ ProposalStands(use)
       /\ use.pc = "evidence" =>
             VerifiedFor(RequiredEvidence(use.request) \ use.left, use.request,
                         use.principals, use.started)
       /\ use.pc \in Vetted =>
             VerifiedFor(RequiredEvidence(use.request), use.request,
                         use.principals, use.started)
       /\ use.pc = "suspend" => Effectful(use.request)
       /\ use.pc \in Asked => relation \subseteq since
       /\ use.pc = "checked" /\ use.decision = "allow" => Question(use) \in since

UsesSound ==
    /\ uses = [u \in Uses |-> uses[u]]
    /\ seen = [u \in Uses |-> seen[u]]
    /\ \A u \in Uses : Sound(uses[u], seen[u])

\* A row was made for an effect, and its snapshot is its proposal's.
RowsSound ==
    \A row \in stored : /\ row.snapshot = Snapshot(row.proposal)
                        /\ Effectful(row.proposal)

Promises ==
    /\ DispatchedAsGranted
    /\ DispatchedWithinAuthority
    /\ EvidenceBound
    /\ RevokedNeverDispatched
    /\ ResumedAsSuspended

Inv == UsesSound /\ RowsSound /\ Promises

-----------------------------------------------------------------------------
(* Lemmas.                                                                  *)

\* A proposal determines the grant and the descriptor it is made under.
LEMMA ProposalDecides ==
    ASSUME NEW request
    PROVE  /\ Snapshot(Proposal(request)) = Snapshot(request)
           /\ Effectful(Proposal(request)) <=> Effectful(request)
    BY DEF Proposal, Snapshot, Effectful, Grant, Grants, Descriptor

\* Nothing that a use relies on is taken away.
Steady ==
    /\ admissions \subseteq admissions'
    /\ deployment' = deployment
    /\ relation' = relation

\* validate, from one await to the next: one use moves along and the others
\* stay where they are.
LEMMA UseMoves ==
    ASSUME UsesSound, Steady, NEW u \in Uses, NEW use, NEW since,
           uses' = [uses EXCEPT ![u] = use],
           seen' = [seen EXCEPT ![u] = since],
           Sound(use, since)
    PROVE  UsesSound'
<1>1. /\ uses' = [v \in Uses |-> uses'[v]]
      /\ seen' = [v \in Uses |-> seen'[v]]
      /\ uses'[u] = use /\ seen'[u] = since
      /\ \A v \in Uses \ {u} : uses'[v] = uses[v] /\ seen'[v] = seen[v]
  BY DEF UsesSound
<1>2. ASSUME NEW v \in Uses PROVE Sound(uses[v], seen[v])'
  <2>1. CASE v = u
    BY <1>1, <2>1 DEF Sound, Steady, Running, Loads
  <2>2. CASE v # u
    <3>1. Sound(uses[v], seen[v])
      BY DEF UsesSound
    <3>2. QED
      BY <1>1, <2>2, <3>1 DEF Sound, Steady, Running, Loads
  <2>3. QED
    BY <2>1, <2>2
<1>3. QED
  BY <1>1, <1>2 DEF UsesSound

\* A use that asks nothing leaves the history of the store's relations alone.
LEMMA SeenKept ==
    ASSUME UsesSound, UNCHANGED seen, NEW u \in Uses
    PROVE  seen' = [seen EXCEPT ![u] = seen[u]]
    BY DEF UsesSound

\* What the promises are about: they stand while nothing runs and nothing they
\* rely on is taken away.
LEMMA PromisesKept ==
    ASSUME Promises, Steady, dispatched' \in {{}, dispatched}
    PROVE  Promises'
<1>1. /\ dispatched' \subseteq dispatched
      /\ Running' = Running
  BY DEF Steady, Running
<1>2. (DispatchedAsGranted /\ RevokedNeverDispatched /\ ResumedAsSuspended)'
  BY <1>1 DEF Promises, DispatchedAsGranted, RevokedNeverDispatched,
              ResumedAsSuspended, Steady
<1>3. /\ \A capability : Allowed(capability)' = Allowed(capability)
      /\ \A capability : DeniedSomewhere(capability)' <=> DeniedSomewhere(capability)
  BY <1>1 DEF Allowed, AllPlanes, DeniedSomewhere
<1>4. EvidenceBound'
  BY <1>1, <1>3 DEF Promises, EvidenceBound
<1>5. DispatchedWithinAuthority'
  BY <1>1, <1>3 DEF Promises, DispatchedWithinAuthority, WithinPlanes
<1>6. QED
  BY <1>2, <1>4, <1>5 DEF Promises

\* What a use does between two awaits, save a dispatch and a suspension: it
\* moves along, and asks at most for its relation.
UseOnly(u) ==
    /\ Steady
    /\ UNCHANGED stored
    /\ dispatched' \in {{}, dispatched}
    /\ \E use, since :
          /\ uses' = [uses EXCEPT ![u] = use]
          /\ seen' = [seen EXCEPT ![u] = since]
          /\ Sound(use, since)

LEMMA UseOnlyKeeps ==
    ASSUME Inv, NEW u \in Uses, UseOnly(u)
    PROVE  Inv'
<1>1. UsesSound'
  BY UseMoves DEF Inv, UseOnly
<1>2. RowsSound'
  BY DEF Inv, RowsSound, UseOnly
<1>3. QED
  BY <1>1, <1>2, PromisesKept DEF Inv, UseOnly

LEMMA ProceedIsUseOnly ==
    ASSUME Inv, NEW u \in Uses, NEW use, Proceed(u, use), Sound(use, seen[u])
    PROVE  UseOnly(u)
<1>1. seen' = [seen EXCEPT ![u] = seen[u]]
  BY SeenKept DEF Inv, Proceed
<1>2. Steady
  BY DEF Proceed, Steady, admissionVars
<1>3. QED
  BY <1>1, <1>2 DEF UseOnly, Proceed

LEMMA FailIsUseOnly ==
    ASSUME Inv, NEW u \in Uses, NEW retry, Fail(u, retry)
    PROVE  UseOnly(u)
<1>1. Steady
  BY DEF Fail, Steady, admissionVars
<1>2. Sound(Idle, {})
  BY DEF Sound
<1>3. QED
  BY <1>1, <1>2 DEF UseOnly, Fail, Finish

\* A use begins with what its request brings.
LEMMA BeginIsUseOnly ==
    ASSUME Inv, NEW u \in Uses, NEW use, Begin(u, use),
           IsUse(use), use.pc \in {"validate", "restore"},
           \A p \in use.suspension : Effectful(p)
    PROVE  UseOnly(u)
<1>1. seen' = [seen EXCEPT ![u] = seen[u]]
  BY SeenKept DEF Inv, Begin
<1>2. Steady
  BY DEF Begin, Steady, admissionVars
<1>3. Sound(use, seen[u])
  BY DEF Sound, Loaded, Fresh, Vetted, Asked
<1>4. QED
  BY <1>1, <1>2, <1>3 DEF UseOnly, Begin

-----------------------------------------------------------------------------
(* The steps of a use.                                                      *)

LEMMA InvokeKeeps ==
    ASSUME Inv, NEW u \in Uses, NEW request, NEW credential,
           Invoke(u, request, credential)
    PROVE  UseOnly(u)
<1> DEFINE use == NewUse(request, {}, "validate")
<1>1. IsUse(use) /\ use.pc = "validate" /\ use.suspension = {}
  BY DEF NewUse, IsUse, UseFields
<1>2. Begin(u, use)
  BY DEF Invoke
<1>3. QED
  BY <1>1, <1>2, BeginIsUseOnly

LEMMA ResumeKeeps ==
    ASSUME Inv, NEW u \in Uses, NEW request, NEW row \in stored,
           Resume(u, request, row.proposal)
    PROVE  UseOnly(u)
<1> DEFINE use == NewUse(request, {row.proposal}, "validate")
<1>1. \A p \in {row.proposal} : Effectful(p)
  BY DEF Inv, RowsSound
<1>2. ASSUME NEW lease, Begin(u, [use EXCEPT !.leased = {lease}])
      PROVE  UseOnly(u)
  <2> DEFINE leased == [use EXCEPT !.leased = {lease}]
  <2>1. /\ IsUse(leased)
        /\ leased.pc = "validate"
        /\ \A p \in leased.suspension : Effectful(p)
    BY <1>1 DEF NewUse, IsUse, UseFields
  <2>2. Begin(u, leased)
    BY <1>2
  <2> HIDE DEF leased
  <2>3. QED
    BY <2>1, <2>2, BeginIsUseOnly
<1>3. ASSUME Begin(u, [use EXCEPT !.pc = "restore"])
      PROVE  UseOnly(u)
  <2> DEFINE restoring == [use EXCEPT !.pc = "restore"]
  <2>1. /\ IsUse(restoring)
        /\ restoring.pc = "restore"
        /\ \A p \in restoring.suspension : Effectful(p)
    BY <1>1 DEF NewUse, IsUse, UseFields
  <2>2. Begin(u, restoring)
    BY <1>3
  <2> HIDE DEF restoring
  <2>3. QED
    BY <2>1, <2>2, BeginIsUseOnly
<1>4. QED
  BY <1>2, <1>3 DEF Resume

LEMMA RestoreKeeps ==
    ASSUME Inv, NEW u \in Uses, Restore(u)
    PROVE  UseOnly(u)
<1> DEFINE use == [uses[u] EXCEPT !.pc = "restoring", !.started = now]
<1>1. uses[u] # Idle
  BY DEF Restore, Idle
<1>2. IsUse(uses[u]) /\ \A p \in uses[u].suspension : Effectful(p)
  BY <1>1 DEF Inv, UsesSound, Sound
<1>3. /\ IsUse(use) /\ use.pc = "restoring" /\ use.suspension = uses[u].suspension
  BY <1>2 DEF IsUse, UseFields
<1> HIDE DEF use
<1>4. Sound(use, seen[u])
  BY <1>2, <1>3 DEF Sound, Loaded, Fresh, Vetted, Asked
<1>5. QED
  BY <1>4, ProceedIsUseOnly, FailIsUseOnly DEF Restore, use

LEMMA ValidateKeeps ==
    ASSUME Inv, NEW u \in Uses, Validate(u)
    PROVE  UseOnly(u)
<1> DEFINE use == [uses[u] EXCEPT !.pc = "verify", !.started = now]
<1>1. uses[u] # Idle
  BY DEF Validate, Idle
<1>2. IsUse(uses[u]) /\ \A p \in uses[u].suspension : Effectful(p)
  BY <1>1 DEF Inv, UsesSound, Sound
<1>3. /\ IsUse(use) /\ use.pc = "verify" /\ use.request = uses[u].request
      /\ use.suspension = uses[u].suspension
  BY <1>2 DEF IsUse, UseFields
<1> HIDE DEF use
<1>4. ASSUME Loads(uses[u].request), ModesStand(uses[u].request)
      PROVE  Sound(use, seen[u])
  BY <1>2, <1>3, <1>4 DEF Sound, Loaded, Fresh, Vetted, Asked
<1>5. QED
  BY <1>4, ProceedIsUseOnly, FailIsUseOnly DEF Validate, use

LEMMA VerifyKeeps ==
    ASSUME Inv, NEW u \in Uses, NEW credential, Verify(u, credential)
    PROVE  UseOnly(u)
<1> DEFINE use == [uses[u] EXCEPT !.pc = "revisions",
                     !.principals = [Principals(credential) EXCEPT
                                        !.agent = StatusContext(credential)]]
<1>1. uses[u] # Idle
  BY DEF Verify, Idle
<1>2. /\ IsUse(uses[u]) /\ \A p \in uses[u].suspension : Effectful(p)
      /\ Loads(uses[u].request) /\ ModesStand(uses[u].request)
  BY <1>1 DEF Verify, Inv, UsesSound, Sound, Loaded
<1>3. /\ IsUse(use) /\ use.pc = "revisions" /\ use.request = uses[u].request
      /\ use.suspension = uses[u].suspension
  BY <1>2 DEF IsUse, UseFields
<1> HIDE DEF use
<1>4. Sound(use, seen[u])
  BY <1>2, <1>3 DEF Sound, Fresh, Vetted, Asked
<1>5. QED
  BY <1>4, ProceedIsUseOnly, FailIsUseOnly DEF Verify, use

LEMMA CheckFreshnessKeeps ==
    ASSUME Inv, NEW u \in Uses, CheckFreshness(u)
    PROVE  UseOnly(u)
<1> DEFINE request == uses[u].request
           use == [uses[u] EXCEPT !.pc = "evidence", !.revisions = Running.backend,
                                  !.left = RequiredEvidence(request)]
<1>1. uses[u] # Idle
  BY DEF CheckFreshness, Idle
<1>2. ASSUME Running.backend = request.admission.revisions,
             ResourceStands(request), ProposalStands(uses[u])
      PROVE  Sound(use, seen[u])
  <2>1. /\ IsUse(uses[u])
        /\ \A p \in uses[u].suspension : Effectful(p)
        /\ Loads(request) /\ ModesStand(request)
    BY <1>1 DEF CheckFreshness, Inv, UsesSound, Sound, Loaded
  <2>2. /\ IsUse(use)
        /\ use.pc = "evidence"
        /\ use.request = request
        /\ use.suspension = uses[u].suspension
        /\ use.left = RequiredEvidence(request)
    BY <2>1 DEF IsUse, UseFields
  <2>3. VerifiedFor(RequiredEvidence(request) \ use.left, request, use.principals,
                    use.started)
    BY <2>2 DEF VerifiedFor
  <2> HIDE DEF use
  <2>4. QED
    BY <1>2, <2>1, <2>2, <2>3 DEF Sound, Loaded, Fresh, Vetted, Asked,
                                  ProposalStands, Resumed
<1>3. \/ \E retry : Fail(u, retry)
      \/ /\ Running.backend = request.admission.revisions
         /\ ResourceStands(request)
         /\ ProposalStands(uses[u])
         /\ Proceed(u, use)
  BY DEF CheckFreshness
<1>4. QED
  BY <1>2, <1>3, ProceedIsUseOnly, FailIsUseOnly

LEMMA CheckEvidenceKeeps ==
    ASSUME Inv, NEW u \in Uses, CheckEvidence(u)
    PROVE  UseOnly(u)
<1> DEFINE request == uses[u].request
           left == uses[u].left
           kind == First(left)
           referred == Referred(request, kind)
           verified == \A e \in referred :
                          EvidenceVerified(e, request, kind, uses[u].principals,
                                           uses[u].started)
           use == [uses[u] EXCEPT !.left = left \ {kind}]
           effect == Descriptor(request).effect # ReadOnly
<1>1. uses[u].pc = "evidence" /\ uses[u] # Idle
  BY DEF CheckEvidence, Idle
<1>2. /\ Sound(uses[u], seen[u])
      /\ VerifiedFor(RequiredEvidence(request) \ left, request,
                     uses[u].principals, uses[u].started)
  BY <1>1 DEF Inv, UsesSound, Sound
<1>3. \/ left = {} /\ Proceed(u, Goto(u, "preconditions"))
      \/ effect /\ Proceed(u, Goto(u, "suspend"))
      \/ referred # {} /\ verified /\ Proceed(u, use)
      \/ \E retry : Fail(u, retry)
  <2> HIDE DEF effect, use, verified
  <2>1. CASE left = {}
    BY <2>1 DEF CheckEvidence
  <2>2. CASE left # {} /\ referred = {}
    BY Zenon, <2>2 DEF CheckEvidence, effect
  <2>3. CASE left # {} /\ referred # {}
    BY Zenon, <2>3 DEF CheckEvidence, verified, use
  <2>4. QED
    BY <2>1, <2>2, <2>3
<1>4. CASE left = {} /\ Proceed(u, Goto(u, "preconditions"))
  <2>1. VerifiedFor(RequiredEvidence(request), request, uses[u].principals,
                    uses[u].started)
    BY <1>2, <1>4
  <2>2. Sound(Goto(u, "preconditions"), seen[u])
    BY <1>1, <1>2, <2>1 DEF Goto, Sound, IsUse, UseFields, Loaded, Fresh, Vetted,
                            Asked, ProposalStands, Resumed
  <2>3. QED
    BY <1>4, <2>2, ProceedIsUseOnly
<1>5. CASE effect /\ Proceed(u, Goto(u, "suspend"))
  <2>1. Sound(Goto(u, "suspend"), seen[u])
    BY <1>1, <1>2, <1>5 DEF Goto, Sound, IsUse, UseFields, Loaded, Fresh, Vetted,
                            Asked, ProposalStands, Resumed, Effectful
  <2>2. QED
    BY <1>5, <2>1, ProceedIsUseOnly
<1>6. CASE referred # {} /\ verified /\ Proceed(u, use)
  <2>1. VerifiedFor(RequiredEvidence(request) \ (left \ {kind}), request,
                    uses[u].principals, uses[u].started)
    BY <1>2, <1>6 DEF VerifiedFor
  <2>2. Sound(use, seen[u])
    BY <1>1, <1>2, <2>1 DEF Sound, IsUse, UseFields, Loaded, Fresh, Vetted, Asked,
                            ProposalStands, Resumed
  <2>3. QED
    BY <1>6, <2>2, ProceedIsUseOnly
<1>7. QED
  BY <1>3, <1>4, <1>5, <1>6, FailIsUseOnly

LEMMA CheckPreconditionsKeeps ==
    ASSUME Inv, NEW u \in Uses, CheckPreconditions(u)
    PROVE  UseOnly(u)
<1>1. uses[u] # Idle
  BY DEF CheckPreconditions, Idle
<1>2. IsUse(uses[u]) /\ uses[u].pc = "preconditions" /\ Sound(uses[u], seen[u])
  BY <1>1 DEF CheckPreconditions, Inv, UsesSound, Sound
<1> DEFINE use == Goto(u, "ask")
<1>3. /\ IsUse(use) /\ use.pc = "ask" /\ use.request = uses[u].request
      /\ use.suspension = uses[u].suspension /\ use.leased = uses[u].leased
      /\ use.principals = uses[u].principals /\ use.started = uses[u].started
  BY <1>2 DEF Goto, IsUse, UseFields
<1> HIDE DEF use
<1>4. Sound(use, seen[u])
  BY <1>1, <1>2, <1>3 DEF Sound, Loaded, Fresh, Vetted, Asked, ProposalStands, Resumed
<1>5. QED
  BY <1>4, ProceedIsUseOnly, FailIsUseOnly DEF CheckPreconditions, use

LEMMA AskCheckKeeps ==
    ASSUME Inv, NEW u \in Uses, AskCheck(u)
    PROVE  UseOnly(u)
<1> DEFINE use == [uses[u] EXCEPT !.pc = "checking", !.decidedAt = now]
<1>1. uses[u] # Idle
  BY DEF AskCheck, Idle
<1>2. Sound(use, relation)
  <2>1. IsUse(uses[u]) /\ uses[u].pc = "ask" /\ Sound(uses[u], seen[u])
    BY <1>1 DEF AskCheck, Inv, UsesSound, Sound
  <2>2. /\ IsUse(use) /\ use.pc = "checking" /\ use.request = uses[u].request
        /\ use.suspension = uses[u].suspension /\ use.leased = uses[u].leased
        /\ use.principals = uses[u].principals /\ use.started = uses[u].started
    BY <2>1 DEF IsUse, UseFields
  <2> HIDE DEF use
  <2>3. QED
    BY <1>1, <2>1, <2>2 DEF Sound, Loaded, Fresh, Vetted, Asked, ProposalStands, Resumed
<1>3. CASE FreshAuthority(uses[u].principals, uses[u].revisions)
  <2>1. Steady
    BY <1>3 DEF AskCheck, Steady, admissionVars
  <2>2. QED
    BY <1>2, <1>3, <2>1 DEF AskCheck, UseOnly
<1>4. CASE ~FreshAuthority(uses[u].principals, uses[u].revisions)
  BY <1>4, FailIsUseOnly DEF AskCheck
<1>5. QED
  BY <1>3, <1>4

LEMMA EvaluateKeeps ==
    ASSUME Inv, NEW u \in Uses, Evaluate(u)
    PROVE  UseOnly(u)
<1> DEFINE decision == IF Related(uses[u].principals, uses[u].request.capability,
                                     uses[u].request.resource)
                         THEN "allow" ELSE "deny"
           use == [uses[u] EXCEPT !.pc = "checked", !.decision = decision]
<1>1. uses[u].pc = "checking" /\ uses[u] # Idle /\ Sound(uses[u], seen[u])
  BY DEF Evaluate, Idle, Inv, UsesSound
<1>2. Sound(use, seen[u])
  <2>1. /\ IsUse(use)
        /\ use.pc = "checked" /\ use.decision = decision
        /\ \A field \in UseFields \ {"pc", "decision"} : use[field] = uses[u][field]
    BY <1>1 DEF Sound, IsUse, UseFields
  <2>2. decision = "allow" => Question(uses[u]) \in seen[u]
    BY <1>1 DEF Sound, Question, Related, Asked
  <2> HIDE DEF use, decision
  <2>3. QED
    BY <1>1, <2>1, <2>2 DEF Sound, UseFields, Question, Loaded, Fresh, Vetted, Asked,
                            ProposalStands, Resumed
<1>3. QED
  BY <1>2, ProceedIsUseOnly DEF Evaluate

LEMMA LeaseKeeps ==
    ASSUME Inv, NEW u \in Uses, 
           \/ TakeLease(u)
           \/ \E credential \in Credentials : RestoreSuspension(u, credential)
    PROVE  UseOnly(u)
<1>1. /\ IsUse(uses[u])
      /\ \A p \in uses[u].suspension : Effectful(p)
  <2>1. TakeLease(u) => uses[u].pc = "lease"
    BY DEF TakeLease
  <2>2. ASSUME NEW credential, RestoreSuspension(u, credential)
        PROVE  uses[u].pc = "restoring"
    BY <2>2 DEF RestoreSuspension
  <2>3. uses[u] # Idle
    BY <2>1, <2>2 DEF Idle
  <2>4. QED
    BY <2>3 DEF Inv, UsesSound, Sound
<1>2. ASSUME NEW leased
      PROVE  Sound([uses[u] EXCEPT !.pc = "validate", !.leased = leased], seen[u])
  <2> DEFINE use == [uses[u] EXCEPT !.pc = "validate", !.leased = leased]
  <2>1. IsUse(use) /\ use.pc = "validate" /\ use.suspension = uses[u].suspension
    BY <1>1 DEF IsUse, UseFields
  <2>2. QED
    BY <1>1, <2>1 DEF Sound, Loaded, Fresh, Vetted, Asked
<1>3. Sound(Goto(u, "lease"), seen[u])
  <2> DEFINE use == Goto(u, "lease")
  <2>1. IsUse(use) /\ use.pc = "lease" /\ use.suspension = uses[u].suspension
    BY <1>1 DEF Goto, IsUse, UseFields
  <2>2. QED
    BY <1>1, <2>1 DEF Sound, Loaded, Fresh, Vetted, Asked
<1>4. ASSUME NEW use, Sound(use, seen[u]),
             uses' = [uses EXCEPT ![u] = use],
             UNCHANGED <<admissionVars, stored, seen, dispatched>>
      PROVE  UseOnly(u)
  <2>1. Steady
    BY <1>4 DEF Steady, admissionVars
  <2>2. seen' = [seen EXCEPT ![u] = seen[u]]
    BY <1>4, SeenKept DEF Inv
  <2>3. QED
    BY <1>4, <2>1, <2>2 DEF UseOnly
<1>5. CASE TakeLease(u)
  BY <1>2, <1>4, <1>5, FailIsUseOnly DEF TakeLease
<1>6. CASE \E credential \in Credentials : RestoreSuspension(u, credential)
  BY <1>3, <1>4, <1>6, FailIsUseOnly DEF RestoreSuspension
<1>7. QED
  BY <1>5, <1>6

LEMMA PublishKeeps ==
    ASSUME Inv, NEW u \in Uses, Publish(u)
    PROVE  UseOnly(u)
<1>1. Steady
  BY DEF Publish, Steady, admissionVars
<1>2. Sound(Idle, {})
  BY DEF Sound
<1>3. QED
  BY <1>1, <1>2 DEF Publish, UseOnly

\* The task is dropped, as a lemma of its own for the sake of the case split.
LEMMA DropKeeps ==
    ASSUME Inv, NEW u \in Uses, Drop(u)
    PROVE  UseOnly(u)
  BY FailIsUseOnly DEF Drop

\* persist_suspension: the row that it makes is for an effect.
LEMMA PersistSuspensionKeeps ==
    ASSUME Inv, NEW u \in Uses, PersistSuspension(u)
    PROVE  Inv'
<1> DEFINE request == uses[u].request
           row == [proposal |-> Proposal(request), state |-> "suspended",
                   context |-> uses[u].principals.agent,
                   snapshot |-> Snapshot(request)]
<1>1. uses[u].pc = "suspend" /\ uses[u] # Idle
  BY DEF PersistSuspension, Idle
<1>2. /\ Sound(uses[u], seen[u])
      /\ Effectful(request)
  BY <1>1 DEF Inv, UsesSound, Sound
<1>3. CASE RowsOf(request) = {}
  <2>1. /\ stored' = stored \cup {row}
        /\ uses' = [uses EXCEPT ![u] = Goto(u, "publish")]
        /\ UNCHANGED <<admissionVars, seen, dispatched>>
    BY <1>3 DEF PersistSuspension
  <2>2. Steady
    BY <2>1 DEF Steady, admissionVars
  <2>3. Sound(Goto(u, "publish"), seen[u])
    BY <1>1, <1>2 DEF Goto, Sound, IsUse, UseFields, Loaded, Fresh, Vetted, Asked,
                      ProposalStands, Resumed
  <2>4. UsesSound'
    BY <2>1, <2>2, <2>3, UseMoves, SeenKept DEF Inv
  <2>5. RowsSound'
    BY <1>2, <2>1, ProposalDecides DEF Inv, RowsSound
  <2>6. QED
    BY <2>1, <2>2, <2>4, <2>5, PromisesKept DEF Inv
<1>4. CASE RowsOf(request) # {}
  BY <1>4, FailIsUseOnly, UseOnlyKeeps DEF PersistSuspension
<1>5. QED
  BY <1>3, <1>4

\* A grant that loads was made of the planes by admission.
LEMMA GrantKept ==
    ASSUME AdmissionInv, NEW request, Loads(request)
    PROVE  /\ OfPlanes(Grant(request))
           /\ ReachesTheMeet(request.admission.request, Grant(request))
           /\ Grant(request).capability = request.capability
           /\ WellLimited(Descriptor(request))
<1>1. /\ request.admission \in admissions
      /\ Cardinality(Grants(request)) = 1
  BY DEF Loads
<1>2. Grants(request) # {}
  BY <1>1, FS_EmptySet
<1>3. Grant(request) \in Grants(request)
  BY <1>2 DEF Grant
<1>4. /\ Grant(request) \in request.admission.grants
      /\ Grant(request).capability = request.capability
  BY <1>3 DEF Grants, GrantsFor
<1>5. WellLimited(Descriptor(request))
  <2> DEFINE requirements == Requests[request.admission.request].requirements
             n == CHOOSE m \in DOMAIN requirements :
                      requirements[m].capability = request.capability
  <2>1. request.admission.request \in DOMAIN Requests
    BY <1>1 DEF AdmissionInv
  <2>2. n \in DOMAIN requirements
    BY DEF Loads
  <2>3. QED
    BY <2>1, <2>2, RequirementsWellTyped DEF Descriptor
<1>6. QED
  BY <1>1, <1>4, <1>5 DEF AdmissionInv, MadeFor

\* A term of the running provider's planes has the types of one.
LEMMA AllowedWellTyped ==
    ASSUME AdmissionInv, NEW capability, NEW term \in Allowed(capability)
    PROVE  /\ WellLimited(term)
           /\ term.expires \in Nat
           /\ term.resources \subseteq Selectors
<1>1. PICK s, domain, t :
           /\ s \in Running.sources /\ domain \in DOMAIN s.planes
           /\ t \in s.planes[domain] /\ t.allow /\ t.grant = term
  BY DEF Allowed, AllPlanes
<1>2. QED
  BY <1>1, RunningWellTyped DEF AdmissionInv, WellTyped

\* What the meet reaches, every term does: selectors of a grant are narrower.
LEMMA MeetWithinTerms ==
    ASSUME AdmissionInv, NEW id, NEW grant, ReachesTheMeet(id, grant),
           NEW resource, Covered({resource}, grant.resources),
           NEW term \in Allowed(grant.capability)
    PROVE  Covered({resource}, term.resources)
<1>1. PICK g \in grant.resources : SelectorSubset(resource, g)
  BY DEF Covered
<1>2. g \in Selectors /\ Covered({g}, grant.resources)
  BY SubsetReflexive DEF ReachesTheMeet, Covered
<1>3. Covered({g}, term.resources)
  BY <1>2 DEF ReachesTheMeet, ReachedByAll
<1>4. PICK t \in term.resources : SelectorSubset(g, t)
  BY <1>3 DEF Covered
<1>5. SelectorSubset(resource, t)
  BY <1>1, <1>2, <1>4, AllowedWellTyped, SubsetTransitive
<1>6. QED
  BY <1>4, <1>5 DEF Covered

\* The grants that are kept, in the words of the property.
LEMMA InvGrantsAreMeets ==
    ASSUME AdmissionInv
    PROVE  GrantsAreMeets
<1>1. ASSUME NEW set \in admissions, NEW grant \in set.grants
      PROVE  OfPlanes(grant) /\ ReachesTheMeet(set.request, grant)
  BY DEF AdmissionInv, MadeFor
<1>2. ASSUME NEW set \in admissions, NEW grant \in set.grants,
             NEW term \in Allowed(grant.capability)
      PROVE  GrantSubset(grant, term)
  <2>1. WithinLimits(grant, term)
    BY <1>1 DEF OfPlanes
  <2>2. ASSUME NEW g \in grant.resources
        PROVE  \E t \in term.resources : SelectorSubset(g, t)
    <3>1. Covered({g}, grant.resources)
      BY <1>1, SubsetReflexive DEF ReachesTheMeet, Covered
    <3>2. Covered({g}, term.resources)
      BY <1>1, <3>1, MeetWithinTerms
    <3>3. QED
      BY <3>2 DEF Covered
  <2>3. QED
    BY <2>1, <2>2 DEF WithinLimits, GrantSubset, Covered
<1>3. ASSUME NEW set \in admissions, NEW grant \in set.grants,
             NEW i \in Invocations
      PROVE  Reaches(grant.resources, i.resource)
                <=> ReachedByAll(set.request, grant.capability, i.resource)
  BY <1>1, UseAssumption DEF ReachesTheMeet, Reaches
<1>4. ASSUME NEW set \in admissions, NEW grant \in set.grants,
             NEW resource \in {i.resource : i \in Invocations}
      PROVE  LET capability == grant.capability
                 requirements == Requests[set.request].requirements
             IN Reaches(grant.resources, resource) <=>
                    /\ \A p \in {q \in Requested(Requests[set.request]) :
                                  q.capability = capability} :
                          Reaches(p.resources, resource)
                    /\ \A n \in {m \in DOMAIN requirements :
                                  requirements[m].capability = capability} :
                          Reaches(requirements[n].resources, resource)
                    /\ \A term \in Allowed(capability) :
                          Reaches(term.resources, resource)
  BY <1>3 DEF ReachedByAll, Reaches
<1>5. QED
  <2> HIDE DEF Reaches
  <2>1. ASSUME NEW set \in admissions, NEW grant \in set.grants
        PROVE  ~DeniedSomewhere(grant.capability)
    BY <1>1 DEF OfPlanes
  <2>2. QED
    BY <1>2, <1>4, <2>1, Zenon DEF GrantsAreMeets

\* A dispatch in a mode that its grant permits, while the grant has not
\* expired, is within the limits of every plane.
LEMMA GrantWithinPlanes ==
    ASSUME AdmissionInv, NEW d, Loads(d.request), ModesStand(d.request),
           d.at = now, now < Grant(d.request).expires,
           IF Descriptor(d.request).effect # ReadOnly
             THEN Permits(d.request, "deferred")
             ELSE Permits(d.request, "immediate")
    PROVE  WithinPlanes(d)
<1> DEFINE request == d.request
           grant == Grant(request)
           effect == Descriptor(request).effect
<1>1. /\ OfPlanes(grant)
      /\ grant.capability = request.capability
      /\ effect \in Nat
  BY GrantKept DEF WellLimited
<1>2. effect <= grant.effect
  BY DEF ModesStand
<1>3. ASSUME NEW term \in Allowed(request.capability)
      PROVE  /\ (IF effect = ReadOnly THEN "immediate" ELSE "deferred")
                    \in term.modes
             /\ effect <= term.effect
             /\ d.at < term.expires
  <2>1. WithinLimits(grant, term)
    BY <1>1 DEF OfPlanes
  <2>3. term.effect \in Nat /\ term.expires \in Nat
    BY AllowedWellTyped DEF WellLimited
  <2>4. /\ grant.effect \in Nat /\ grant.effect <= term.effect
        /\ grant.expires \in Nat /\ grant.expires <= term.expires
        /\ grant.modes \subseteq term.modes
    BY <1>1, <2>1 DEF OfPlanes, WithinLimits
  <2>5. (IF effect = ReadOnly THEN "immediate" ELSE "deferred") \in grant.modes
    BY DEF Permits
  <2>6. effect <= term.effect /\ d.at < term.expires
    BY <1>1, <1>2, <2>3, <2>4 DEF AdmissionInv
  <2>7. QED
    BY <2>4, <2>5, <2>6
<1>4. /\ ~DeniedSomewhere(request.capability)
      /\ \A s \in Running.sources : \A domain \in DOMAIN s.planes :
            \E t \in s.planes[domain] :
               t.allow /\ t.grant.capability = request.capability
  BY <1>1 DEF OfPlanes
<1>5. QED
  BY <1>3, <1>4 DEF WithinPlanes

\* Dispatch: everything that was checked on the way is put together.
LEMMA DispatchKeeps ==
    ASSUME Inv, AdmissionInv, NEW u \in Uses, Dispatch(u)
    PROVE  Inv'
<1> DEFINE use == uses[u]
           request == use.request
           effect == Descriptor(request).effect # ReadOnly
           runs == /\ FinalPointOfUse(use)
                   /\ EvidenceStands(use)
                   /\ effect => Permits(request, "deferred") /\ MayRun(use)
           dispatch == [request |-> request, at |-> now,
                        principals |-> use.principals,
                        related |-> Question(use) \in seen[u],
                        resumes |-> IF Resumed(use) THEN RowsOf(request) ELSE {}]
           row == [proposal |-> Proposal(request), state |-> "handed",
                   context |-> use.principals.agent,
                   snapshot |-> Snapshot(request)]
<1>1. use.pc = "checked" /\ use # Idle
  BY DEF Dispatch, Idle
<1>2. /\ \A p \in use.suspension : Effectful(p)
      /\ Loads(request) /\ ModesStand(request)
      /\ request.admission.revisions = Running.backend
      /\ ResourceStands(request)
      /\ ProposalStands(use)
      /\ VerifiedFor(RequiredEvidence(request), request, use.principals, use.started)
      /\ use.decision = "allow" => Question(use) \in seen[u]
  BY <1>1 DEF Inv, UsesSound, Sound, Loaded, Fresh, Vetted, Asked
<1>3. CASE runs
  <2>1. /\ Finish(u, FALSE)
        /\ dispatched' = {dispatch}
        /\ stored' = IF effect THEN (stored \ RowsOf(request)) \cup {row} ELSE stored
        /\ UNCHANGED admissionVars
    BY <1>3 DEF Dispatch, Question
  <2>2. Steady
    BY <2>1 DEF Steady, admissionVars
  <2>3. UsesSound'
    <3>1. Sound(Idle, {})
      BY DEF Sound
    <3>2. QED
      BY <2>1, <2>2, <3>1, UseMoves DEF Finish, Inv
  <2>4. RowsSound'
    BY <2>1, ProposalDecides DEF Inv, RowsSound, Effectful
  <2>5. DispatchedAsGranted'
    <3>1. /\ now < request.admission.expires
          /\ now < Grant(request).expires
          /\ now < use.principals.expires
      BY <1>3 DEF FinalPointOfUse
    <3>2. /\ request.admission \in admissions
          /\ request.admission.revisions = Running.backend
          /\ ResourceStands(request)
      BY <1>2 DEF Loads
    <3>3. /\ admissions' = admissions /\ Running' = Running
          /\ dispatched' = {dispatch}
      BY <2>1 DEF admissionVars, Running
    <3>4. dispatch.request = request /\ dispatch.at = now /\ dispatch.principals = use.principals
      OBVIOUS
    <3> HIDE DEF dispatch, request, use
    <3>5. QED
      BY <3>1, <3>2, <3>3, <3>4, Zenon DEF DispatchedAsGranted
  <2>6. RevokedNeverDispatched'
    <3>1. dispatch.related
      BY <1>2, <1>3 DEF FinalPointOfUse
    <3>2. QED
      BY <2>1, <3>1 DEF RevokedNeverDispatched
  <2>7. ResumedAsSuspended'
    <3>1. ASSUME NEW suspended \in dispatch.resumes
          PROVE  /\ suspended.proposal = Proposal(request)
                 /\ suspended.snapshot = Snapshot(request)
                 /\ suspended.context = use.principals.agent
      <4>1. Resumed(use) /\ suspended \in RowsOf(request)
        BY <3>1
      <4>2. effect
        BY <1>2, <4>1, ProposalDecides DEF ProposalStands, Effectful
      <4>3. /\ suspended.proposal = Proposal(request)
            /\ suspended.context = use.principals.agent
        BY <1>3, <4>1, <4>2 DEF MayRun
      <4>4. suspended.snapshot = Snapshot(request)
        BY <4>1, <4>3, ProposalDecides DEF RowsOf, Inv, RowsSound
      <4>5. QED
        BY <4>3, <4>4
    <3>2. QED
      BY <2>1, <3>1 DEF ResumedAsSuspended
  <2>8. /\ \A capability : Allowed(capability)' = Allowed(capability)
        /\ \A capability : DeniedSomewhere(capability)' <=> DeniedSomewhere(capability)
        /\ Running' = Running
    BY <2>1 DEF Allowed, AllPlanes, DeniedSomewhere, Running, admissionVars
  <2>9. DispatchedWithinAuthority'
    <3>1. IF effect THEN Permits(request, "deferred") ELSE Permits(request, "immediate")
      BY <1>2, <1>3 DEF ModesStand
    <3>2. now < Grant(request).expires
      BY <1>3 DEF FinalPointOfUse
    <3>3. ASSUME NEW d, d = dispatch PROVE WithinPlanes(d)'
      <4>1. WithinPlanes(d)
        BY <1>2, <3>1, <3>2, <3>3, GrantWithinPlanes
      <4>2. QED
        BY <2>8, <4>1 DEF WithinPlanes
    <3>4. ASSUME NEW term \in Allowed(request.capability)
          PROVE  Reaches(term.resources, request.resource)
      <4>1. /\ ReachesTheMeet(request.admission.request, Grant(request))
            /\ Grant(request).capability = request.capability
        BY <1>2, GrantKept
      <4>2. Covered({request.resource}, Grant(request).resources)
        BY <1>2 DEF ResourceStands
      <4>3. QED
        BY <4>1, <4>2, MeetWithinTerms DEF Reaches
    <3>5. QED
      BY <2>1, <2>8, <3>3, <3>4 DEF DispatchedWithinAuthority
  <2>10. EvidenceBound'
    <3>1. ASSUME NEW term \in Allowed(request.capability), NEW kind \in Evidences,
                 term.evidence[kind] # Unset
          PROVE  \E e \in request.evidence :
                    /\ e.kind = kind
                    /\ e.requirement = term.evidence[kind]
                    /\ e.proposal = Proposal(request)
                    /\ kind # "approval" => e.subject = use.principals.human
                    /\ e.issued <= now
                    /\ now < e.expires
      <4>1. Grant(request).evidence[kind] = term.evidence[kind]
        BY <1>2, <3>1, GrantKept DEF OfPlanes, WithinLimits, EvidenceAtLeast
      <4>2. kind \in RequiredEvidence(request)
        BY <3>1, <4>1 DEF RequiredEvidence
      <4>3. PICK e \in Referred(request, kind) : TRUE
        BY <1>2, <4>2 DEF VerifiedFor
      <4>4. EvidenceVerified(e, request, kind, use.principals, use.started)
        BY <1>2, <4>2, <4>3 DEF VerifiedFor
      <4>5. e.issued <= now /\ now < e.expires
        BY <1>3, <4>2, <4>3 DEF EvidenceStands
      <4>6. kind # "approval" => kind \in {"confirmation", "consent"}
        BY DEF Evidences
      <4>7. QED
        BY <4>1, <4>3, <4>4, <4>5, <4>6 DEF Referred, EvidenceVerified
    <3>2. QED
      BY <2>1, <2>8, <3>1 DEF EvidenceBound
  <2>11. QED
    BY <2>3, <2>4, <2>5, <2>6, <2>7, <2>9, <2>10 DEF Inv, Promises
<1>4. CASE ~runs
  <2>1. Fail(u, ~EvidenceStands(use))
    BY <1>4 DEF Dispatch
  <2>2. QED
    BY <2>1, FailIsUseOnly, UseOnlyKeeps
<1>5. QED
  BY <1>3, <1>4

LEMMA UseStepKeeps ==
    ASSUME Inv, AdmissionInv, NEW u \in Uses, UseStep(u)
    PROVE  Inv'
<1>1. CASE \E request \in ClientRequests :
              \/ \E credential \in Credentials : Invoke(u, request, credential)
              \/ \E row \in stored : Resume(u, request, row.proposal)
  BY <1>1, InvokeKeeps, ResumeKeeps, UseOnlyKeeps
<1>2. CASE Restore(u)
  BY <1>2, RestoreKeeps, UseOnlyKeeps
<1>3. CASE \/ TakeLease(u)
           \/ \E credential \in Credentials : RestoreSuspension(u, credential)
  BY <1>3, LeaseKeeps, UseOnlyKeeps
<1>4. CASE \E credential \in Credentials : Verify(u, credential)
  BY <1>4, VerifyKeeps, UseOnlyKeeps
<1>5. CASE Validate(u)
  BY <1>5, ValidateKeeps, UseOnlyKeeps
<1>6. CASE CheckFreshness(u)
  BY <1>6, CheckFreshnessKeeps, UseOnlyKeeps
<1>7. CASE CheckEvidence(u)
  BY <1>7, CheckEvidenceKeeps, UseOnlyKeeps
<1>8. CASE PersistSuspension(u)
  BY <1>8, PersistSuspensionKeeps
<1>9. CASE Publish(u)
  BY <1>9, PublishKeeps, UseOnlyKeeps
<1>10. CASE CheckPreconditions(u)
  BY <1>10, CheckPreconditionsKeeps, UseOnlyKeeps
<1>11. CASE AskCheck(u)
  BY <1>11, AskCheckKeeps, UseOnlyKeeps
<1>12. CASE Evaluate(u)
  BY <1>12, EvaluateKeeps, UseOnlyKeeps
<1>13. CASE Dispatch(u)
  BY <1>13, DispatchKeeps
<1>14. CASE Drop(u)
  BY <1>14, DropKeeps, UseOnlyKeeps
<1>15. QED
  BY <1>1, <1>2, <1>3, <1>4, <1>5, <1>6, <1>7, <1>8, <1>9, <1>10, <1>11, <1>12,
     <1>13, <1>14 DEF UseStep

-----------------------------------------------------------------------------
(* What happens around the uses.                                            *)

\* Admission only adds to the admissions that uses rely on.
LEMMA AdmitStepIsSteady ==
    ASSUME NEW a, AdmitStep(a)
    PROVE  Steady
<1>1. ASSUME NEW id, NEW credential, Admit(a, id, credential)
      PROVE  Steady
  BY <1>1 DEF Admit, Steady
<1>2. CASE ReadRevisions(a) \/ Ask(a) \/ AskNothing(a) \/ Answered(a) \/ AdmitFails(a)
  BY <1>2 DEF ReadRevisions, Ask, AskNothing, Answered, AdmitFails, Steady
<1>3. CASE Persist(a)
  BY <1>3 DEF Persist, Steady
<1>4. QED
  BY <1>1, <1>2, <1>3 DEF AdmitStep

LEMMA OthersKeep ==
    ASSUME Inv, Steady, UNCHANGED <<stored, uses, seen, dispatched>>
    PROVE  Inv'
<1>1. UsesSound'
  <2>1. ASSUME NEW u \in Uses PROVE Sound(uses[u], seen[u])'
    <3>1. Sound(uses[u], seen[u])
      BY DEF Inv, UsesSound
    <3>2. QED
      BY <3>1 DEF Sound, Steady, Running, Loads
  <2>2. QED
    BY <2>1 DEF Inv, UsesSound
<1>2. RowsSound'
  BY DEF Inv, RowsSound
<1>3. QED
  BY <1>1, <1>2, PromisesKept DEF Inv

\* A relation comes or goes: the questions under way may see either.
LEMMA RelateKeeps ==
    ASSUME Inv, Relate, UNCHANGED <<stored, uses, dispatched>>,
           seen' = [u \in Uses |-> IF uses[u].pc \in Asked
                                     THEN seen[u] \cup relation' ELSE {}]
    PROVE  Inv'
<1>1. admissions' = admissions /\ deployment' = deployment
  BY DEF Relate
<1>2. ASSUME NEW u \in Uses PROVE Sound(uses[u], seen[u])'
  <2>1. Sound(uses[u], seen[u])
    BY DEF Inv, UsesSound
  <2>2. uses[u].pc \in Asked => seen'[u] = seen[u] \cup relation'
    OBVIOUS
  <2>3. QED
    BY <1>1, <2>1, <2>2 DEF Sound, Running, Asked, Loads
<1>3. UsesSound'
  BY <1>2 DEF Inv, UsesSound
<1>4. RowsSound'
  BY DEF Inv, RowsSound
<1>5. Promises'
  <2>1. /\ \A capability : Allowed(capability)' = Allowed(capability)
        /\ \A capability : DeniedSomewhere(capability)' <=> DeniedSomewhere(capability)
        /\ Running' = Running
    BY <1>1 DEF Allowed, AllPlanes, DeniedSomewhere, Running
  <2>2. EvidenceBound' /\ DispatchedWithinAuthority'
    BY <2>1 DEF Inv, Promises, EvidenceBound, DispatchedWithinAuthority, WithinPlanes
  <2>3. QED
    BY <1>1, <2>1, <2>2 DEF Inv, Promises, DispatchedAsGranted,
                            RevokedNeverDispatched, ResumedAsSuspended
<1>6. QED
  BY <1>3, <1>4, <1>5 DEF Inv

\* A redeployment ends every use and starts the history of dispatches anew.
LEMMA RedeployKeeps ==
    ASSUME Inv, UNCHANGED stored, dispatched' = {},
           uses' = [u \in Uses |-> Idle], seen' = [u \in Uses |-> {}]
    PROVE  Inv'
<1>1. UsesSound'
  BY DEF UsesSound, Sound
<1>2. RowsSound'
  BY DEF Inv, RowsSound
<1>3. Promises'
  BY DEF Promises, DispatchedAsGranted, DispatchedWithinAuthority, EvidenceBound,
         RevokedNeverDispatched, ResumedAsSuspended
<1>4. QED
  BY <1>1, <1>2, <1>3 DEF Inv

-----------------------------------------------------------------------------
(* The theorems.                                                            *)

\* Every step is one of admission's or leaves its variables alone.
LEMMA StepsOfAdmission == [Next]_vars => [AdmissionNext]_admissionVars
<1>1. ASSUME NEW u \in Uses, UseStep(u)
      PROVE  UNCHANGED admissionVars
  <2>1. ASSUME \/ \E use : Proceed(u, use) \/ Begin(u, use)
               \/ \E retry : Fail(u, retry)
        PROVE  UNCHANGED admissionVars
    BY <2>1 DEF Proceed, Begin, Fail
  <2>2. ASSUME \E request \in ClientRequests :
                  \/ \E credential \in Credentials : Invoke(u, request, credential)
                  \/ \E row \in stored : Resume(u, request, row.proposal)
        PROVE  UNCHANGED admissionVars
    BY <2>1, <2>2 DEF Invoke, Resume
  <2>3. ASSUME Restore(u) \/ Validate(u) \/ CheckPreconditions(u) \/ Evaluate(u)
                  \/ Drop(u)
        PROVE  UNCHANGED admissionVars
    BY <2>1, <2>3 DEF Restore, Validate, CheckPreconditions, Evaluate, Drop
  <2>4. ASSUME NEW credential, RestoreSuspension(u, credential) \/ Verify(u, credential)
        PROVE  UNCHANGED admissionVars
    BY <2>1, <2>4 DEF RestoreSuspension, Verify
  <2>5. ASSUME TakeLease(u) \/ PersistSuspension(u) \/ Publish(u) \/ AskCheck(u)
                  \/ Dispatch(u)
        PROVE  UNCHANGED admissionVars
    BY <2>1, <2>5 DEF TakeLease, PersistSuspension, Publish, AskCheck, Dispatch
  <2>6. ASSUME CheckFreshness(u) PROVE UNCHANGED admissionVars
    BY <2>1, <2>6 DEF CheckFreshness
  <2>7. ASSUME CheckEvidence(u) PROVE UNCHANGED admissionVars
    BY <2>1, <2>7 DEF CheckEvidence
  <2>8. QED
    BY <1>1, <2>2, <2>3, <2>4, <2>5, <2>6, <2>7 DEF UseStep
<1>2. UNCHANGED vars => UNCHANGED admissionVars
  BY DEF vars
<1>3. IssueEvidence => UNCHANGED admissionVars
  BY DEF IssueEvidence
<1>4. QED
  BY <1>1, <1>2, <1>3 DEF Next, AdmissionNext

\* The invariant holds initially and every step keeps it: load, the checks of
\* validate, the awaits between them and whatever happens meanwhile.
LEMMA Invariance == Spec => [](AdmissionInv /\ Inv)
<1>1. Init => AdmissionInv /\ Inv
  <2>1. SUFFICES ASSUME Init PROVE AdmissionInv /\ Inv
    OBVIOUS
  <2>2. AdmissionInv
    BY <2>1, AdmissionInvariant DEF Init
  <2>3. UsesSound
    BY <2>1 DEF Init, UsesSound, Sound
  <2>4. RowsSound
    BY <2>1 DEF Init, RowsSound
  <2>5. Promises
    BY <2>1 DEF Init, Promises, DispatchedAsGranted, DispatchedWithinAuthority, EvidenceBound,
                RevokedNeverDispatched, ResumedAsSuspended
  <2>6. QED
    BY <2>2, <2>3, <2>4, <2>5 DEF Inv
<1>2. AdmissionInv /\ [Next]_vars => AdmissionInv'
  BY StepsOfAdmission, AdmissionInvariant
<1>3. AdmissionInv /\ Inv /\ [Next]_vars => Inv'
  <2>1. SUFFICES ASSUME AdmissionInv, Inv, [Next]_vars PROVE Inv'
    OBVIOUS
  <2>2. CASE \E a \in Admits : AdmitStep(a) /\ UNCHANGED useVars
    BY <2>1, <2>2, AdmitStepIsSteady, OthersKeep DEF useVars
  <2>3. CASE \E u \in Uses : UseStep(u)
    BY <2>1, <2>3, UseStepKeeps
  <2>4. CASE IssueEvidence \/ (Tick /\ UNCHANGED useVars) \/ UNCHANGED vars
    <3>1. Steady /\ UNCHANGED <<stored, uses, seen, dispatched>>
      BY <2>4 DEF IssueEvidence, Tick, Steady, vars, useVars, admissionVars
    <3>2. QED
      BY <2>1, <3>1, OthersKeep
  <2>5. CASE /\ Relate
             /\ seen' = [u \in Uses |-> IF uses[u].pc \in {"checking", "checked"}
                                              THEN seen[u] \cup relation' ELSE {}]
             /\ UNCHANGED <<evidence, stored, pending, uses, dispatched>>
    BY <2>1, <2>5, RelateKeeps DEF Asked
  <2>6. CASE /\ Redeploy
             /\ pending' = {}
             /\ uses' = [u \in Uses |-> Idle]
             /\ seen' = [u \in Uses |-> {}]
             /\ dispatched' = {}
             /\ UNCHANGED <<evidence, stored>>
    BY <2>1, <2>6, RedeployKeeps
  <2>7. QED
    BY <2>1, <2>2, <2>3, <2>4, <2>5, <2>6 DEF Next
<1>4. QED
  BY <1>1, <1>2, <1>3, PTL DEF Spec

\* validate from load to validate_final_point_of_use: an operation runs under
\* an admission of this provider and its present revisions, on a resource the
\* grant reaches, before anything it rests on expires.
THEOREM OnlyAsGranted == Spec => []DispatchedAsGranted
<1>1. Inv => DispatchedAsGranted
  BY DEF Inv, Promises
<1>2. QED
  BY <1>1, Invariance, PTL

\* check at point of use: a relation that stood at no time from the question
\* to the answer lets nothing run.
THEOREM OnlyWhileRelated == Spec => []RevokedNeverDispatched
<1>1. Inv => RevokedNeverDispatched
  BY DEF Inv, Promises
<1>2. QED
  BY <1>1, Invariance, PTL

\* begin_resume, restore_durable_suspension and execute_effect: a resume runs
\* the suspended proposal under its grant and lock, for its principals.
THEOREM OnlyAsSuspended == Spec => []ResumedAsSuspended
<1>1. Inv => ResumedAsSuspended
  BY DEF Inv, Promises
<1>2. QED
  BY <1>1, Invariance, PTL

\* admit and validate together: what runs is of a capability and a resource
\* that every plane of the deployment allows and none denies, in a mode, with
\* an effect and at a time that each of them allows.
THEOREM OnlyWithinAuthority == Spec => []DispatchedWithinAuthority
<1>1. Inv => DispatchedWithinAuthority
  BY DEF Inv, Promises
<1>2. QED
  BY <1>1, Invariance, PTL

\* admit_capability and intersect_authority: a grant that is kept reaches
\* exactly what the request, its lock and every plane's terms reach, narrows
\* each of them and is denied by none.
THEOREM GrantsKeptAreMeets == Spec => []GrantsAreMeets
<1>1. AdmissionInv => GrantsAreMeets
  BY InvGrantsAreMeets
<1>2. QED
  BY <1>1, Invariance, PTL

\* validate_evidence and the recheck at dispatch: the evidence that any plane
\* demands is the proposal's own, and valid when it runs.
THEOREM OnlyWithEvidence == Spec => []EvidenceBound
<1>1. Inv => EvidenceBound
  BY DEF Inv, Promises
<1>2. QED
  BY <1>1, Invariance, PTL
=============================================================================
