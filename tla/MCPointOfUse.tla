----------------------------- MODULE MCPointOfUse ----------------------------
(* Model-checking instances of PointOfUse: an agent that looks at cases, pays*)
(* for one and would like to wire money, which its tenant's policy freezes.  *)
EXTENDS PointOfUse, TLC

AnyCase == [segs |-> <<"case", "*">>, seps |-> <<":">>]
One == [segs |-> <<"case", "c1">>, seps |-> <<":">>]
Two == [segs |-> <<"case", "c2">>, seps |-> <<":">>]
Note == [segs |-> <<"case", "c1", "note">>, seps |-> <<":", "/">>]
AnyNote == [segs |-> <<"case", "*", "note">>, seps |-> <<":", "/">>]

Read == [name |-> "read", version |-> 1]
Pay == [name |-> "pay", version |-> 1]
Wire == [name |-> "wire", version |-> 1]

NoEvidence == [kind \in Evidences |-> Unset]
Confirmed == [NoEvidence EXCEPT !["confirmation"] = "r1"]
Unhurried == [age |-> Unset, input |-> Unset, policy |-> FALSE]
Fresh == [age |-> 1, input |-> Unset, policy |-> TRUE]

Named == {[name |-> "open", required |-> TRUE]}

ReadLock == [effect |-> ReadOnly, modes |-> {"immediate"}, evidence |-> NoEvidence,
             freshness |-> Unhurried, preconditions |-> {}]
PayLock == [effect |-> ExternalSideEffect, modes |-> {"deferred", "suspendable"},
            evidence |-> NoEvidence, freshness |-> Unhurried,
            preconditions |-> Named]

WireLock == [PayLock EXCEPT !.modes = {"deferred"}, !.preconditions = {}]

Locks == Read :> ReadLock @@ Pay :> PayLock @@ Wire :> WireLock

\* What a plane allows of a capability: the locked descriptor, narrowed.
Term(capability, resources, expires, needs, freshness) ==
    LET d == Locks[capability]
    IN Allow([capability |-> capability, resources |-> resources, modes |-> d.modes,
              effect |-> d.effect, expires |-> expires, evidence |-> needs,
              freshness |-> freshness, preconditions |-> d.preconditions])

Both(resources, expires, needs, freshness) ==
    {Term(c, resources, expires, needs, freshness) : c \in {Read, Pay, Wire}}

Revision(source, revision) == [source |-> source, revision |-> revision]

Source(source, revision, planes) ==
    [revision |-> Revision(source, revision), planes |-> planes]

\* The package, workload and task planes state no more than the locks do.
Planes(human, session, revision) ==
    LET base == Both({AnyCase, AnyNote}, 3, NoEvidence, Unhurried)
    IN {Source("openfga-model", 1, [d \in {"package", "workload", "task"} |-> base]),
        Source("openfga-store", 1, "human" :> human),
        Source("tenant-policy", revision, [d \in {"deployment", "session"} |->
            IF d = "session" THEN session ELSE base])}

Deployed(sources) ==
    [issued |-> 0, expires |-> 3,
     catalog |-> [id |-> "catalog", issued |-> 0, expires |-> Unset,
                  descriptors |-> Locks],
     registry |-> Locks, sources |-> sources,
     backend |-> {s.revision : s \in sources}]

\* A policy that freezes wires, whatever else it allows.
Frozen == {Term(Wire, {AnyCase}, 2, NoEvidence, Unhurried), Deny("wire")}

\* The human may pay for one case, the session demands confirmation of it.
Careful == Deployed(Planes(
    Both({One, Note}, 3, NoEvidence, Unhurried),
    {Term(Pay, {AnyCase, Note}, 2, Confirmed, Unhurried),
     Term(Read, {AnyCase}, 3, NoEvidence, Fresh)} \cup Frozen, 1))

\* Redeployed with the same revisions and a wider human plane.
Wider == Deployed(Planes(
    Both({One, Two}, 3, NoEvidence, Unhurried),
    {Term(Pay, {AnyCase}, 2, Confirmed, Unhurried),
     Term(Read, {AnyCase}, 3, NoEvidence, Fresh)} \cup Frozen, 1))

Wants(capability, resources) == [capability |-> capability, resources |-> resources]
Locked(capability, resources, required) ==
    [capability |-> capability, resources |-> resources, required |-> required,
     descriptor |-> Locks[capability]]

Asking(required, optional, requirements) ==
    [actor |-> "alice", agent |-> "bot", task |-> "t1", session |-> "s1",
     catalog |-> "catalog", required |-> required, optional |-> optional,
     requirements |-> requirements, ancestry |-> <<>>]

\* Payments and looks are needed, for any case; wires would be nice.
CaseRequest == Asking({Wants(Pay, {AnyCase}), Wants(Read, {AnyCase})}, {Wants(Wire, {One})},
    <<Locked(Pay, {AnyCase}, TRUE), Locked(Read, {AnyCase}, TRUE),
      Locked(Wire, {AnyCase}, FALSE)>>)

\* A request that cannot be admitted: it names no resource of a capability.
VagueRequest == Asking({Wants(Read, {})}, {}, <<Locked(Read, {AnyCase}, TRUE)>>)

Credential(human, request, expires) ==
    [human |-> [tenant |-> "t", human |-> human, actor |-> "alice",
                expires |-> expires],
     workload |-> [tenant |-> "t", agent |-> "bot", task |-> "t1",
                   session |-> "s1", admission |-> request, expires |-> 3],
     delegates |-> {}]

MCDeployments == [careful |-> Careful, wider |-> Wider]
MCRequests == [case |-> CaseRequest, vague |-> VagueRequest]
MCCredentials == {Credential("ann", "case", 3), Credential("bob", "case", 2)}

May(selectors) == {<<"alice", c, s>> : c \in {Read, Pay, Wire}, s \in selectors}
MCRelations == {{}, May({AnyCase, AnyNote, One})}

MCInvocations ==
    {[id |-> "i1", capability |-> Pay, resource |-> One, preconditions |-> {"open"}],
     [id |-> "i1", capability |-> Pay, resource |-> Two, preconditions |-> {"open"}],
     [id |-> "i2", capability |-> Read, resource |-> One, preconditions |-> {}],
     [id |-> "i3", capability |-> Wire, resource |-> One, preconditions |-> {}]}
=============================================================================
