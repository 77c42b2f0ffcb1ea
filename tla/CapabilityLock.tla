---------------------------- MODULE CapabilityLock ----------------------------
(***************************************************************************)
(* What kiteframe-resolver computes of a loaded package: the capability lock *)
(* that lock_package makes from a catalog, what verify_lock demands of it,   *)
(* and the agent that resolve_agent makes of a package, the locks of its     *)
(* whole tree and what the runtime offers.                                   *)
(*                                                                          *)
(* Digests are what they digest, and a version requirement is the set of the *)
(* versions it matches.  What is an error in the code is an empty set.       *)
(***************************************************************************)
EXTENDS PackageTree

CONSTANTS
    TextOrder,      \* the identities of capabilities in the order of their text
    Binding,        \* the runtime binding: models, components, capture
    Target,         \* the runtime target: its name and the features it supports
    Components      \* the component catalog, by symbol

ASSUME OrderAssumption == TextOrder \in Seq(Range(TextOrder))

\* What validate_catalog accepts: finitely many descriptors, each under its name
\* and version.  Versions are numbered in their order.
WellCatalogued(catalog) ==
    /\ IsFiniteSet(DOMAIN catalog.descriptors)
    /\ DOMAIN catalog.descriptors \subseteq Range(TextOrder)
    /\ \A i \in DOMAIN catalog.descriptors :
          i = [name |-> i.name, version |-> i.version] /\ i.version \in Nat

-----------------------------------------------------------------------------
(* Locking.                                                                 *)

Requirements(package) == Range(package.manifest.capabilities)

RequestedFeatures(manifest) == manifest.features.required \cup manifest.features.optional

Matches(requirement, identity) ==
    /\ identity.name = requirement.name
    /\ identity.version \in requirement.versions

Candidates(requirement, catalog) ==
    {i \in DOMAIN catalog.descriptors : Matches(requirement, i)}

Newest(identities) ==
    {i \in identities : \A j \in identities : j.version <= i.version}

\* select_capabilities_with_warnings: the newest version for each requirement
\* that some version matches, as pairs; an error if a required one has none.
Selected(package, catalog) ==
    UNION {{[requirement |-> r, identity |-> i] : i \in Newest(Candidates(r, catalog))} :
              r \in Requirements(package)}

Selectable(package, catalog) ==
    \A r \in Requirements(package) : r.required => Candidates(r, catalog) # {}

\* verify_capability_order, of what lock_package has sorted: no capability is
\* locked twice.
LockedOnce(package, catalog) ==
    \A s, t \in Selected(package, catalog) : s.identity = t.identity => s = t

\* lock_package.  What is sorted and without duplicates is a function from the
\* identities.
LockOf(package, catalog) ==
    [package      |-> package.portable,
     catalog      |-> catalog,
     features     |-> RequestedFeatures(package.manifest),
     capabilities |-> [i \in {s.identity : s \in Selected(package, catalog)} |->
                          catalog.descriptors[i]]]

FaultyVerifyLock(package, lock) ==
    lock.features = RequestedFeatures(package.manifest)

\* verify_lock without a catalog.
VerifyLock(package, lock) ==
    /\ lock.package = package.portable
    /\ lock.features = RequestedFeatures(package.manifest)

-----------------------------------------------------------------------------
(* Resolving one package.                                                   *)

OfKind(symbol, kind) ==
    symbol \in DOMAIN Components /\ Components[symbol].kind = kind

\* validate_runtime_inputs.
RuntimeReady ==
    /\ Binding.target = Target.name
    /\ \A kind \in DOMAIN Binding.components : OfKind(Binding.components[kind], kind)

\* model_satisfies: modalities, tools, latency and residency are what a model
\* offers, its context a number of tokens.
ModelSatisfies(symbol, requirement) ==
    /\ OfKind(symbol, "model")
    /\ requirement.needs \subseteq Components[symbol].offers
    /\ requirement.context <= Components[symbol].context

BoundTo(role) ==
    IF role \in DOMAIN Binding.models THEN {Binding.models[role]} ELSE {}

FaultyModelFor(manifest, role) ==
    LET requirement == manifest.models[role]
        own == {s \in BoundTo(role) : ModelSatisfies(s, requirement)}
    IN IF own # {} \/ requirement.required THEN own ELSE BoundTo("primary")

\* resolve_models, for one role: its own binding, or for an optional role the
\* primary one, if it satisfies the requirement.
ModelFor(manifest, role) ==
    LET requirement == manifest.models[role]
        own == {s \in BoundTo(role) : ModelSatisfies(s, requirement)}
        primary == IF "primary" \in DOMAIN manifest.models THEN BoundTo("primary") ELSE {}
    IN IF own # {} \/ requirement.required
         THEN own
         ELSE {s \in primary : ModelSatisfies(s, requirement)}

ModelsMet(manifest) ==
    \A role \in DOMAIN manifest.models :
        manifest.models[role].required => ModelFor(manifest, role) # {}

ResolvedModels(manifest) ==
    [role \in {r \in DOMAIN manifest.models : ModelFor(manifest, r) # {}} |->
        CHOOSE s \in ModelFor(manifest, role) : TRUE]

\* negotiate_features: a feature is compatible with itself alone.
FeaturesMet(manifest) == manifest.features.required \subseteq Target.features
EnabledFeatures(manifest) == manifest.features.optional \cap Target.features

\* resolve_content_capture: a binding may use what the package allows.
CaptureMet(manifest) ==
    Binding.capture.enabled =>
        /\ manifest.capture.allowed
        /\ Binding.capture.classifications \subseteq manifest.capture.classifications
        /\ \A kind \in DOMAIN Binding.capture.policies :
              OfKind(Binding.capture.policies[kind], kind)

ResolvedCapture ==
    IF Binding.capture.enabled THEN Binding.capture.classifications ELSE {}

Rank(identity) == CHOOSE n \in DOMAIN TextOrder : TextOrder[n] = identity

Locked(lock) ==
    {[identity |-> i, descriptor |-> lock.capabilities[i]] :
        i \in DOMAIN lock.capabilities}

\* A requirement takes the first entry of the lock that matches it.
Found(requirement, lock) ==
    LET matching == {c \in Locked(lock) : Matches(requirement, c.identity)}
    IN {c \in matching : \A d \in matching \ {c} : Rank(c.identity) < Rank(d.identity)}

FaultyCapabilitiesMet(package, lock) ==
    \A r \in Requirements(package) :
        /\ r.required => Found(r, lock) # {}
        /\ Found(r, lock) # {} => r.resources # {}

\* resolve_capabilities: every required capability is locked, and every entry
\* of the lock is what some requirement takes.
CapabilitiesMet(package, lock) ==
    /\ \A r \in Requirements(package) :
          /\ r.required => Found(r, lock) # {}
          /\ Found(r, lock) # {} => r.resources # {}
    /\ \A c \in Locked(lock) : \E r \in Requirements(package) : c \in Found(r, lock)

ResolvedCapabilities(package, lock) ==
    UNION {{[capability |-> c, required |-> r.required, resources |-> r.resources] :
               c \in Found(r, lock)} : r \in Requirements(package)}

Resolvable(package, lock) ==
    /\ VerifyLock(package, lock)
    /\ FeaturesMet(package.manifest)
    /\ ModelsMet(package.manifest)
    /\ CapabilitiesMet(package, lock)
    /\ CaptureMet(package.manifest)

-----------------------------------------------------------------------------
(* Resolving a tree.  locks is a function from the identities of packages.   *)

Identity(package) == package.manifest.identity

UniqueIdentities(tree) ==
    \A p, q \in tree : Identity(p) = Identity(q) => p = q

\* resolve_package meets a package twice if its parent delegates to it twice.
DelegatesOnce(manifest) ==
    \A m, n \in DOMAIN manifest.delegation :
        manifest.delegation[m].agent = manifest.delegation[n].agent => m = n

\* resolve_agent succeeds.
AgentResolves(package, locks) ==
    LET tree == Tree(package)
    IN /\ RuntimeReady
       /\ UniqueIdentities(tree)
       /\ DOMAIN locks = {Identity(p) : p \in tree}
       /\ \A p \in tree : /\ DelegatesOnce(p.manifest)
                          /\ Resolvable(p, locks[Identity(p)])

\* resolve_package: the ResolvedAgent of one package.  A subagent is named by its
\* identity and its digest, which stands for the agent of that identity.
ResolvedAgent(package, lock) ==
    LET manifest == package.manifest
    IN [identity     |-> Identity(package),
        portable     |-> package.portable,
        lock         |-> lock,
        prompts      |-> package.prompts,
        skills       |-> package.skills,
        models       |-> ResolvedModels(manifest),
        capabilities |-> ResolvedCapabilities(package, lock),
        features     |-> manifest.features.required \cup EnabledFeatures(manifest),
        capture      |-> ResolvedCapture,
        subagents    |-> {[identity |-> Identity(package.children[d.agent]),
                           delegation |-> d] : d \in Range(manifest.delegation)}]

\* Those of the whole tree.
ResolvedAgents(package, locks) ==
    [p \in Tree(package) |-> ResolvedAgent(p, locks[Identity(p)])]
=============================================================================
