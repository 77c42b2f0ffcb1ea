------------------------------ MODULE Authority ------------------------------
(***************************************************************************)
(* What a capability grant is and how authority is combined: the selectors   *)
(* of kiteframe-provider/src/resource.rs, the intersection and the subset    *)
(* relation of authority.rs, and the checks of a grant against a request and *)
(* its locked descriptor in kiteframe-contract/src/service.rs.               *)
(*                                                                          *)
(* A selector is its segments and the separators between them.  Times,       *)
(* effects and age bounds are numbers; a requirement that is absent is       *)
(* Unset.  Lists the code sorts and deduplicates are sets.  Definitions      *)
(* marked Faulty are wrong on purpose: the bugs the properties must notice.  *)
(***************************************************************************)
EXTENDS Integers, Sequences, FiniteSets, FiniteSetsExt, Functions

CONSTANT Unset          \* no evidence required, no bound on an age

Star == "*"

Evidences == {"confirmation", "approval", "consent"}

ReadOnly == 0           \* EffectClassification, in its order
ExternalSideEffect == 3

-----------------------------------------------------------------------------
(* Selectors.                                                               *)

Selectors == [segs : Seq(STRING), seps : Seq(STRING)]

IsConcrete(selector) == \A n \in DOMAIN selector.segs : selector.segs[n] # Star

SameShape(left, right) ==
    /\ left.seps = right.seps
    /\ Len(left.segs) = Len(right.segs)

\* resource_selector_is_subset: a wildcard stands for one segment.
SelectorSubset(candidate, allowed) ==
    /\ SameShape(candidate, allowed)
    /\ \A n \in DOMAIN allowed.segs :
          allowed.segs[n] \in {candidate.segs[n], Star}

FaultySelectorMeet(left, right) ==
    IF SameShape(left, right) /\ \A n \in DOMAIN left.segs :
          left.segs[n] = right.segs[n] \/ Star \in {left.segs[n], right.segs[n]}
      THEN {[left EXCEPT !.segs = [n \in DOMAIN left.segs |->
               IF left.segs[n] = right.segs[n] THEN left.segs[n] ELSE Star]]}
      ELSE {}

\* intersect_resource_selectors, as the set of at most one selector.
SelectorMeet(left, right) ==
    IF SameShape(left, right) /\ \A n \in DOMAIN left.segs :
          \/ left.segs[n] = right.segs[n]
          \/ Star \in {left.segs[n], right.segs[n]}
      THEN {[left EXCEPT !.segs = [n \in DOMAIN left.segs |->
               IF left.segs[n] = Star THEN right.segs[n] ELSE left.segs[n]]]}
      ELSE {}

MeetAll(left, right) ==
    UNION {SelectorMeet(l, r) : l \in left, r \in right}

\* resource_selector_is_subset_of, the contract's rule: text equality, or a
\* trailing ":*", which covers any text that continues the prefix.
ContractSubset(requested, allowed) ==
    \/ requested = allowed
    \/ LET last == Len(allowed.segs)
       IN /\ last > 1
          /\ allowed.segs[last] = Star
          /\ allowed.seps[last - 1] = ":"
          /\ Len(requested.segs) >= last
          /\ SubSeq(requested.segs, 1, last - 1) = SubSeq(allowed.segs, 1, last - 1)
          /\ SubSeq(requested.seps, 1, last - 1) = allowed.seps

\* Every selector is in one of those allowed, by the provider's rule and by
\* the contract's.
Covered(selectors, allowed) ==
    \A s \in selectors : \E a \in allowed : SelectorSubset(s, a)

ContractCovered(selectors, allowed) ==
    \A s \in selectors : \E a \in allowed : ContractSubset(s, a)

-----------------------------------------------------------------------------
(* Requirements on evidence and freshness.                                  *)

Tightest(bounds) ==
    IF bounds \subseteq {Unset} THEN Unset ELSE Min(bounds \ {Unset})

BoundAtMost(effective, baseline) ==
    \/ baseline = Unset
    \/ effective # Unset /\ effective <= baseline

FreshnessMeet(all) ==
    [age    |-> Tightest({f.age : f \in all}),
     input  |-> Tightest({f.input : f \in all}),
     policy |-> \E f \in all : f.policy]

FreshnessAtLeast(effective, baseline) ==
    /\ BoundAtMost(effective.age, baseline.age)
    /\ BoundAtMost(effective.input, baseline.input)
    /\ baseline.policy => effective.policy

Required(all, kind) == {e[kind] : e \in all} \ {Unset}

\* Two different requirements of one kind cannot both be met.
EvidenceConflicts(all) ==
    \E kind \in Evidences : \E e, f \in Required(all, kind) : e # f

EvidenceMeet(all) ==
    [kind \in Evidences |->
        IF Required(all, kind) = {} THEN Unset
                                    ELSE CHOOSE e \in Required(all, kind) : TRUE]

EvidenceAtLeast(effective, baseline) ==
    \A kind \in Evidences : baseline[kind] \in {Unset, effective[kind]}

\* The types of the limits that a descriptor and a grant have in common.
Bounds == Nat \cup {Unset}

WellLimited(limits) ==
    /\ limits.effect \in Nat
    /\ limits.freshness.age \in Bounds
    /\ limits.freshness.input \in Bounds

-----------------------------------------------------------------------------
(* Grants.  A requirement is a resolved one: a capability, its selectors, its*)
(* requiredness and the descriptor locked for it.                            *)

Allow(grant) == [allow |-> TRUE, grant |-> grant]
Deny(name) == [allow |-> FALSE, name |-> name]

\* The outcomes of intersect_authority: Ok(None), Err and Ok(Some(grant)).
Absent == [status |-> "absent"]
Refused(code) == [status |-> "refused", code |-> code]
Granted(grant) == [status |-> "granted", grant |-> grant]

\* The terms of a capability are a family: two planes may state equal ones.
GrantsOf(terms) == [n \in {m \in DOMAIN terms : terms[m].allow} |-> terms[n].grant]

\* What a resource selector of the requirement and of every grant reaches.
ResourcesMeet(requirement, allows) ==
    FoldFunction(MeetAll, requirement.resources,
                 [n \in DOMAIN allows |-> allows[n].resources])

IntersectAuthority(requirement, terms) ==
    LET allows == GrantsOf(terms)
        grants == Range(allows)
        d == requirement.descriptor
        resources == ResourcesMeet(requirement, allows)
        modes == {m \in d.modes : \A g \in grants : m \in g.modes}
        evidence == {d.evidence} \cup {g.evidence : g \in grants}
    IN CASE \/ terms = <<>>
            \/ \E n \in DOMAIN terms : ~terms[n].allow
            \/ \E g \in grants : g.capability # requirement.capability
            \/ resources = {}
            \/ modes = {} -> Absent
         [] EvidenceConflicts(evidence) -> Refused("denied")
         [] OTHER ->
              Granted([capability    |-> requirement.capability,
                       resources     |-> resources,
                       modes         |-> modes,
                       effect        |-> Min({d.effect} \cup {g.effect : g \in grants}),
                       expires       |-> Min({g.expires : g \in grants}),
                       evidence      |-> EvidenceMeet(evidence),
                       freshness     |-> FreshnessMeet({d.freshness} \cup
                                            {g.freshness : g \in grants}),
                       preconditions |-> d.preconditions \cup
                                            UNION {g.preconditions : g \in grants}])

\* EffectiveGrantSubset::is_subset_of.
GrantSubset(grant, other) ==
    /\ grant.capability = other.capability
    /\ Covered(grant.resources, other.resources)
    /\ grant.modes \subseteq other.modes
    /\ grant.effect <= other.effect
    /\ grant.expires <= other.expires
    /\ EvidenceAtLeast(grant.evidence, other.evidence)
    /\ FreshnessAtLeast(grant.freshness, other.freshness)
    /\ other.preconditions \subseteq grant.preconditions

\* effective_grant_narrows, and validate_grant_against_locked at point of use.
\* A precondition is a name and whether it is required.
GrantNarrows(grant, descriptor, expires) ==
    /\ grant.modes \subseteq descriptor.modes
    /\ grant.effect <= descriptor.effect
    /\ grant.expires <= expires
    /\ EvidenceAtLeast(grant.evidence, descriptor.evidence)
    /\ FreshnessAtLeast(grant.freshness, descriptor.freshness)
    /\ {p \in descriptor.preconditions : p.required} \subseteq grant.preconditions
=============================================================================
