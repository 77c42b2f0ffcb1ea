-------------------------- MODULE AdmissionProofs ---------------------------
(***************************************************************************)
(* Combining authority only ever narrows it: the meet of two selectors is    *)
(* their greatest lower bound, and a grant that intersect_authority makes    *)
(* stays within every term it was made of.  So every grant that the running  *)
(* provider keeps is within the limits that each authority plane states, and *)
(* no plane denies it, for any deployments, requests, credentials and        *)
(* relations, and any number of admissions under way.  The grants that an    *)
(* admission has collected between two of its awaits are part of the         *)
(* invariant: a redeployment discards them.                                  *)
(***************************************************************************)
EXTENDS Admission, FiniteSetTheorems, TLAPS

-----------------------------------------------------------------------------
(* Selectors.                                                               *)

\* resource_selector_is_subset is reflexive and transitive.
LEMMA SubsetReflexive ==
    ASSUME NEW selector \in Selectors
    PROVE  SelectorSubset(selector, selector)
  BY DEF SelectorSubset, SameShape

LEMMA SubsetTransitive ==
    ASSUME NEW selector, NEW middle \in Selectors, NEW allowed \in Selectors,
           SelectorSubset(selector, middle), SelectorSubset(middle, allowed)
    PROVE  SelectorSubset(selector, allowed)
<1>1. SameShape(selector, allowed)
  BY DEF SelectorSubset, SameShape
<1>2. DOMAIN middle.segs = DOMAIN allowed.segs
  BY DEF SelectorSubset, SameShape, Selectors
<1>3. QED
  BY <1>1, <1>2 DEF SelectorSubset

\* intersect_resource_selectors: a selector is within the meet of two exactly
\* if it is within both, wildcards on any side.
THEOREM MeetIsGreatest ==
    ASSUME NEW left \in Selectors, NEW right \in Selectors,
           NEW selector \in Selectors
    PROVE  (\E meet \in SelectorMeet(left, right) : SelectorSubset(selector, meet))
              <=> SelectorSubset(selector, left) /\ SelectorSubset(selector, right)
<1>1. ASSUME NEW meet \in SelectorMeet(left, right), SelectorSubset(selector, meet)
      PROVE  SelectorSubset(selector, left) /\ SelectorSubset(selector, right)
  <2>1. /\ SameShape(left, right)
        /\ meet.seps = left.seps
        /\ meet.segs = [n \in DOMAIN left.segs |->
                            IF left.segs[n] = Star THEN right.segs[n] ELSE left.segs[n]]
        /\ \A n \in DOMAIN left.segs :
              \/ left.segs[n] = right.segs[n]
              \/ Star \in {left.segs[n], right.segs[n]}
    BY DEF SelectorMeet, Selectors
  <2>2. Len(meet.segs) = Len(left.segs) /\ DOMAIN meet.segs = DOMAIN left.segs
    BY <2>1 DEF Selectors
  <2>3. DOMAIN right.segs = DOMAIN left.segs
    BY <2>1 DEF SameShape, Selectors
  <2>4. QED
    BY <1>1, <2>1, <2>2, <2>3 DEF SelectorSubset, SameShape, Selectors
<1>2. ASSUME SelectorSubset(selector, left), SelectorSubset(selector, right)
      PROVE  \E meet \in SelectorMeet(left, right) : SelectorSubset(selector, meet)
  <2> DEFINE meet == [left EXCEPT !.segs = [n \in DOMAIN left.segs |->
               IF left.segs[n] = Star THEN right.segs[n] ELSE left.segs[n]]]
  <2>1. SameShape(left, right)
    BY <1>2 DEF SelectorSubset, SameShape, Selectors
  <2>2. DOMAIN right.segs = DOMAIN left.segs
    BY <2>1 DEF SameShape, Selectors
  <2>3. meet \in SelectorMeet(left, right)
    BY <1>2, <2>1, <2>2 DEF SelectorMeet, SelectorSubset, Selectors
  <2>4. /\ meet.seps = left.seps
        /\ meet.segs = [n \in DOMAIN left.segs |->
               IF left.segs[n] = Star THEN right.segs[n] ELSE left.segs[n]]
    BY DEF Selectors
  <2>5. Len(meet.segs) = Len(left.segs)
    BY <2>4 DEF Selectors
  <2>6. SelectorSubset(selector, meet)
    BY <1>2, <2>1, <2>2, <2>4, <2>5 DEF SelectorSubset, SameShape, Selectors
  <2>7. QED
    BY <2>3, <2>6
<1>3. QED
  BY <1>1, <1>2

\* intersect_resource_sets, as validate_resource looks at it: a resource is
\* reached by the intersection exactly if it is reached by both sides.
THEOREM MeetOfSetsIsGreatest ==
    ASSUME NEW left \in SUBSET Selectors, NEW right \in SUBSET Selectors,
           NEW selector \in Selectors
    PROVE  Covered({selector}, MeetAll(left, right))
              <=> /\ Covered({selector}, left)
                  /\ Covered({selector}, right)
<1>1. ASSUME Covered({selector}, MeetAll(left, right))
      PROVE  /\ Covered({selector}, left)
             /\ Covered({selector}, right)
  <2>1. PICK l \in left, r \in right :
             \E meet \in SelectorMeet(l, r) : SelectorSubset(selector, meet)
    BY <1>1 DEF Covered, MeetAll
  <2>2. SelectorSubset(selector, l) /\ SelectorSubset(selector, r)
    BY <2>1, MeetIsGreatest
  <2>3. QED
    BY <2>2 DEF Covered
<1>2. ASSUME Covered({selector}, left),
             Covered({selector}, right)
      PROVE  Covered({selector}, MeetAll(left, right))
  <2>1. PICK l \in left, r \in right :
             SelectorSubset(selector, l) /\ SelectorSubset(selector, r)
    BY <1>2 DEF Covered
  <2>2. \E meet \in SelectorMeet(l, r) : SelectorSubset(selector, meet)
    BY <2>1, MeetIsGreatest
  <2>3. QED
    BY <2>2 DEF Covered, MeetAll
<1>3. QED
  BY <1>1, <1>2

-----------------------------------------------------------------------------
(* What a family of sets of selectors reaches.                               *)

LEMMA MinOfNaturals ==
    ASSUME NEW S \in SUBSET Nat, S # {}
    PROVE  Min(S) \in S /\ \A n \in S : Min(S) <= n
<1> DEFINE less == OpToRel(<, Nat)
<1>1. IsWellFoundedOn(less, Nat)
  BY NatLessThanWellFounded, Zenon
<1>2. \A x, y \in S : x < y => <<x, y>> \in less
  BY DEF OpToRel
<1> HIDE DEF less
<1>4. \E x \in S : \A y \in S : ~(<<y, x>> \in less)
  BY <1>1, WFMin
<1>5. \E x \in S : \A y \in S : x <= y
  <2>1. PICK x \in S : \A y \in S : ~(<<y, x>> \in less)
    BY <1>4
  <2>2. \A y \in S : ~(y < x)
    BY <1>2, <2>1
  <2>3. QED
    BY <2>2
<1>3. QED
  BY <1>5 DEF Min

\* The intersection of selectors is made of selectors.
LEMMA MeetsAreSelectors ==
    ASSUME NEW left \in SUBSET Selectors, NEW right \in SUBSET Selectors
    PROVE  MeetAll(left, right) \in SUBSET Selectors
<1>1. ASSUME NEW l \in left, NEW r \in right, NEW meet \in SelectorMeet(l, r)
      PROVE  meet \in Selectors
  <2> DEFINE segs == [n \in DOMAIN l.segs |->
                         IF l.segs[n] = Star THEN r.segs[n] ELSE l.segs[n]]
  <2>1. /\ SameShape(l, r)
        /\ meet = [l EXCEPT !.segs = segs]
    BY DEF SelectorMeet
  <2>2. l \in Selectors /\ r \in Selectors
    OBVIOUS
  <2>3. /\ Len(l.segs) \in Nat
        /\ DOMAIN l.segs = 1 .. Len(l.segs)
        /\ DOMAIN r.segs = DOMAIN l.segs
    BY <2>1, <2>2 DEF SameShape, Selectors
  <2>4. \A n \in DOMAIN l.segs : l.segs[n] \in STRING /\ r.segs[n] \in STRING
    BY <2>2, <2>3 DEF Selectors
  <2>5. segs \in [1 .. Len(l.segs) -> STRING]
    BY <2>3, <2>4
  <2>6. segs \in Seq(STRING)
    BY <2>3, <2>5
  <2> HIDE DEF segs
  <2>7. QED
    BY <2>1, <2>2, <2>6 DEF Selectors
<1>2. QED
  BY <1>1 DEF MeetAll

\* The values of the fold over the indices: one index after another is met
\* with the rest.
Folded(base, family, fold) ==
    fold = [s \in SUBSET DOMAIN family |->
               IF s = {} THEN base
                         ELSE MeetAll(family[CHOOSE n \in s : TRUE],
                                      fold[s \ {CHOOSE n \in s : TRUE}])]

\* A family of finitely many sets has such a fold: of those that a family of
\* some size lacks, one would be the first.
LEMMA FoldExists ==
    ASSUME NEW base, NEW family, IsFiniteSet(DOMAIN family)
    PROVE  \E fold : Folded(base, family, fold)
<1> DEFINE all == DOMAIN family
           next(s) == CHOOSE n \in s : TRUE
           level(n) == {s \in SUBSET all : Cardinality(s) <= n}
           step(fold, s) == IF s = {} THEN base
                            ELSE MeetAll(family[next(s)], fold[s \ {next(s)}])
           folds(fold, n) == fold = [s \in level(n) |-> step(fold, s)]
           without == {n \in Nat : \A fold : ~folds(fold, n)}
<1>1. ASSUME NEW s \in SUBSET all, s # {}
      PROVE  /\ IsFiniteSet(s) /\ Cardinality(s) \in Nat
             /\ Cardinality(s) # 0
             /\ s \ {next(s)} \in SUBSET all
             /\ Cardinality(s \ {next(s)}) = Cardinality(s) - 1
  <2>1. IsFiniteSet(s)
    BY FS_Subset
  <2>2. next(s) \in s
    BY <1>1
  <2> HIDE DEF next
  <2>3. QED
    BY <1>1, <2>1, <2>2, FS_CardinalityType, FS_EmptySet, FS_RemoveElement
<1>2. Cardinality({}) = 0
  BY FS_EmptySet
<1>3. without = {}
  <2>1. SUFFICES ASSUME without # {} PROVE FALSE
    OBVIOUS
  <2>2. PICK n \in without : \A m \in without : n <= m
    <3>1. without \in SUBSET Nat
      OBVIOUS
    <3> HIDE DEF without
    <3>2. QED
      BY <2>1, <3>1, MinOfNaturals
  <2>3. n \in Nat /\ \A fold : ~folds(fold, n)
    BY <2>2
  <2>4. CASE n = 0
    <3> DEFINE fold == [s \in level(0) |-> base]
    <3>1. level(0) = {{}}
      BY <1>1, <1>2
    <3>2. \A s \in level(0) : step(fold, s) = base
      BY <3>1
    <3>3. fold = [s \in level(0) |-> step(fold, s)]
      <4> HIDE DEF step, level
      <4>1. [s \in level(0) |-> step(fold, s)] = [s \in level(0) |-> base]
        BY <3>2
      <4>2. QED
        BY <4>1
    <3>4. QED
      BY <2>3, <2>4, <3>3
  <2>5. CASE n # 0
    <3>1. n - 1 \in Nat /\ n - 1 \notin without
      <4> HIDE DEF without
      <4>1. n - 1 \in Nat /\ ~(n <= n - 1)
        BY <2>3, <2>5
      <4>2. QED
        BY <2>2, <4>1
    <3>2. PICK fold : folds(fold, n - 1)
      <4> HIDE DEF folds
      <4>1. QED
        BY <3>1
    <3> DEFINE longer == [s \in level(n) |-> step(fold, s)]
    <3>3. ASSUME NEW s \in level(n) PROVE step(longer, s) = step(fold, s)
      <4>1. CASE s = {}
        BY <4>1
      <4>2. CASE s # {}
        <5> DEFINE rest == s \ {next(s)}
        <5>1. rest \in level(n - 1) /\ rest \in level(n)
          BY <1>1, <2>3, <4>2
        <5>2. fold[rest] = step(fold, rest)
          <6> HIDE DEF step, level, rest
          <6>1. QED
            BY <3>2, <5>1
        <5>3. longer[rest] = step(fold, rest)
          <6> HIDE DEF step, level, rest
          <6>1. QED
            BY <5>1
        <5> HIDE DEF longer
        <5>4. longer[rest] = fold[rest]
          BY <5>2, <5>3
        <5>5. QED
          BY <4>2, <5>4
      <4>3. QED
        BY <4>1, <4>2
    <3>4. longer = [s \in level(n) |-> step(longer, s)]
      <4> DEFINE again == [s \in level(n) |-> step(longer, s)]
      <4> HIDE DEF step, level
      <4>1. again = [s \in level(n) |-> step(fold, s)]
        BY <3>3
      <4>2. QED
        BY <4>1
    <3> HIDE DEF longer
    <3>5. QED
      BY <2>3, <3>4
  <2>6. QED
    BY <2>4, <2>5
<1>4. Cardinality(all) \in Nat
  BY FS_CardinalityType
<1>5. level(Cardinality(all)) = SUBSET all
  BY FS_Subset
<1>6. PICK fold : folds(fold, Cardinality(all))
  <2> HIDE DEF folds
  <2>1. QED
    BY <1>3, <1>4
<1>7. Folded(base, family, fold)
  <2>1. fold = [s \in SUBSET all |-> step(fold, s)]
    <3> HIDE DEF step, level
    <3>1. QED
      BY <1>5, <1>6
  <2>2. QED
    BY <2>1 DEF Folded
<1>8. QED
  BY <1>7

\* The fold over a family is one of them, at the whole family.
LEMMA FoldIsFolded ==
    ASSUME NEW base, NEW family, IsFiniteSet(DOMAIN family)
    PROVE  \E fold : /\ Folded(base, family, fold)
                     /\ FoldFunction(MeetAll, base, family) = fold[DOMAIN family]
<1> DEFINE fold == CHOOSE f : Folded(base, family, f)
<1>1. Folded(base, family, fold)
  BY FoldExists, Zenon
<1>2. FoldFunction(MeetAll, base, family) = fold[DOMAIN family]
  BY DEF FoldFunction, FoldFunctionOnSet, MapThenFoldSet, Folded
<1>3. QED
  BY <1>1, <1>2

\* intersect_resource_sets over every term: a selector is within the fold of a
\* family exactly if it is within the base and within every member.
THEOREM FoldIsGreatest ==
    ASSUME NEW base \in SUBSET Selectors, NEW family, IsFiniteSet(DOMAIN family),
           \A n \in DOMAIN family : family[n] \in SUBSET Selectors
    PROVE  /\ FoldFunction(MeetAll, base, family) \in SUBSET Selectors
           /\ \A selector \in Selectors :
                 Covered({selector}, FoldFunction(MeetAll, base, family))
                    <=> /\ Covered({selector}, base)
                        /\ \A n \in DOMAIN family : Covered({selector}, family[n])
<1> DEFINE all == DOMAIN family
           greatest(s, meet) ==
               /\ meet \in SUBSET Selectors
               /\ \A selector \in Selectors :
                     Covered({selector}, meet)
                        <=> /\ Covered({selector}, base)
                            /\ \A n \in s : Covered({selector}, family[n])
<1>1. PICK fold : /\ Folded(base, family, fold)
                  /\ FoldFunction(MeetAll, base, family) = fold[all]
  BY FoldIsFolded
<1> DEFINE wrong == {s \in SUBSET all : ~greatest(s, fold[s])}
           sizes == {Cardinality(s) : s \in wrong}
<1>2. \A s \in SUBSET all : IsFiniteSet(s) /\ Cardinality(s) \in Nat
  BY FS_Subset, FS_CardinalityType
<1>3. wrong = {}
  <2>1. SUFFICES ASSUME wrong # {} PROVE FALSE
    OBVIOUS
  <2>2. PICK s \in wrong : \A t \in wrong : Cardinality(s) <= Cardinality(t)
    <3>1. sizes \in SUBSET Nat /\ sizes # {}
      <4> HIDE DEF greatest
      <4>1. QED
        BY <1>2, <2>1
    <3>2. Min(sizes) \in sizes /\ \A n \in sizes : Min(sizes) <= n
      <4> HIDE DEF sizes
      <4>1. QED
        BY <3>1, MinOfNaturals
    <3>3. QED
      <4> HIDE DEF wrong
      <4>1. QED
        BY <3>2
  <2>3. s \in SUBSET all /\ ~greatest(s, fold[s])
    BY <2>2
  <2>4. CASE s = {}
    <3>1. fold[s] = base
      BY <1>1, <2>4 DEF Folded
    <3>2. QED
      BY <2>3, <2>4, <3>1
  <2>5. CASE s # {}
    <3>1. PICK n : /\ n \in s
                   /\ fold[s] = MeetAll(family[n], fold[s \ {n}])
      BY <1>1, <2>3, <2>5 DEF Folded
    <3> DEFINE rest == s \ {n}
    <3>2. rest \in SUBSET all /\ ~(Cardinality(s) <= Cardinality(rest))
      BY <1>2, <2>3, <3>1, FS_RemoveElement
    <3>3. greatest(rest, fold[rest])
      <4> HIDE DEF greatest, rest
      <4>1. QED
        BY <2>2, <3>2
    <3>4. /\ fold[rest] \in SUBSET Selectors
          /\ family[n] \in SUBSET Selectors
      BY <2>3, <3>1, <3>3
    <3>5. fold[s] \in SUBSET Selectors
      BY <3>1, <3>4, MeetsAreSelectors
    <3>6. ASSUME NEW selector \in Selectors
          PROVE  Covered({selector}, fold[s])
                    <=> /\ Covered({selector}, base)
                        /\ \A m \in s : Covered({selector}, family[m])
      <4>1. Covered({selector}, fold[s])
               <=> /\ Covered({selector}, family[n])
                   /\ Covered({selector}, fold[rest])
        <5>1. \A left, right \in SUBSET Selectors :
                 Covered({selector}, MeetAll(left, right))
                    <=> Covered({selector}, left) /\ Covered({selector}, right)
          BY MeetOfSetsIsGreatest
        <5> HIDE DEF rest
        <5>2. Covered({selector}, MeetAll(family[n], fold[rest]))
                 <=> Covered({selector}, family[n]) /\ Covered({selector}, fold[rest])
          BY <3>4, <5>1
        <5>3. fold[s] = MeetAll(family[n], fold[rest])
          BY <3>1 DEF rest
        <5>4. QED
          BY <5>2, <5>3
      <4>2. Covered({selector}, fold[rest])
               <=> /\ Covered({selector}, base)
                   /\ \A m \in rest : Covered({selector}, family[m])
        BY <3>3
      <4>3. QED
        BY <3>1, <4>1, <4>2
    <3>7. QED
      BY <2>3, <3>5, <3>6
  <2>6. QED
    BY <2>4, <2>5
<1>4. greatest(all, fold[all])
  <2> HIDE DEF greatest
  <2>1. QED
    BY <1>3
<1>5. QED
  BY <1>1, <1>4

-----------------------------------------------------------------------------
(* Grants.                                                                  *)

\* minimum_bound: the tightest of some bounds is at most each of them.
LEMMA TightestIsTight ==
    ASSUME NEW bounds \in SUBSET Bounds, NEW bound \in bounds,
           Unset \notin Nat
    PROVE  BoundAtMost(Tightest(bounds), bound)
<1>1. CASE bounds \subseteq {Unset}
  BY <1>1 DEF Tightest, BoundAtMost, Bounds
<1>2. CASE ~(bounds \subseteq {Unset})
  <2>1. /\ Min(bounds \ {Unset}) \in bounds \ {Unset}
        /\ \A n \in bounds \ {Unset} : Min(bounds \ {Unset}) <= n
    BY <1>2, MinOfNaturals DEF Bounds
  <2>2. QED
    BY <1>2, <2>1 DEF Tightest, BoundAtMost, Bounds
<1>3. QED
  BY <1>1, <1>2

\* A grant is within the limits of another, resources apart.
WithinLimits(grant, other) ==
    /\ grant.capability = other.capability
    /\ grant.modes \subseteq other.modes
    /\ grant.effect <= other.effect
    /\ grant.expires <= other.expires
    /\ EvidenceAtLeast(grant.evidence, other.evidence)
    /\ FreshnessAtLeast(grant.freshness, other.freshness)
    /\ other.preconditions \subseteq grant.preconditions

\* intersect_authority: no term is a deny, and what is granted is within the
\* limits of every term.
THEOREM IntersectionNarrows ==
    ASSUME Unset \notin Nat, NEW requirement, NEW terms, NEW grant,
           DOMAIN terms # {},
           WellLimited(requirement.descriptor),
           \A n \in DOMAIN terms : terms[n].allow =>
               WellLimited(terms[n].grant) /\ terms[n].grant.expires \in Nat,
           IntersectAuthority(requirement, terms) = Granted(grant)
    PROVE  /\ grant.capability = requirement.capability
           /\ grant.effect \in Nat
           /\ grant.expires \in Nat
           /\ \A n \in DOMAIN terms :
                 terms[n].allow /\ WithinLimits(grant, terms[n].grant)
<1> DEFINE allows == GrantsOf(terms)
           grants == Range(allows)
           d == requirement.descriptor
           evidence == {d.evidence} \cup {g.evidence : g \in grants}
           freshness == {d.freshness} \cup {g.freshness : g \in grants}
           resources == ResourcesMeet(requirement, allows)
           modes == {m \in d.modes : \A g \in grants : m \in g.modes}
           made == [capability    |-> requirement.capability,
                    resources     |-> resources,
                    modes         |-> modes,
                    effect        |-> Min({d.effect} \cup {g.effect : g \in grants}),
                    expires       |-> Min({g.expires : g \in grants}),
                    evidence      |-> EvidenceMeet(evidence),
                    freshness     |-> FreshnessMeet(freshness),
                    preconditions |-> d.preconditions \cup
                                         UNION {g.preconditions : g \in grants}]
           absent == \/ terms = <<>>
                     \/ \E n \in DOMAIN terms : ~terms[n].allow
                     \/ \E g \in grants : g.capability # requirement.capability
                     \/ resources = {}
                     \/ modes = {}
<1>1. ~absent /\ ~EvidenceConflicts(evidence) /\ grant = made
  <2>1. IntersectAuthority(requirement, terms) =
            CASE absent -> Absent
              [] EvidenceConflicts(evidence) -> Refused("denied")
              [] OTHER -> Granted(made)
    BY Zenon DEF IntersectAuthority
  <2> HIDE DEF absent, made
  <2>2. Granted(grant) # Absent /\ Granted(grant) # Refused("denied")
    BY DEF Granted, Absent, Refused
  <2>3. QED
    BY <2>1, <2>2 DEF Granted
<1>1a. /\ \A n \in DOMAIN terms : terms[n].allow
      /\ \A g \in grants : g.capability = requirement.capability
  BY <1>1
<1>2. /\ grants = {terms[n].grant : n \in DOMAIN terms}
      /\ \A g \in grants : WellLimited(g) /\ g.expires \in Nat
  BY <1>1a DEF GrantsOf, Range
<1>3. grants # {}
  BY <1>2
<1>4. /\ grant.effect \in Nat /\ grant.effect <= d.effect
      /\ \A g \in grants : grant.effect <= g.effect
  <2> DEFINE effects == {d.effect} \cup {g.effect : g \in grants}
  <2>1. effects \in SUBSET Nat /\ effects # {}
    BY <1>2 DEF WellLimited
  <2>2. /\ Min(effects) \in effects
        /\ \A n \in effects : Min(effects) <= n
    BY <2>1, MinOfNaturals
  <2>3. QED
    BY <1>1, <2>1, <2>2
<1>5. /\ grant.expires \in Nat
      /\ \A g \in grants : grant.expires <= g.expires
  <2> DEFINE times == {g.expires : g \in grants}
  <2>1. times \in SUBSET Nat /\ times # {}
    BY <1>2, <1>3
  <2>2. /\ Min(times) \in times
        /\ \A n \in times : Min(times) <= n
    BY <2>1, MinOfNaturals
  <2>3. QED
    BY <1>1, <2>1, <2>2
<1>6. ASSUME NEW e \in evidence
      PROVE  EvidenceAtLeast(grant.evidence, e)
  <2>1. ASSUME NEW kind \in Evidences, e[kind] # Unset
        PROVE  e[kind] = grant.evidence[kind]
    <3>1. e[kind] \in Required(evidence, kind)
      BY <2>1 DEF Required
    <3>2. \A x, y \in Required(evidence, kind) : x = y
      BY <1>1 DEF EvidenceConflicts
    <3>3. grant.evidence[kind] = CHOOSE x \in Required(evidence, kind) : TRUE
      BY <1>1, <3>1 DEF EvidenceMeet
    <3>4. QED
      BY <3>1, <3>2, <3>3
  <2>2. QED
    BY <2>1 DEF EvidenceAtLeast
<1>7. ASSUME NEW f \in freshness
      PROVE  FreshnessAtLeast(grant.freshness, f)
  <2> DEFINE ages == {x.age : x \in freshness}
             inputs == {x.input : x \in freshness}
  <2>1. /\ ages \in SUBSET Bounds
        /\ inputs \in SUBSET Bounds
    BY <1>2 DEF WellLimited
  <2>2. /\ grant.freshness.age = Tightest(ages)
        /\ grant.freshness.input = Tightest(inputs)
        /\ f.policy => grant.freshness.policy
    BY <1>1 DEF FreshnessMeet
  <2>3. /\ BoundAtMost(Tightest(ages), f.age)
        /\ BoundAtMost(Tightest(inputs), f.input)
    BY <2>1, TightestIsTight
  <2>4. QED
    BY <2>2, <2>3 DEF FreshnessAtLeast
<1>8. ASSUME NEW n \in DOMAIN terms
      PROVE  WithinLimits(grant, terms[n].grant)
  <2>1. terms[n].grant \in grants
    BY <1>2
  <2>2. /\ grant.capability = terms[n].grant.capability
        /\ grant.modes \subseteq terms[n].grant.modes
        /\ terms[n].grant.preconditions \subseteq grant.preconditions
    BY <1>1a, <1>1, <2>1
  <2>3. QED
    BY <1>4, <1>5, <1>6, <1>7, <2>1, <2>2 DEF WithinLimits
<1>9. QED
  BY <1>1a, <1>1, <1>4, <1>5, <1>8

\* intersect_authority: a grant reaches exactly what the locked requirement and
\* every term reach, whichever order the terms are folded in.
THEOREM IntersectionReaches ==
    ASSUME NEW requirement, NEW terms, NEW grant,
           IsFiniteSet(DOMAIN terms),
           requirement.resources \in SUBSET Selectors,
           \A n \in DOMAIN terms : terms[n].allow =>
               terms[n].grant.resources \in SUBSET Selectors,
           IntersectAuthority(requirement, terms) = Granted(grant)
    PROVE  /\ grant.capability = requirement.capability
           /\ \A n \in DOMAIN terms : terms[n].allow
           /\ grant.resources \in SUBSET Selectors
           /\ \A selector \in Selectors :
                 Covered({selector}, grant.resources)
                    <=> /\ Covered({selector}, requirement.resources)
                        /\ \A n \in DOMAIN terms :
                              Covered({selector}, terms[n].grant.resources)
<1> DEFINE allows == GrantsOf(terms)
           family == [n \in DOMAIN allows |-> allows[n].resources]
           resources == ResourcesMeet(requirement, allows)
<1>1. /\ grant.capability = requirement.capability
      /\ \A n \in DOMAIN terms : terms[n].allow
      /\ grant.resources = resources
  <2> HIDE DEF resources
  <2>1. Granted(grant) # Absent /\ Granted(grant) # Refused("denied")
    BY DEF Granted, Absent, Refused
  <2>2. QED
    BY <2>1 DEF IntersectAuthority, Granted, resources
<1>2. /\ DOMAIN family = DOMAIN terms
      /\ \A n \in DOMAIN terms : family[n] = terms[n].grant.resources
  BY <1>1 DEF GrantsOf
<1>3. resources = FoldFunction(MeetAll, requirement.resources, family)
  BY DEF ResourcesMeet
<1> HIDE DEF family, resources
<1>4. /\ IsFiniteSet(DOMAIN family)
      /\ \A n \in DOMAIN family : family[n] \in SUBSET Selectors
  BY <1>1, <1>2
<1>5. /\ resources \in SUBSET Selectors
      /\ \A selector \in Selectors :
            Covered({selector}, resources)
               <=> /\ Covered({selector}, requirement.resources)
                   /\ \A n \in DOMAIN family : Covered({selector}, family[n])
  BY <1>3, <1>4, FoldIsGreatest
<1>6. QED
  BY <1>1, <1>2, <1>5

-----------------------------------------------------------------------------
(* The invariant.                                                           *)

\* What the planes of the running provider make of a grant, resources apart.
OfPlanes(grant) ==
    /\ grant.effect \in Nat
    /\ grant.expires \in Nat
    /\ ~DeniedSomewhere(grant.capability)
    /\ \A s \in Running.sources : \A domain \in DOMAIN s.planes :
          \E t \in s.planes[domain] :
             t.allow /\ t.grant.capability = grant.capability
    /\ \A term \in Allowed(grant.capability) : WithinLimits(grant, term)

\* A selector is reached by what the request asks for, by the requirement that
\* locks it and by every term of the running provider's planes.
ReachedByAll(id, capability, selector) ==
    /\ \A p \in Requested(Requests[id]) :
          p.capability = capability => Covered({selector}, p.resources)
    /\ \A n \in DOMAIN Requests[id].requirements :
          Requests[id].requirements[n].capability = capability =>
             Covered({selector}, Requests[id].requirements[n].resources)
    /\ \A term \in Allowed(capability) : Covered({selector}, term.resources)

\* A grant reaches exactly that.
ReachesTheMeet(id, grant) ==
    /\ grant.resources \subseteq Selectors
    /\ \A selector \in Selectors :
          Covered({selector}, grant.resources)
             <=> ReachedByAll(id, grant.capability, selector)

\* What admission makes of a request and the planes.
MadeFor(id, grant) == OfPlanes(grant) /\ ReachesTheMeet(id, grant)

\* The locks of an admitted request are of different capabilities, each of
\* which it asks for.
Mapped(request) ==
    /\ \A n \in DOMAIN request.requirements : \E p \in Requested(request) :
          p.capability = request.requirements[n].capability
    /\ \A m, n \in DOMAIN request.requirements : m # n =>
          request.requirements[m].capability # request.requirements[n].capability

AdmitFields == {"pc", "request", "principals", "revisions", "at", "asked", "left",
                "grants", "denials"}

\* What an admission under way has collected.
AdmitSound(admit) ==
    \/ admit = Idle
    \/ /\ admit = [field \in AdmitFields |-> admit[field]]
       /\ admit.request \in DOMAIN Requests
       /\ Mapped(Requests[admit.request])
       /\ admit.pc \in {"ask", "listing"} =>
             admit.at \in DOMAIN Requests[admit.request].requirements
       /\ \A grant \in admit.grants : MadeFor(admit.request, grant)

AdmissionInv ==
    /\ now \in Nat
    /\ deployment \in DOMAIN Deployments
    /\ admits = [a \in Admits |-> admits[a]]
    /\ \A a \in Admits : AdmitSound(admits[a])
    /\ \A set \in admissions :
          /\ set.request \in DOMAIN Requests
          /\ \A grant \in set.grants : MadeFor(set.request, grant)

-----------------------------------------------------------------------------
(* A grant.                                                                 *)

\* The types of the running deployment's terms.
LEMMA RunningWellTyped ==
    ASSUME deployment \in DOMAIN Deployments
    PROVE  /\ Unset \notin Nat
           /\ Running.expires \in Nat
           /\ IsFiniteSet(Running.sources)
           /\ \A s, t \in Running.sources :
                 s # t => DOMAIN s.planes \cap DOMAIN t.planes = {}
           /\ \A s \in Running.sources :
                 /\ DOMAIN s.planes \subseteq Domains
                 /\ \A domain \in DOMAIN s.planes :
                       /\ IsFiniteSet(s.planes[domain])
                       /\ \A term \in s.planes[domain] : WellTyped(term)
  BY AdmissionAssumption DEF Running, WellDeployed

\* admit_capability: a grant is made of every plane's terms.
LEMMA GrantedOfPlanes ==
    ASSUME deployment \in DOMAIN Deployments,
           NEW requested, NEW requirement, NEW grant,
           WellLimited(requirement.descriptor),
           AdmitCapability(Running, requested, requirement) = Granted(grant)
    PROVE  OfPlanes(grant)
<1> DEFINE planes == PlaneTerms(Running, requested.capability)
           stated == UNION {{domain} \X planes[domain] : domain \in Domains}
           boundary == <<"request", Allow(RequestBoundary(requirement, requested,
                                                          Running.expires))>>
           terms == [term \in stated \cup {boundary} |-> term[2]]
<1>1. /\ \A domain \in Domains : planes[domain] # {}
      /\ IntersectAuthority(requirement, terms) = Granted(grant)
  BY DEF AdmitCapability, Absent, Refused, Granted
<1>2. \A s \in Running.sources : \A domain \in DOMAIN s.planes :
          \A t \in s.planes[domain] :
              TermMatches(t, requested.capability) =>
                 /\ domain \in Domains
                 /\ t \in planes[domain]
                 /\ <<domain, t>> \in DOMAIN terms
                 /\ terms[<<domain, t>>] = t
  BY RunningWellTyped DEF PlaneTerms
<1>3. ASSUME NEW domain \in Domains, NEW t \in planes[domain]
      PROVE  /\ TermMatches(t, requested.capability)
             /\ \E s \in Running.sources :
                   domain \in DOMAIN s.planes /\ t \in s.planes[domain]
  BY <1>3 DEF PlaneTerms
<1>4. /\ WellLimited(terms[boundary].grant)
      /\ terms[boundary].grant.expires \in Nat
      /\ boundary \in DOMAIN terms
  BY RunningWellTyped DEF Allow, RequestBoundary, WellLimited
<1>5. ASSUME NEW n \in DOMAIN terms, terms[n].allow
      PROVE  WellLimited(terms[n].grant) /\ terms[n].grant.expires \in Nat
  <2>1. CASE n \in stated
    <3>1. PICK domain \in Domains : n[2] \in planes[domain]
      BY <2>1
    <3>2. WellTyped(n[2])
      BY <1>3, <3>1, RunningWellTyped
    <3>3. QED
      BY <1>5, <2>1, <3>2 DEF WellTyped
  <2>2. QED
    BY <1>4, <2>1
<1> HIDE DEF terms
<1>6. /\ grant.effect \in Nat
      /\ grant.expires \in Nat
      /\ \A n \in DOMAIN terms :
            terms[n].allow /\ WithinLimits(grant, terms[n].grant)
  BY <1>1, <1>4, <1>5, IntersectionNarrows, RunningWellTyped
<1>7. \A s \in Running.sources : \A domain \in DOMAIN s.planes :
          \A t \in s.planes[domain] :
              TermMatches(t, requested.capability) =>
                 t.allow /\ WithinLimits(grant, t.grant)
  BY <1>2, <1>6
<1>8. grant.capability = requested.capability
  <2>1. PICK t : t \in planes["package"]
    BY <1>1 DEF Domains
  <2>2. TermMatches(t, requested.capability) /\ t.allow /\ WithinLimits(grant, t.grant)
    BY <1>3, <1>7, <2>1 DEF Domains
  <2>3. QED
    BY <2>2 DEF TermMatches, WithinLimits
<1>9. ~DeniedSomewhere(grant.capability)
  <2>1. SUFFICES ASSUME NEW s \in Running.sources, NEW domain \in DOMAIN s.planes,
                        Deny(grant.capability.name) \in s.planes[domain]
                 PROVE  FALSE
    BY DEF DeniedSomewhere, AllPlanes
  <2>2. /\ TermMatches(Deny(grant.capability.name), requested.capability)
        /\ ~Deny(grant.capability.name).allow
    BY <1>8 DEF TermMatches, Deny
  <2>3. QED
    BY <1>7, <2>1, <2>2
<1>10. ASSUME NEW s \in Running.sources, NEW domain \in DOMAIN s.planes
       PROVE  \E t \in s.planes[domain] :
                 t.allow /\ t.grant.capability = grant.capability
  <2>1. domain \in Domains
    BY RunningWellTyped
  <2>2. PICK t : t \in planes[domain]
    BY <1>1, <2>1
  <2>3. PICK x \in Running.sources : domain \in DOMAIN x.planes /\ t \in x.planes[domain]
    BY <1>3, <2>1, <2>2
  <2>4. x = s
    BY <2>3, RunningWellTyped
  <2>5. TermMatches(t, requested.capability) /\ t.allow
    BY <1>3, <1>7, <2>1, <2>2, <2>3
  <2>6. QED
    BY <1>8, <2>3, <2>4, <2>5 DEF TermMatches
<1>11. ASSUME NEW term \in Allowed(grant.capability)
       PROVE  WithinLimits(grant, term)
  <2>1. PICK s, domain, t :
             /\ s \in Running.sources /\ domain \in DOMAIN s.planes
             /\ t \in s.planes[domain]
             /\ t.allow /\ t.grant.capability = grant.capability /\ t.grant = term
    BY <1>11 DEF Allowed, AllPlanes
  <2>2. TermMatches(t, requested.capability)
    BY <1>8, <2>1 DEF TermMatches
  <2>3. QED
    BY <1>7, <2>1, <2>2
<1>12. QED
  BY <1>6, <1>9, <1>10, <1>11 DEF OfPlanes

\* A term is of one plane, and of finitely many.
LEMMA FinitelyManyTerms ==
    ASSUME deployment \in DOMAIN Deployments, NEW capability
    PROVE  LET planes == PlaneTerms(Running, capability)
           IN IsFiniteSet(UNION {{domain} \X planes[domain] : domain \in Domains})
<1> DEFINE planes == PlaneTerms(Running, capability)
           held(domain) == {x \in Running.sources : domain \in DOMAIN x.planes}
           terms(s, domain) == {t \in s.planes[domain] : TermMatches(t, capability)}
           ofDomain == [domain \in Domains |-> {domain} \X planes[domain]]
<1>1. ASSUME NEW domain \in Domains
      PROVE  IsFiniteSet(planes[domain])
  <2> DEFINE ofSource == [s \in held(domain) |-> terms(s, domain)]
             all == {terms(s, domain) : s \in held(domain)}
  <2>1. IsFiniteSet(held(domain))
    BY RunningWellTyped, FS_Subset
  <2>2. ofSource \in Surjection(held(domain), all)
    BY DEF Surjection
  <2>3. IsFiniteSet(all)
    <3> HIDE DEF ofSource, all, held
    <3>1. QED
      BY <2>1, <2>2, FS_Surjection
  <2>4. \A T \in all : IsFiniteSet(T)
    <3>1. ASSUME NEW s \in held(domain) PROVE IsFiniteSet(terms(s, domain))
      BY RunningWellTyped, FS_Subset
    <3>2. QED
      BY <3>1
  <2>5. IsFiniteSet(UNION all)
    <3> HIDE DEF all
    <3>1. QED
      BY <2>3, <2>4, FS_UNION
  <2>6. planes[domain] = UNION all
    BY DEF PlaneTerms
  <2>7. QED
    BY <2>5, <2>6
<1>2. IsFiniteSet(Domains)
  <2>1. IsFiniteSet({"package"} \cup {"deployment"} \cup {"human"})
    BY FS_Singleton, FS_AddElement
  <2>2. IsFiniteSet({"workload"} \cup {"task"} \cup {"session"})
    BY FS_Singleton, FS_AddElement
  <2>3. Domains = ({"package"} \cup {"deployment"} \cup {"human"})
                     \cup ({"workload"} \cup {"task"} \cup {"session"})
    BY DEF Domains
  <2>4. QED
    BY <2>1, <2>2, <2>3, FS_Union
<1> DEFINE stated == {{domain} \X planes[domain] : domain \in Domains}
<1>3. IsFiniteSet(stated)
  <2>1. ofDomain \in Surjection(Domains, stated)
    BY DEF Surjection
  <2> HIDE DEF ofDomain, stated
  <2>2. QED
    BY <1>2, <2>1, FS_Surjection
<1>4. \A T \in stated : IsFiniteSet(T)
  <2>1. ASSUME NEW domain \in Domains
        PROVE  IsFiniteSet({domain} \X planes[domain])
    <3> HIDE DEF planes
    <3>1. QED
      BY <1>1, FS_Singleton, FS_Product
  <2>2. QED
    BY <2>1
<1>5. QED
  <2> HIDE DEF stated
  <2>1. IsFiniteSet(UNION stated)
    BY <1>3, <1>4, FS_UNION
  <2>2. QED
    BY <2>1 DEF stated

\* admit_capability and intersect_resource_sets: the grant of a requirement
\* reaches what the request, its lock and every plane's terms reach, and no
\* other requirement of the request has a say.
LEMMA GrantedReaches ==
    ASSUME deployment \in DOMAIN Deployments,
           NEW id \in DOMAIN Requests, Mapped(Requests[id]),
           NEW at \in DOMAIN Requests[id].requirements,
           NEW requirement, requirement = Requests[id].requirements[at],
           NEW requested \in Requested(Requests[id]),
           requested.capability = requirement.capability,
           NEW grant,
           AdmitCapability(Running, requested, requirement) = Granted(grant)
    PROVE  ReachesTheMeet(id, grant)
<1> DEFINE planes == PlaneTerms(Running, requested.capability)
           stated == UNION {{domain} \X planes[domain] : domain \in Domains}
           boundary == <<"request", Allow(RequestBoundary(requirement, requested,
                                                          Running.expires))>>
           terms == [term \in stated \cup {boundary} |-> term[2]]
           capability == requirement.capability
<1>1. IntersectAuthority(requirement, terms) = Granted(grant)
  BY DEF AdmitCapability, Absent, Refused, Granted
<1>2. /\ requested.resources \in SUBSET Selectors
      /\ requirement.resources \in SUBSET Selectors
  BY AdmissionAssumption
<1>3. /\ terms[boundary].allow
      /\ terms[boundary].grant.resources = requested.resources
      /\ boundary \in DOMAIN terms
      /\ DOMAIN terms = stated \cup {boundary}
  BY DEF Allow, RequestBoundary
<1>4. \A n \in stated : /\ terms[n] = n[2]
                        /\ \E domain \in Domains : n[2] \in planes[domain]
  OBVIOUS
<1>5. \A domain \in Domains : \A t \in planes[domain] :
          /\ TermMatches(t, capability)
          /\ \E s \in Running.sources :
                domain \in DOMAIN s.planes /\ t \in s.planes[domain]
  BY DEF PlaneTerms
<1>6. ASSUME NEW term \in Allowed(capability)
      PROVE  \E n \in stated : n[2].grant = term
  <2>1. PICK s, domain, t :
             /\ s \in Running.sources /\ domain \in DOMAIN s.planes
             /\ t \in s.planes[domain]
             /\ t.allow /\ t.grant.capability = capability /\ t.grant = term
    BY DEF Allowed, AllPlanes
  <2>2. domain \in Domains /\ t \in planes[domain]
    BY <2>1, RunningWellTyped DEF PlaneTerms, TermMatches
  <2>3. <<domain, t>> \in stated
    BY <2>2
  <2>4. <<domain, t>>[2].grant = term
    BY <2>1
  <2> HIDE DEF stated
  <2>5. QED
    BY <2>3, <2>4
<1>7. IsFiniteSet(DOMAIN terms)
  <2>1. IsFiniteSet(stated)
    BY FinitelyManyTerms
  <2> HIDE DEF stated, boundary, terms
  <2>2. QED
    BY <1>3, <2>1, FS_AddElement
<1> HIDE DEF planes, stated, boundary, terms
<1>8. ASSUME NEW n \in DOMAIN terms, terms[n].allow
      PROVE  terms[n].grant.resources \in SUBSET Selectors
  <2>1. CASE n = boundary
    BY <1>2, <1>3, <2>1
  <2>2. CASE n \in stated
    <3>1. WellTyped(n[2])
      BY <1>4, <1>5, <2>2, RunningWellTyped
    <3>2. QED
      BY <1>4, <1>8, <2>2, <3>1 DEF WellTyped
  <2>3. QED
    BY <1>3, <2>1, <2>2
<1>9. /\ grant.capability = capability
      /\ \A n \in DOMAIN terms : terms[n].allow
      /\ grant.resources \in SUBSET Selectors
      /\ \A selector \in Selectors :
            Covered({selector}, grant.resources)
               <=> /\ Covered({selector}, requirement.resources)
                   /\ \A n \in DOMAIN terms :
                         Covered({selector}, terms[n].grant.resources)
  BY <1>1, <1>2, <1>7, <1>8, IntersectionReaches
<1>10. ASSUME NEW n \in stated
       PROVE  terms[n].grant \in Allowed(capability)
  <2>1. PICK domain \in Domains : n[2] \in planes[domain]
    BY <1>4
  <2>2. PICK s \in Running.sources : domain \in DOMAIN s.planes /\ n[2] \in s.planes[domain]
    BY <1>5, <2>1
  <2>3. n[2].allow /\ n[2].grant.capability = capability
    BY <1>3, <1>4, <1>5, <1>9, <2>1 DEF TermMatches
  <2>4. QED
    BY <1>4, <2>2, <2>3 DEF Allowed, AllPlanes
<1>11. \A p \in Requested(Requests[id]) : p.capability = capability => p = requested
  BY AdmissionAssumption DEF WellRequested
<1>12. \A n \in DOMAIN Requests[id].requirements :
           Requests[id].requirements[n].capability = capability => n = at
  BY DEF Mapped
<1>13. ASSUME NEW selector \in Selectors
       PROVE  Covered({selector}, grant.resources)
                 <=> ReachedByAll(id, capability, selector)
  <2> DEFINE covers(resources) == Covered({selector}, resources)
  <2> HIDE DEF covers
  <2>1. covers(grant.resources)
           <=> /\ covers(requirement.resources)
               /\ \A n \in DOMAIN terms : covers(terms[n].grant.resources)
    BY <1>9 DEF covers
  <2>2. (\A n \in DOMAIN terms : covers(terms[n].grant.resources))
           <=> /\ covers(requested.resources)
               /\ \A term \in Allowed(capability) : covers(term.resources)
    <3>1. ASSUME \A n \in DOMAIN terms : covers(terms[n].grant.resources),
                 NEW term \in Allowed(capability)
          PROVE  covers(term.resources)
      <4>1. PICK n \in stated : n[2].grant = term
        BY <1>6
      <4>2. QED
        BY <1>3, <1>4, <3>1, <4>1
    <3>2. QED
      BY <1>3, <1>10, <3>1
  <2>3. ReachedByAll(id, capability, selector)
           <=> /\ covers(requested.resources)
               /\ covers(requirement.resources)
               /\ \A term \in Allowed(capability) : covers(term.resources)
    BY <1>11, <1>12 DEF ReachedByAll, covers
  <2>4. QED
    BY <2>1, <2>2, <2>3 DEF covers
<1>14. QED
  BY <1>9, <1>13 DEF ReachesTheMeet

-----------------------------------------------------------------------------
(* The steps of an admission.                                               *)

\* The types of the requirements of a request.
LEMMA RequirementsWellTyped ==
    ASSUME NEW id \in DOMAIN Requests
    PROVE  LET requirements == Requests[id].requirements
           IN /\ Len(requirements) \in Nat
              /\ DOMAIN requirements = 1 .. Len(requirements)
              /\ \A n \in DOMAIN requirements : WellLimited(requirements[n].descriptor)
  BY AdmissionAssumption

LEMMA AtRequirementSound ==
    ASSUME NEW admit, AdmitSound(admit), admit # Idle, NEW at \in Nat \ {0}
    PROVE  AdmitSound(AtRequirement(admit, at))
<1> DEFINE next == [admit EXCEPT !.at = at]
           left == RequestedFor(next).resources
<1>1. /\ admit = [field \in AdmitFields |-> admit[field]]
      /\ admit.request \in DOMAIN Requests
      /\ Mapped(Requests[admit.request])
      /\ \A grant \in admit.grants : MadeFor(admit.request, grant)
  BY DEF AdmitSound
<1> HIDE DEF left
<1>2. CASE at > Len(Requests[admit.request].requirements)
  <2>1. AtRequirement(admit, at) = [next EXCEPT !.pc = "persist"]
    BY <1>2 DEF AtRequirement
  <2>2. QED
    BY <1>1, <2>1 DEF AdmitSound, AdmitFields
<1>3. CASE ~(at > Len(Requests[admit.request].requirements))
  <2>1. AtRequirement(admit, at) = [next EXCEPT !.pc = "ask", !.left = left]
    BY <1>3 DEF AtRequirement, left
  <2>2. at \in DOMAIN Requests[admit.request].requirements
    BY <1>1, <1>3, RequirementsWellTyped
  <2>3. QED
    BY <1>1, <2>1, <2>2 DEF AdmitSound, AdmitFields
<1>4. QED
  BY <1>2, <1>3

LEMMA DecideSound ==
    ASSUME deployment \in DOMAIN Deployments,
           NEW admit, AdmitSound(admit), admit # Idle, NEW admissible,
           admit.at \in DOMAIN Requests[admit.request].requirements
    PROVE  AdmitSound(Decide(Running, admit, admissible))
<1> DEFINE outcome == IF admissible
                        THEN AdmitCapability(Running, RequestedFor(admit),
                                             Requirement(admit))
                        ELSE Absent
           granted == [admit EXCEPT !.grants = @ \cup {outcome.grant}]
           denied == [admit EXCEPT !.denials = @ \cup {Requirement(admit).capability}]
<1>1. /\ admit = [field \in AdmitFields |-> admit[field]]
      /\ admit.request \in DOMAIN Requests
      /\ Mapped(Requests[admit.request])
      /\ \A grant \in admit.grants : MadeFor(admit.request, grant)
  BY DEF AdmitSound
<1>2. admit.at + 1 \in Nat \ {0}
  BY <1>1, RequirementsWellTyped
<1>3. \/ /\ outcome.status = "granted"
         /\ Decide(Running, admit, admissible) = AtRequirement(granted, admit.at + 1)
      \/ Decide(Running, admit, admissible) = AtRequirement(denied, admit.at + 1)
      \/ Decide(Running, admit, admissible) = Idle
  <2> DEFINE grants == outcome.status = "granted"
             denies == ~Requirement(admit).required
                          /\ outcome \in {Absent, Refused("denied")}
             afterGrant == AtRequirement(granted, admit.at + 1)
             afterDenial == AtRequirement(denied, admit.at + 1)
  <2>1. Decide(Running, admit, admissible) =
            CASE grants -> afterGrant [] denies -> afterDenial [] OTHER -> Idle
    BY Zenon DEF Decide
  <2> HIDE DEF grants, denies, afterGrant, afterDenial
  <2>2. \/ grants /\ Decide(Running, admit, admissible) = afterGrant
        \/ Decide(Running, admit, admissible) = afterDenial
        \/ Decide(Running, admit, admissible) = Idle
    BY <2>1
  <2>3. QED
    BY <2>2 DEF grants, afterGrant, afterDenial
<1>4. ASSUME outcome.status = "granted"
      PROVE  AdmitSound(AtRequirement(granted, admit.at + 1))
  <2>1. WellLimited(Requirement(admit).descriptor)
    BY <1>1, RequirementsWellTyped DEF Requirement
  <2>2. AdmitCapability(Running, RequestedFor(admit), Requirement(admit))
            = Granted(outcome.grant)
    BY <1>4 DEF AdmitCapability, IntersectAuthority, Absent, Refused, Granted
  <2>3. OfPlanes(outcome.grant)
    BY <2>1, <2>2, GrantedOfPlanes
  <2>4. /\ RequestedFor(admit) \in Requested(Requests[admit.request])
        /\ RequestedFor(admit).capability = Requirement(admit).capability
    BY <1>1 DEF RequestedFor, Requirement, Mapped
  <2>5. ReachesTheMeet(admit.request, outcome.grant)
    BY <1>1, <2>2, <2>4, GrantedReaches DEF Requirement
  <2>6. AdmitSound(granted) /\ granted # Idle
    BY <1>1, <2>3, <2>5 DEF MadeFor, AdmitSound, AdmitFields, Idle
  <2>7. QED
    BY <1>2, <2>6, AtRequirementSound
<1>5. AdmitSound(AtRequirement(denied, admit.at + 1))
  <2>1. AdmitSound(denied) /\ denied # Idle
    BY <1>1 DEF AdmitSound, AdmitFields, Idle
  <2>2. QED
    BY <1>2, <2>1, AtRequirementSound
<1>6. QED
  BY <1>3, <1>4, <1>5 DEF AdmitSound

\* What an admission under way may become without a trace elsewhere.
LEMMA AdvanceKeeps ==
    ASSUME AdmissionInv, NEW a \in Admits, NEW admit, AdmitSound(admit),
           Advance(a, admit),
           UNCHANGED <<now, deployment, relation, admissions, answered>>
    PROVE  AdmissionInv'
<1>1. /\ admits' = [b \in Admits |-> admits'[b]]
      /\ \A b \in Admits : AdmitSound(admits'[b])
  BY DEF AdmissionInv, Advance
<1>2. \A id, grant : MadeFor(id, grant)' <=> MadeFor(id, grant)
  BY DEF MadeFor, OfPlanes, ReachesTheMeet, ReachedByAll, DeniedSomewhere,
         Allowed, AllPlanes, Running
<1>3. \A b \in Admits : AdmitSound(admits[b])'
  BY <1>1, <1>2 DEF AdmitSound
<1>4. QED
  BY <1>1, <1>2, <1>3 DEF AdmissionInv

LEMMA AdmitStarts ==
    ASSUME AdmissionInv, NEW a \in Admits, NEW id \in DOMAIN Requests,
           NEW credential, Admit(a, id, credential)
    PROVE  AdmissionInv'
<1> DEFINE admit == [pc |-> "revisions", request |-> id,
                     principals |-> Principals(credential), revisions |-> {},
                     at |-> 0, asked |-> {}, left |-> {}, grants |-> {},
                     denials |-> {}]
<1>1. Mapped(Requests[id])
  BY DEF Admit, Mapped, MapsOneToOne, LocksMatch, Requested
<1>1a. AdmitSound(admit)
  BY <1>1 DEF AdmitSound, AdmitFields
<1>2. /\ Advance(a, admit)
      /\ UNCHANGED <<now, deployment, relation, admissions, answered>>
  BY DEF Admit
<1>3. QED
  BY <1>1a, <1>2, AdvanceKeeps

LEMMA ReadRevisionsKeeps ==
    ASSUME AdmissionInv, NEW a \in Admits, ReadRevisions(a)
    PROVE  AdmissionInv'
<1> DEFINE next == [admits[a] EXCEPT !.revisions = Running.backend]
<1>1. AdmitSound(admits[a]) /\ admits[a] # Idle
  BY DEF AdmissionInv, ReadRevisions, Idle
<1>2. AdmitSound(next) /\ next # Idle
  BY <1>1 DEF ReadRevisions, AdmitSound, AdmitFields, Idle
<1>3. AdmitSound(AtRequirement(next, 1))
  <2> HIDE DEF next
  <2>1. QED
    BY <1>2, AtRequirementSound
<1>4. AdmitSound(Idle)
  BY DEF AdmitSound
<1>5. QED
  BY <1>3, <1>4, AdvanceKeeps DEF ReadRevisions

LEMMA AskKeeps ==
    ASSUME AdmissionInv, NEW a \in Admits, Ask(a)
    PROVE  AdmissionInv'
<1>1. AdmitSound(admits[a]) /\ admits[a] # Idle
  BY DEF AdmissionInv, Ask, Idle
<1>2. ASSUME NEW selector
      PROVE  AdmitSound([admits[a] EXCEPT !.pc = "listing", !.asked = {selector},
                                          !.left = @ \ {selector}])
  BY <1>1 DEF Ask, AdmitSound, AdmitFields
<1>3. AdmitSound(Idle)
  BY DEF AdmitSound
<1>4. QED
  BY <1>2, <1>3, AdvanceKeeps DEF Ask

LEMMA AskNothingKeeps ==
    ASSUME AdmissionInv, NEW a \in Admits, AskNothing(a)
    PROVE  AdmissionInv'
<1>1. /\ AdmitSound(admits[a]) /\ admits[a] # Idle
      /\ deployment \in DOMAIN Deployments
      /\ admits[a].at \in DOMAIN Requests[admits[a].request].requirements
  BY DEF AdmissionInv, AskNothing, AdmitSound, Idle
<1>2. AdmitSound(Decide(Running, admits[a], TRUE))
  BY <1>1, DecideSound
<1>3. QED
  BY <1>2, AdvanceKeeps DEF AskNothing

LEMMA AnsweredKeeps ==
    ASSUME AdmissionInv, NEW a \in Admits, Answered(a)
    PROVE  AdmissionInv'
<1> DEFINE answer == [admits[a] EXCEPT !.pc = "ask", !.asked = {}]
           admissible == \A s \in admits[a].asked :
               Related(answer.principals, Requirement(answer).capability, s)
<1>1. /\ AdmitSound(admits[a]) /\ admits[a] # Idle
      /\ deployment \in DOMAIN Deployments
      /\ admits[a].at \in DOMAIN Requests[admits[a].request].requirements
  BY DEF AdmissionInv, Answered, AdmitSound, Idle
<1>2. /\ AdmitSound(answer) /\ answer # Idle
      /\ answer.at \in DOMAIN Requests[answer.request].requirements
  BY <1>1 DEF Answered, AdmitSound, AdmitFields, Idle
<1>3. /\ \/ Advance(a, answer)
         \/ Advance(a, Decide(Running, answer, admissible))
      /\ UNCHANGED <<now, deployment, relation, admissions, answered>>
  BY DEF Answered
<1> HIDE DEF answer, admissible
<1>4. AdmitSound(Decide(Running, answer, admissible))
  BY <1>1, <1>2, DecideSound
<1>5. QED
  BY <1>2, <1>3, <1>4, AdvanceKeeps

\* The grant set that is kept has the grants that were collected.
LEMMA PersistKeeps ==
    ASSUME AdmissionInv, NEW a \in Admits, Persist(a)
    PROVE  AdmissionInv'
<1>1. AdmitSound(admits[a]) /\ admits[a] # Idle
  BY DEF AdmissionInv, Persist, Idle
<1>2. LET set == GrantSet(Running, admits[a])
      IN /\ set.request \in DOMAIN Requests
         /\ \A grant \in set.grants : MadeFor(set.request, grant)
  BY <1>1 DEF AdmitSound, GrantSet
<1>3. \A id, grant : MadeFor(id, grant)' <=> MadeFor(id, grant)
  BY DEF Persist, MadeFor, OfPlanes, ReachesTheMeet, ReachedByAll, DeniedSomewhere,
         Allowed, AllPlanes, Running
<1>4. /\ admits' = [b \in Admits |-> admits'[b]]
      /\ \A b \in Admits : AdmitSound(admits'[b])
  BY DEF AdmissionInv, Persist, Advance, AdmitSound
<1>5. \A b \in Admits : AdmitSound(admits[b])'
  BY <1>3, <1>4 DEF AdmitSound
<1>6. admissions' \subseteq admissions \cup {GrantSet(Running, admits[a])}
  BY DEF Persist
<1>7. \A set \in admissions' :
          /\ set.request \in DOMAIN Requests
          /\ \A grant \in set.grants : MadeFor(set.request, grant)
  BY <1>2, <1>6 DEF AdmissionInv
<1>8. QED
  BY <1>3, <1>4, <1>5, <1>7 DEF AdmissionInv, Persist

LEMMA AdmitStepKeeps ==
    ASSUME AdmissionInv, NEW a \in Admits, AdmitStep(a)
    PROVE  AdmissionInv'
<1>1. CASE AdmitFails(a)
  BY <1>1, AdvanceKeeps DEF AdmitFails, AdmitSound
<1>2. QED
  BY <1>1, AdmitStarts, ReadRevisionsKeeps, AskKeeps, AskNothingKeeps, AnsweredKeeps,
     PersistKeeps DEF AdmitStep

-----------------------------------------------------------------------------
(* The invariant.  Whatever is built on admission takes its steps or leaves  *)
(* its variables alone.                                                     *)

\* The steps that admission's variables can take.
AdmissionNext ==
    \/ \E a \in Admits : AdmitStep(a)
    \/ Tick
    \/ Relate
    \/ Redeploy

THEOREM AdmissionInvariant ==
    /\ AdmissionInit => AdmissionInv
    /\ AdmissionInv /\ [AdmissionNext]_admissionVars => AdmissionInv'
<1>1. AdmissionInit => AdmissionInv
  BY DEF AdmissionInit, AdmissionInv, AdmitSound
<1>2. ASSUME AdmissionInv, [AdmissionNext]_admissionVars
      PROVE  AdmissionInv'
  <2>1. ASSUME now' \in Nat, UNCHANGED <<deployment, admissions, admits>>
        PROVE  AdmissionInv'
    <3>1. \A id, grant : MadeFor(id, grant)' <=> MadeFor(id, grant)
      BY <2>1 DEF MadeFor, OfPlanes, ReachesTheMeet, ReachedByAll, DeniedSomewhere,
         Allowed, AllPlanes, Running
    <3>2. \A b \in Admits : AdmitSound(admits[b])'
      BY <1>2, <2>1, <3>1 DEF AdmissionInv, AdmitSound
    <3>3. QED
      BY <1>2, <2>1, <3>1, <3>2 DEF AdmissionInv
  <2>2. CASE \E a \in Admits : AdmitStep(a)
    BY <1>2, <2>2, AdmitStepKeeps
  <2>3. CASE Tick \/ Relate \/ UNCHANGED admissionVars
    BY <1>2, <2>1, <2>3 DEF AdmissionInv, Tick, Relate, admissionVars
  <2>4. CASE Redeploy
    <3>1. admits' = [a \in Admits |-> Idle] /\ admissions' = {}
      BY <2>4 DEF Redeploy
    <3>2. now' \in Nat /\ deployment' \in DOMAIN Deployments
      BY <1>2, <2>4 DEF Redeploy, AdmissionInv
    <3>3. QED
      BY <3>1, <3>2 DEF AdmissionInv, AdmitSound
  <2>5. QED
    BY <1>2, <2>2, <2>3, <2>4 DEF AdmissionNext
<1>3. QED
  BY <1>1, <1>2
=============================================================================
