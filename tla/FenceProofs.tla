----------------------------- MODULE FenceProofs -----------------------------
(***************************************************************************)
(* The durable invocation store implements the abstract lock EffectFence,    *)
(* for every set of scopes, keys and ids.                                    *)
(*                                                                          *)
(* Under the fence a scope has at most one unresolved row, so the owner of a *)
(* scope and whether it is in doubt are read off that row.  A step purges    *)
(* resolved rows, reserves one, replaces one unresolved row, or recovers     *)
(* all; each is a step of the lock.                                          *)
(***************************************************************************)
EXTENDS InvocationStoreProofs

-----------------------------------------------------------------------------
(* Owners.                                                                  *)

\* The map has one unresolved row per scope, each in a known slot.
Fenced(map) ==
    /\ DOMAIN map \subseteq Slots
    /\ \A slot \in DOMAIN map : map[slot].id \in Ids
    /\ \A a, b \in DOMAIN map :
          a[1] = b[1] /\ Fences(map[a].state) /\ Fences(map[b].state) => a = b

\* A scope belongs to its unresolved row.
LEMMA OwnerIsUnresolved ==
    ASSUME NEW map, Fenced(map), NEW slot \in DOMAIN map,
           Fences(map[slot].state)
    PROVE  /\ slot[1] \in Scopes
           /\ OwnerIn(map, slot[1]) = map[slot].id
           /\ InDoubt(map, slot[1]) <=> map[slot].state.kind = "outcome_unknown"
  <1>1. slot[1] \in Scopes
    BY DEF Fenced, Slots
  <1>2. Unresolved(map, slot[1]) = {slot}
    BY DEF Unresolved, Fenced
  <1>3. (CHOOSE s \in {slot} : TRUE) = slot
    OBVIOUS
  <1>4. OwnerIn(map, slot[1]) = map[slot].id
    BY <1>2, <1>3 DEF OwnerIn
  <1>5. QED
    BY <1>1, <1>2, <1>4 DEF InDoubt

\* A scope without an unresolved row is free, and nothing is in doubt there.
LEMMA FreeIsOwnerless ==
    ASSUME NEW map, NEW scope,
           \A slot \in DOMAIN map : slot[1] = scope => ~Fences(map[slot].state)
    PROVE  OwnerIn(map, scope) = NoCheckpoint /\ ~InDoubt(map, scope)
  <1>1. Unresolved(map, scope) = {}
    BY DEF Unresolved
  <1>2. QED
    BY <1>1 DEF OwnerIn, InDoubt

\* Two maps with the same unresolved rows in a scope have the same owner and
\* the same doubt there.
LEMMA SameUnresolvedSameOwner ==
    ASSUME NEW old, NEW new, Fenced(old), Fenced(new), NEW scope,
           \A slot \in DOMAIN old :
              slot[1] = scope /\ Fences(old[slot].state) =>
                 /\ slot \in DOMAIN new
                 /\ Fences(new[slot].state)
                 /\ new[slot].id = old[slot].id
                 /\ (new[slot].state.kind = "outcome_unknown"
                        <=> old[slot].state.kind = "outcome_unknown"),
           \A slot \in DOMAIN new :
              slot[1] = scope /\ Fences(new[slot].state) =>
                 slot \in DOMAIN old /\ Fences(old[slot].state)
    PROVE  /\ OwnerIn(new, scope) = OwnerIn(old, scope)
           /\ InDoubt(new, scope) <=> InDoubt(old, scope)
  <1>1. CASE \E slot \in DOMAIN old : slot[1] = scope /\ Fences(old[slot].state)
    <2>1. PICK slot \in DOMAIN old : slot[1] = scope /\ Fences(old[slot].state)
      BY <1>1
    <2>2. /\ slot \in DOMAIN new
          /\ Fences(new[slot].state)
          /\ new[slot].id = old[slot].id
          /\ (new[slot].state.kind = "outcome_unknown"
                 <=> old[slot].state.kind = "outcome_unknown")
      BY <2>1
    <2>3. /\ OwnerIn(old, scope) = old[slot].id
          /\ InDoubt(old, scope) <=> old[slot].state.kind = "outcome_unknown"
      BY <2>1, OwnerIsUnresolved
    <2>4. /\ OwnerIn(new, scope) = new[slot].id
          /\ InDoubt(new, scope) <=> new[slot].state.kind = "outcome_unknown"
      BY <2>1, <2>2, OwnerIsUnresolved
    <2>5. QED
      BY <2>2, <2>3, <2>4
  <1>2. CASE \A slot \in DOMAIN old : slot[1] = scope => ~Fences(old[slot].state)
    <2>1. \A slot \in DOMAIN new : slot[1] = scope => ~Fences(new[slot].state)
      BY <1>2
    <2>2. QED
      BY <1>2, <2>1, FreeIsOwnerless
  <1>3. QED
    BY <1>1, <1>2

-----------------------------------------------------------------------------
(* Steps.                                                                   *)

\* Type correctness and the fence make the rows fenced.
LEMMA RowsFenced ==
    ASSUME TypeOK, ScopeFence
    PROVE  Fenced(rows)
  BY DEF TypeOK, ScopeFence, Fenced, StoredInvocations

\* A step that leaves the unresolved rows as unresolved and as certain as they
\* were is no step of the lock.
LEMMA SameIsStutter ==
    ASSUME Fenced(rows), Fenced(rows'),
           \A slot \in DOMAIN rows :
              Fences(rows[slot].state) =>
                 /\ slot \in DOMAIN rows'
                 /\ rows'[slot] = rows[slot],
           \A slot \in DOMAIN rows' :
              Fences(rows'[slot].state) =>
                 slot \in DOMAIN rows /\ Fences(rows[slot].state)
    PROVE  UNCHANGED Fence!fenceVars
  <1>1. \A scope \in Scopes :
           /\ OwnerIn(rows', scope) = OwnerIn(rows, scope)
           /\ InDoubt(rows', scope) <=> InDoubt(rows, scope)
    BY SameUnresolvedSameOwner
  <1>2. QED
    BY <1>1 DEF Fence!fenceVars

\* Purging rows is no step of the lock.
LEMMA PurgeIsStutter ==
    ASSUME Fenced(rows), Fenced(rows'), NEW now, rows' = Kept(now)
    PROVE  UNCHANGED Fence!fenceVars
  <1>1. \A slot \in DOMAIN rows :
           Fences(rows[slot].state) =>
              slot \in DOMAIN rows' /\ rows'[slot] = rows[slot]
    BY DEF Kept, Expired
  <1>2. \A slot \in DOMAIN rows' :
           slot \in DOMAIN rows /\ rows'[slot] = rows[slot]
    BY DEF Kept
  <1>3. QED
    BY <1>1, <1>2, SameIsStutter

\* A reservation takes the scope.
LEMMA ReserveIsTake ==
    ASSUME StoreAssumption, Fenced(rows), Fenced(rows'),
           NEW input \in ReservationInputs, NEW now, NEW until,
           ReserveNew(input, now, until)
    PROVE  Fence!Take(input.scope, input.id)
  <1>. DEFINE slot == SlotOf(input)
  <1>1. /\ slot[1] = input.scope
        /\ input.scope \in Scopes /\ input.id \in Ids
    BY DEF SlotOf, ReservationInputs
  <1>2. /\ slot \in DOMAIN rows'
        /\ rows'[slot] = NewRow(input, now, until)
        /\ \A other \in DOMAIN rows' : other # slot => rows'[other] = rows[other]
        /\ DOMAIN rows' = DOMAIN Kept(now) \cup {slot}
    BY DEF ReserveNew
  <1>3. /\ rows'[slot].id = input.id
        /\ rows'[slot].state.kind = "reserved"
        /\ Fences(rows'[slot].state)
    BY <1>2 DEF NewRow, Plain, Fences, FencingKinds
  <1>4. \A other \in DOMAIN rows :
           Fences(rows[other].state) =>
              other \in DOMAIN Kept(now) /\ Kept(now)[other] = rows[other]
    BY DEF Kept, Expired
  <1>5. \A other \in DOMAIN rows :
           Fences(rows[other].state) =>
              /\ other[1] # input.scope
              /\ other # slot
              /\ rows[other].id # input.id
    <2>1. Unresolved(Kept(now), input.scope) = {} /\ ~IdTaken(Kept(now), input.id)
      BY DEF ReserveNew, Reservable
    <2>2. QED
      BY <1>1, <1>4, <2>1 DEF Unresolved, IdTaken
  <1>6. /\ OwnerIn(rows, input.scope) = NoCheckpoint
        /\ ~InDoubt(rows, input.scope)
    BY <1>5, FreeIsOwnerless
  <1>7. \A scope \in Scopes : OwnerIn(rows, scope) # input.id
    <2>. SUFFICES ASSUME NEW scope \in Scopes
                  PROVE  OwnerIn(rows, scope) # input.id
      OBVIOUS
    <2>1. CASE \E other \in DOMAIN rows :
                  other[1] = scope /\ Fences(rows[other].state)
      BY <1>5, <2>1, OwnerIsUnresolved
    <2>2. CASE \A other \in DOMAIN rows :
                  other[1] = scope => ~Fences(rows[other].state)
      <3>1. OwnerIn(rows, scope) = NoCheckpoint
        BY <2>2, FreeIsOwnerless
      <3>2. QED
        BY <1>1, <3>1 DEF StoreAssumption
    <2>3. QED
      BY <2>1, <2>2
  <1>8. /\ OwnerIn(rows', input.scope) = input.id
        /\ ~InDoubt(rows', input.scope)
    BY <1>1, <1>2, <1>3, OwnerIsUnresolved
  <1>9. \A scope \in Scopes \ {input.scope} :
           /\ OwnerIn(rows', scope) = OwnerIn(rows, scope)
           /\ InDoubt(rows', scope) <=> InDoubt(rows, scope)
    <2>. SUFFICES ASSUME NEW scope \in Scopes, scope # input.scope
                  PROVE  /\ OwnerIn(rows', scope) = OwnerIn(rows, scope)
                         /\ InDoubt(rows', scope) <=> InDoubt(rows, scope)
      OBVIOUS
    <2>1. \A other \in DOMAIN rows' : other[1] = scope =>
             other \in DOMAIN rows /\ rows'[other] = rows[other]
      BY <1>1, <1>2 DEF Kept
    <2>2. \A other \in DOMAIN rows :
             other[1] = scope /\ Fences(rows[other].state) => other \in DOMAIN rows'
      BY <1>2, <1>4
    <2>3. QED
      BY <2>1, <2>2, SameUnresolvedSameOwner
  <1>10. QED
    BY <1>1, <1>6, <1>7, <1>8, <1>9 DEF Fence!Take

\* Replacing an unresolved row releases its scope when the new row is resolved;
\* otherwise the scope at most falls in doubt.
LEMMA ReplaceIsLockStep ==
    ASSUME StoreAssumption, Fenced(rows), Fenced(rows'),
           NEW slot \in DOMAIN rows, NEW next,
           rows' = [rows EXCEPT ![slot] = next],
           Fences(rows[slot].state), next.id = rows[slot].id,
           rows[slot].state.kind = "outcome_unknown" /\ Fences(next.state) =>
              next.state.kind = "outcome_unknown"
    PROVE  Fence!Release(slot[1]) \/ Fence!FallInDoubt
  <1>1. /\ slot[1] \in Scopes
        /\ OwnerIn(rows, slot[1]) = rows[slot].id
        /\ InDoubt(rows, slot[1]) <=> rows[slot].state.kind = "outcome_unknown"
    BY OwnerIsUnresolved
  <1>2. OwnerIn(rows, slot[1]) # NoCheckpoint
    BY <1>1 DEF Fenced, StoreAssumption
  <1>3. /\ DOMAIN rows' = DOMAIN rows
        /\ rows'[slot] = next
        /\ \A other \in DOMAIN rows : other # slot => rows'[other] = rows[other]
    OBVIOUS
  <1>4. \A scope \in Scopes \ {slot[1]} :
           /\ OwnerIn(rows', scope) = OwnerIn(rows, scope)
           /\ InDoubt(rows', scope) <=> InDoubt(rows, scope)
    BY <1>3, SameUnresolvedSameOwner
  <1>5. CASE ~Fences(next.state)
    <2>1. OwnerIn(rows', slot[1]) = NoCheckpoint /\ ~InDoubt(rows', slot[1])
      <3>1. \A other \in DOMAIN rows' :
               other[1] = slot[1] => ~Fences(rows'[other].state)
        BY <1>3, <1>5 DEF Fenced
      <3>2. QED
        BY <3>1, FreeIsOwnerless
    <2>2. [scope \in Scopes |-> OwnerIn(rows', scope)]
             = [[scope \in Scopes |-> OwnerIn(rows, scope)]
                   EXCEPT ![slot[1]] = NoCheckpoint]
      BY <1>4, <2>1
    <2>3. {scope \in Scopes : InDoubt(rows', scope)}
             = {scope \in Scopes : InDoubt(rows, scope)} \ {slot[1]}
      BY <1>4, <2>1
    <2>4. [scope \in Scopes |-> OwnerIn(rows, scope)][slot[1]] # NoCheckpoint
      BY <1>1, <1>2
    <2>5. QED
      BY <2>2, <2>3, <2>4 DEF Fence!Release
  <1>6. CASE Fences(next.state)
    <2>1. /\ OwnerIn(rows', slot[1]) = OwnerIn(rows, slot[1])
          /\ InDoubt(rows, slot[1]) => InDoubt(rows', slot[1])
      BY <1>1, <1>3, <1>6, OwnerIsUnresolved
    <2>. DEFINE fallen == IF InDoubt(rows', slot[1]) THEN {slot[1]} ELSE {}
    <2>2. fallen \in SUBSET {scope \in Scopes : OwnerIn(rows, scope) # NoCheckpoint}
      BY <1>1, <1>2
    <2>3. {scope \in Scopes : InDoubt(rows', scope)}
             = {scope \in Scopes : InDoubt(rows, scope)} \cup fallen
      BY <1>1, <1>4, <2>1
    <2>4. [scope \in Scopes |-> OwnerIn(rows', scope)]
             = [scope \in Scopes |-> OwnerIn(rows, scope)]
      BY <1>4, <2>1
    <2>5. QED
      BY <2>2, <2>3, <2>4 DEF Fence!FallInDoubt
  <1>7. QED
    BY <1>5, <1>6

\* A restart brings what was under way into doubt and changes no owner.
LEMMA RecoveryIsDoubt ==
    ASSUME StoreAssumption, TypeOK, Fenced(rows), Fenced(rows'),
           NEW now \in Readings, RecoverIncomplete(now)
    PROVE  Fence!FallInDoubt
  <1>1. now \in Timestamps
    BY ReadingIsTime DEF TypeOK
  <1>2. /\ DOMAIN rows' = DOMAIN rows
        /\ \A slot \in DOMAIN rows : rows'[slot] = Recovered(rows[slot], now)
    BY DEF RecoverIncomplete
  <1>3. \A slot \in DOMAIN rows :
           /\ rows'[slot].id = rows[slot].id
           /\ Fences(rows'[slot].state) <=> Fences(rows[slot].state)
           /\ rows[slot].state.kind = "outcome_unknown" =>
                 rows'[slot].state.kind = "outcome_unknown"
    <2>. SUFFICES ASSUME NEW slot \in DOMAIN rows
                  PROVE  /\ rows'[slot].id = rows[slot].id
                         /\ Fences(rows'[slot].state) <=> Fences(rows[slot].state)
                         /\ rows[slot].state.kind = "outcome_unknown" =>
                               rows'[slot].state.kind = "outcome_unknown"
      OBVIOUS
    <2>1. rows[slot] \in StoredInvocations
      BY DEF TypeOK
    <2>2. Plain("outcome_unknown").kind = "outcome_unknown"
      BY DEF Plain
    <2>3. QED
      BY <1>1, <1>2, <2>1, <2>2, RecoveredIsRow
  <1>4. \A scope \in Scopes :
           /\ OwnerIn(rows', scope) = OwnerIn(rows, scope)
           /\ InDoubt(rows, scope) => InDoubt(rows', scope)
           /\ InDoubt(rows', scope) => OwnerIn(rows, scope) # NoCheckpoint
    <2>. SUFFICES ASSUME NEW scope \in Scopes
                  PROVE  /\ OwnerIn(rows', scope) = OwnerIn(rows, scope)
                         /\ InDoubt(rows, scope) => InDoubt(rows', scope)
                         /\ InDoubt(rows', scope) =>
                               OwnerIn(rows, scope) # NoCheckpoint
      OBVIOUS
    <2>1. CASE \E slot \in DOMAIN rows :
                  slot[1] = scope /\ Fences(rows[slot].state)
      <3>1. PICK slot \in DOMAIN rows :
                    slot[1] = scope /\ Fences(rows[slot].state)
        BY <2>1
      <3>2. /\ OwnerIn(rows, scope) = rows[slot].id
            /\ InDoubt(rows, scope) <=> rows[slot].state.kind = "outcome_unknown"
        BY <3>1, OwnerIsUnresolved
      <3>3. /\ OwnerIn(rows', scope) = rows'[slot].id
            /\ InDoubt(rows', scope) <=> rows'[slot].state.kind = "outcome_unknown"
        BY <1>2, <1>3, <3>1, OwnerIsUnresolved
      <3>4. rows[slot].id # NoCheckpoint
        BY DEF Fenced, StoreAssumption
      <3>5. QED
        BY <1>3, <3>2, <3>3, <3>4
    <2>2. CASE \A slot \in DOMAIN rows :
                  slot[1] = scope => ~Fences(rows[slot].state)
      <3>1. \A slot \in DOMAIN rows' :
               slot[1] = scope => ~Fences(rows'[slot].state)
        BY <1>2, <1>3, <2>2
      <3>2. QED
        BY <2>2, <3>1, FreeIsOwnerless
    <2>3. QED
      BY <2>1, <2>2
  <1>. DEFINE fallen == {scope \in Scopes : InDoubt(rows', scope)}
  <1>5. fallen \in SUBSET {scope \in Scopes : OwnerIn(rows, scope) # NoCheckpoint}
    BY <1>4
  <1>6. {scope \in Scopes : InDoubt(rows', scope)}
           = {scope \in Scopes : InDoubt(rows, scope)} \cup fallen
    BY <1>4
  <1>7. [scope \in Scopes |-> OwnerIn(rows', scope)]
           = [scope \in Scopes |-> OwnerIn(rows, scope)]
    BY <1>4
  <1>8. QED
    BY <1>5, <1>6, <1>7 DEF Fence!FallInDoubt

-----------------------------------------------------------------------------
(* The refinement.                                                          *)

\* Swapping an unresolved row for its successor is a step of the lock: an
\* allowed transition starts from an unresolved state, and the only ones out of
\* doubt resolve the row.
LEMMA TransitionIsLockStep ==
    ASSUME StoreAssumption, TypeOK, Fenced(rows), Fenced(rows'),
           NEW now \in Readings, NEW id \in Ids,
           NEW from \in InvocationStates, NEW to \in InvocationStates,
           NEW audit \in Audits, Transition(id, from, to, audit, now)
    PROVE  Fence!Next
  <1>1. PICK slot \in DOMAIN rows :
           /\ Swappable(slot, id, from, audit, now)
           /\ rows' = [rows EXCEPT ![slot] = Swapped(rows[slot], to, audit, now)]
    BY DEF Transition
  <1>2. now \in Timestamps
    BY ReadingIsTime DEF TypeOK
  <1>3. /\ Swapped(rows[slot], to, audit, now).id = rows[slot].id
        /\ Swapped(rows[slot], to, audit, now).state = to
    BY <1>2, SwappedIsRow DEF TypeOK
  <1>4. <<rows[slot].state.kind, to.kind>> \in AllowedTransitions
    BY <1>1 DEF Swappable, Transition, ValidTransition
  <1>5. /\ Fences(rows[slot].state)
        /\ ~(rows[slot].state.kind = "outcome_unknown" /\ Fences(to))
    BY <1>4 DEF AllowedTransitions, Fences, FencingKinds
  <1>6. Fence!Release(slot[1]) \/ Fence!FallInDoubt
    BY <1>1, <1>3, <1>5, ReplaceIsLockStep
  <1>7. slot[1] \in Scopes
    BY <1>5, OwnerIsUnresolved
  <1>8. QED
    BY <1>6, <1>7 DEF Fence!Next

\* So is an abandonment, which releases the scope.
LEMMA AbandonIsLockStep ==
    ASSUME StoreAssumption, TypeOK, Fenced(rows), Fenced(rows'),
           NEW now \in Readings, NEW id \in Ids, NEW context \in Contexts,
           Abandon(id, context, now)
    PROVE  Fence!Next
  <1>1. PICK slot \in DOMAIN rows :
           /\ rows[slot].state.kind = "outcome_unknown"
           /\ rows' = [rows EXCEPT ![slot] = Abandoned(rows[slot], now)]
    BY DEF Abandon
  <1>2. now \in Timestamps
    BY ReadingIsTime DEF TypeOK
  <1>3. /\ Abandoned(rows[slot], now).id = rows[slot].id
        /\ ~Fences(Abandoned(rows[slot], now).state)
    BY <1>2, AbandonedIsRow DEF TypeOK, Plain, Fences, FencingKinds
  <1>4. Fences(rows[slot].state)
    BY <1>1 DEF Fences, FencingKinds
  <1>5. Fence!Release(slot[1]) \/ Fence!FallInDoubt
    BY <1>1, <1>3, <1>4, ReplaceIsLockStep
  <1>6. slot[1] \in Scopes
    BY <1>4, OwnerIsUnresolved
  <1>7. QED
    BY <1>5, <1>6 DEF Fence!Next

\* A step of the durable store is a step of the lock or leaves it alone.
LEMMA StoreStepIsLockStep ==
    ASSUME Durable, TypeOK, Fenced(rows), Fenced(rows'), [StoreNext]_storeVars
    PROVE  [Fence!Next]_Fence!fenceVars
  <1>. USE StoreAssumption
  <1>1. CASE rows' = rows
    BY <1>1, SameIsStutter
  <1>2. ASSUME NEW now \in Readings,
               NEW input \in ReservationInputs, NEW until \in Deadlines,
               ReserveOrGet(input, now, until)
        PROVE  [Fence!Next]_Fence!fenceVars
    <2>1. CASE ReserveNew(input, now, until)
      <3>1. Fence!Take(input.scope, input.id)
        BY <2>1, ReserveIsTake
      <3>2. input.scope \in Scopes /\ input.id \in Ids
        BY DEF ReservationInputs
      <3>3. QED
        BY <3>1, <3>2 DEF Fence!Next
    <2>2. CASE ReserveExisting(input, now, until)
      BY <2>2, PurgeIsStutter DEF ReserveExisting
    <2>3. CASE ReserveRefused(input, now, until)
      BY <2>3, <1>1 DEF ReserveRefused
    <2>4. QED
      BY <1>2, <2>1, <2>2, <2>3 DEF ReserveOrGet
  <1>3. ASSUME NEW now \in Readings, NEW id \in Ids,
               NEW from \in InvocationStates, NEW to \in InvocationStates,
               NEW audit \in Audits, Transition(id, from, to, audit, now)
        PROVE  [Fence!Next]_Fence!fenceVars
    BY <1>3, TransitionIsLockStep
  <1>4. ASSUME NEW now \in Readings, NEW id \in Ids, NEW context \in Contexts,
               Abandon(id, context, now)
        PROVE  [Fence!Next]_Fence!fenceVars
    BY <1>4, AbandonIsLockStep
  <1>5. ASSUME NEW now \in Readings, RecoverIncomplete(now)
        PROVE  [Fence!Next]_Fence!fenceVars
    <2>1. Fence!FallInDoubt
      BY <1>5, RecoveryIsDoubt
    <2>2. QED
      BY <2>1 DEF Fence!Next
  <1>6. CASE Tick
    BY <1>1, <1>6 DEF Tick
  <1>7. ~Lose
    BY DEF Lose
  <1>8. CASE UNCHANGED storeVars
    BY <1>1, <1>8 DEF storeVars
  <1>9. QED
    BY <1>2, <1>3, <1>4, <1>5, <1>6, <1>7, <1>8 DEF StoreNext

\* Every behaviour of the durable store is, scope by scope, one of the lock:
\* an unresolved invocation owns its scope until it is resolved or abandoned,
\* and once in doubt it is never run again.
THEOREM FenceImplemented ==
    ASSUME Durable
    PROVE  StoreSpec => FenceSpec
  <1>1. StoreInit => Fence!Init
    <2>. SUFFICES ASSUME StoreInit
                  PROVE  Fence!Init
      OBVIOUS
    <2>1. \A scope \in Scopes :
             OwnerIn(rows, scope) = NoCheckpoint /\ ~InDoubt(rows, scope)
      BY FreeIsOwnerless DEF StoreInit
    <2>2. QED
      BY <2>1 DEF Fence!Init
  <1>2. TypeOK /\ ScopeFence /\ TypeOK' /\ ScopeFence' /\ [StoreNext]_storeVars
           => [Fence!Next]_Fence!fenceVars
    <2>. SUFFICES ASSUME TypeOK, ScopeFence, TypeOK', ScopeFence',
                         [StoreNext]_storeVars
                  PROVE  [Fence!Next]_Fence!fenceVars
      OBVIOUS
    <2>1. Fenced(rows)
      BY RowsFenced
    <2>2. Fenced(rows')
      BY DEF TypeOK, ScopeFence, Fenced, StoredInvocations
    <2>3. QED
      BY <2>1, <2>2, StoreStepIsLockStep
  <1>3. QED
    BY <1>1, <1>2, TypeCorrect, ScopeFenced, PTL DEF StoreSpec, FenceSpec, Fence!Spec

=============================================================================
