------------------------ MODULE InvocationStoreProofs ------------------------
(***************************************************************************)
(* What holds of the invocation store for every set of scopes, keys, ids,    *)
(* contexts and records, every retention and every clock lag.                *)
(*                                                                          *)
(* The actions change rows in four ways: rows are dropped, one is inserted,  *)
(* one is replaced, or all are recovered.  The lemmas say what a new row     *)
(* looks like in each case; the theorems put them together.                  *)
(***************************************************************************)
EXTENDS InvocationStore, TLAPS

-----------------------------------------------------------------------------
(* Rows.                                                                    *)

\* A plain state is a state.
LEMMA PlainIsState ==
    ASSUME NEW kind \in PlainKinds
    PROVE  /\ Plain(kind) \in InvocationStates
           /\ Plain(kind).kind = kind
  BY DEF Plain, InvocationStates, PlainKinds

\* A reading of the clock is a time no later than it.
LEMMA ReadingIsTime ==
    ASSUME clock \in Timestamps, NEW now \in Readings
    PROVE  now \in Timestamps /\ now <= clock
  BY DEF Readings, Timestamps

\* A fresh row is a row, unresolved, and keeps the retention it was given.
LEMMA NewRowIsRow ==
    ASSUME NEW input \in ReservationInputs, NEW now \in Timestamps,
           NEW until \in Timestamps
    PROVE  /\ NewRow(input, now, until) \in StoredInvocations
           /\ NewRow(input, now, until).state.kind = "reserved"
           /\ NewRow(input, now, until).id = input.id
           /\ NewRow(input, now, until).links = <<>>
           /\ NewRow(input, now, until).created = now
           /\ NewRow(input, now, until).updated = now
           /\ NewRow(input, now, until).retain = until
  <1>1. Plain("reserved") \in InvocationStates /\ Plain("reserved").kind = "reserved"
    BY PlainIsState DEF PlainKinds
  <1>2. <<>> \in Seq(AuditLinks)
    OBVIOUS
  <1>3. QED
    BY <1>1, <1>2 DEF NewRow, StoredInvocations, ReservationInputs

\* A swapped row is a row that differs in state, time and links alone.
LEMMA SwappedIsRow ==
    ASSUME NEW row \in StoredInvocations, NEW to \in InvocationStates,
           NEW audit \in Audits, NEW now \in Timestamps
    PROVE  LET next == Swapped(row, to, audit, now)
           IN  /\ next \in StoredInvocations
               /\ next.state = to
               /\ next.updated = now
               /\ next.links = IF audit.kind = "none" THEN row.links
                                                      ELSE Append(row.links, audit)
               /\ next.id = row.id /\ next.digest = row.digest
               /\ next.context = row.context
               /\ next.created = row.created /\ next.retain = row.retain
  <1>1. audit.kind # "none" => audit \in AuditLinks
    BY DEF Audits, NoAudit
  <1>2. audit.kind # "none" => Append(row.links, audit) \in Seq(AuditLinks)
    BY <1>1 DEF StoredInvocations
  <1>3. QED
    BY <1>2 DEF Swapped, StoredInvocations

\* An abandoned row is a row that differs in state and time alone.
LEMMA AbandonedIsRow ==
    ASSUME NEW row \in StoredInvocations, NEW now \in Timestamps
    PROVE  LET next == Abandoned(row, now)
           IN  /\ next \in StoredInvocations
               /\ next.state = Plain("abandoned")
               /\ next.updated = IF Durable THEN now ELSE row.updated + 1
               /\ next.links = row.links
               /\ next.id = row.id /\ next.digest = row.digest
               /\ next.context = row.context
               /\ next.created = row.created /\ next.retain = row.retain
  <1>1. Plain("abandoned") \in InvocationStates
    BY PlainIsState DEF PlainKinds
  <1>2. row.updated + 1 \in Timestamps
    BY DEF StoredInvocations, Timestamps
  <1>3. QED
    BY <1>1, <1>2 DEF Abandoned, StoredInvocations

\* A recovered row is a row, as unresolved as it was, and never moves back in
\* time.
LEMMA RecoveredIsRow ==
    ASSUME NEW row \in StoredInvocations, NEW now \in Timestamps
    PROVE  LET next == Recovered(row, now)
           IN  /\ next \in StoredInvocations
               /\ Fences(next.state) <=> Fences(row.state)
               /\ row.updated <= next.updated
               /\ next.state = row.state \/ next.state = Plain("outcome_unknown")
               /\ ~Fences(row.state) => next = row
               /\ next.links = row.links
               /\ next.id = row.id /\ next.digest = row.digest
               /\ next.context = row.context
               /\ next.created = row.created /\ next.retain = row.retain
  <1>1. /\ Plain("outcome_unknown") \in InvocationStates
        /\ Plain("outcome_unknown").kind = "outcome_unknown"
    BY PlainIsState DEF PlainKinds
  <1>2. /\ LaterOf(row.updated, now) \in Timestamps
        /\ row.updated <= LaterOf(row.updated, now)
        /\ row.updated <= row.updated
    BY DEF LaterOf, StoredInvocations, Timestamps
  <1>3. CASE row.state.kind \in {"reserved", "pending"}
    BY <1>1, <1>2, <1>3 DEF Recovered, StoredInvocations, Fences, FencingKinds
  <1>4. CASE row.state.kind \notin {"reserved", "pending"}
    BY <1>2, <1>4 DEF Recovered
  <1>5. QED
    BY <1>3, <1>4

-----------------------------------------------------------------------------
(* What a step does to the rows.                                            *)

\* The row that stands in a slot after a step, if one stood there before and
\* no reservation put another in its place.
Follows(row, next) ==
    /\ next \in StoredInvocations
    /\ next.id = row.id /\ next.digest = row.digest /\ next.context = row.context
    /\ next.created = row.created /\ next.retain = row.retain
    /\ row.updated <= next.updated
    /\ Fences(next.state) => Fences(row.state)
    /\ ~Fences(row.state) => next = row
    /\ \/ next.links = row.links
       \/ \E audit \in AuditLinks : next.links = Append(row.links, audit)
    /\ row.state.kind = "outcome_unknown" /\ Fences(next.state) =>
          next.state.kind = "outcome_unknown"
    /\ Accounted(row) => Accounted(next)

Evolves ==
    \A slot \in DOMAIN rows' :
        slot \in DOMAIN rows /\ Follows(rows[slot], rows'[slot])

Reserves(input, now, until) ==
    /\ now + Retention <= until
    /\ SlotOf(input) \in DOMAIN rows'
    /\ rows'[SlotOf(input)] = NewRow(input, now, until)
    /\ SlotOf(input) \in DOMAIN rows => ~Fences(rows[SlotOf(input)].state)
    /\ \A slot \in DOMAIN rows' \ {SlotOf(input)} :
          /\ slot \in DOMAIN rows
          /\ rows'[slot] = rows[slot]
          /\ rows[slot].id # input.id
          /\ slot[1] = input.scope => ~Fences(rows[slot].state)

\* A slot is emptied only by the purge, or by losing the in-memory store.
Keeps ==
    Durable =>
        \A slot \in DOMAIN rows :
            \/ slot \in DOMAIN rows' /\ Follows(rows[slot], rows'[slot])
            \/ ~Fences(rows[slot].state) /\ rows[slot].retain <= clock

\* A row follows itself.
LEMMA FollowsItself ==
    ASSUME NEW row \in StoredInvocations
    PROVE  Follows(row, row)
  BY DEF Follows, StoredInvocations, Timestamps

\* A row that is swapped by an allowed transition is followed by its swap.
LEMMA SwapFollows ==
    ASSUME NEW row \in StoredInvocations, NEW to \in InvocationStates,
           NEW audit \in Audits, NEW now \in Timestamps,
           ValidTransition(row.state, to, audit), row.updated <= now,
           \A i \in DOMAIN row.links : row.links[i] # audit
    PROVE  Follows(row, Swapped(row, to, audit, now)) /\ Fences(row.state)
  <1>. DEFINE next == Swapped(row, to, audit, now)
  <1>1. /\ next \in StoredInvocations
        /\ next.state = to
        /\ next.updated = now
        /\ next.links = IF audit.kind = "none" THEN row.links
                                               ELSE Append(row.links, audit)
        /\ next.id = row.id /\ next.digest = row.digest
        /\ next.context = row.context
        /\ next.created = row.created /\ next.retain = row.retain
    BY SwappedIsRow
  <1>2. <<row.state.kind, to.kind>> \in AllowedTransitions
    BY DEF ValidTransition
  <1>3. Fences(row.state)
    BY <1>2 DEF AllowedTransitions, Fences, FencingKinds
  <1>4. row.state.kind = "outcome_unknown" => ~Fences(to)
    BY <1>2 DEF AllowedTransitions, Fences, FencingKinds
  <1>5. audit.kind # "none" => audit \in AuditLinks
    BY DEF Audits, NoAudit
  <1>6. \/ next.links = row.links
        \/ \E link \in AuditLinks : next.links = Append(row.links, link)
    BY <1>1, <1>5
  <1>. HIDE DEF next
  <1>7. Accounted(row) => Accounted(next)
    <2>. SUFFICES ASSUME Accounted(row) PROVE Accounted(next)
      OBVIOUS
    <2>1. row.links \in Seq(AuditLinks)
      BY DEF StoredInvocations
    <2>2. AuditMatches(row.state.kind, to.kind, audit.kind)
      BY DEF ValidTransition
    <2>3. CASE audit.kind = "none"
      <3>1. to.kind \notin {"pending", "succeeded", "failed"}
        BY <2>2, <2>3 DEF AuditMatches
      <3>2. QED
        BY <1>1, <2>3, <3>1 DEF Accounted
    <2>4. CASE audit.kind # "none"
      <3>1. next.links = Append(row.links, audit)
        BY <1>1, <2>4
      <3>2. /\ next.links # <<>>
            /\ next.links[Len(next.links)] = audit
        BY <1>5, <2>1, <2>4, <3>1
      <3>3. \A i, j \in DOMAIN next.links :
               next.links[i] = next.links[j] => i = j
        BY <1>5, <2>1, <2>4, <3>1 DEF Accounted
      <3>4. /\ to.kind = "pending" => audit.kind = "authorization"
            /\ to.kind \in {"succeeded", "failed"} => audit.kind = "outcome"
        BY <2>2 DEF AuditMatches
      <3>5. QED
        BY <1>1, <3>2, <3>3, <3>4 DEF Accounted
    <2>5. QED
      BY <2>3, <2>4
  <1>8. Follows(row, next)
    BY <1>1, <1>3, <1>4, <1>6, <1>7 DEF Follows
  <1>9. QED
    BY <1>3, <1>8 DEF next

\* A row in doubt is followed by its abandonment.
LEMMA AbandonFollows ==
    ASSUME NEW row \in StoredInvocations, NEW now \in Timestamps,
           row.state.kind = "outcome_unknown",
           Durable => row.updated <= now
    PROVE  Follows(row, Abandoned(row, now))
  <1>. DEFINE next == Abandoned(row, now)
  <1>1. /\ next \in StoredInvocations
        /\ next.state = Plain("abandoned")
        /\ next.updated = IF Durable THEN now ELSE row.updated + 1
        /\ next.links = row.links
        /\ next.id = row.id /\ next.digest = row.digest
        /\ next.context = row.context
        /\ next.created = row.created /\ next.retain = row.retain
    BY AbandonedIsRow
  <1>2. ~Fences(Plain("abandoned"))
    BY PlainIsState DEF PlainKinds, Fences, FencingKinds
  <1>3. Fences(row.state)
    BY DEF Fences, FencingKinds
  <1>4. row.updated <= next.updated
    BY <1>1 DEF StoredInvocations, Timestamps
  <1>5. Plain("abandoned").kind = "abandoned"
    BY PlainIsState DEF PlainKinds
  <1>. HIDE DEF next
  <1>6. Accounted(row) => Accounted(next)
    BY <1>1, <1>5 DEF Accounted
  <1>7. Follows(row, next)
    BY <1>1, <1>2, <1>3, <1>4, <1>6 DEF Follows
  <1>8. QED
    BY <1>7 DEF next

\* A row is followed by its recovery.
LEMMA RecoverFollows ==
    ASSUME NEW row \in StoredInvocations, NEW now \in Timestamps
    PROVE  Follows(row, Recovered(row, now))
  <1>. DEFINE next == Recovered(row, now)
  <1>1. /\ next \in StoredInvocations
        /\ Fences(next.state) <=> Fences(row.state)
        /\ row.updated <= next.updated
        /\ next.state = row.state \/ next.state = Plain("outcome_unknown")
        /\ ~Fences(row.state) => next = row
        /\ next.links = row.links
        /\ next.id = row.id /\ next.digest = row.digest
        /\ next.context = row.context
        /\ next.created = row.created /\ next.retain = row.retain
    BY RecoveredIsRow
  <1>2. Plain("outcome_unknown").kind = "outcome_unknown"
    BY PlainIsState DEF PlainKinds
  <1>. HIDE DEF next
  <1>3. Accounted(row) => Accounted(next)
    BY <1>1, <1>2 DEF Accounted
  <1>4. Follows(row, next)
    BY <1>1, <1>2, <1>3 DEF Follows
  <1>5. QED
    BY <1>4 DEF next

\* The purge takes only resolved rows whose retention has ended.
LEMMA KeptIsSubmap ==
    ASSUME NEW now
    PROVE  /\ DOMAIN Kept(now) \subseteq DOMAIN rows
           /\ \A slot \in DOMAIN Kept(now) : Kept(now)[slot] = rows[slot]
           /\ \A slot \in DOMAIN rows \ DOMAIN Kept(now) :
                 ~Fences(rows[slot].state) /\ rows[slot].retain <= now
  BY DEF Kept, Expired

StepShape ==
    /\ clock' \in Timestamps /\ clock <= clock'
    /\ Keeps
    /\ \/ Evolves
       \/ \E input \in ReservationInputs, now \in Timestamps, until \in Timestamps :
             Reserves(input, now, until)

\* The purge evolves the rows.
LEMMA PurgeShape ==
    ASSUME TypeOK, NEW now \in Readings, rows' = Kept(now), UNCHANGED clock
    PROVE  StepShape
  <1>1. now \in Timestamps /\ now <= clock
    BY ReadingIsTime DEF TypeOK
  <1>2. \A slot \in DOMAIN rows' :
           slot \in DOMAIN rows /\ Follows(rows[slot], rows'[slot])
    BY KeptIsSubmap, FollowsItself DEF TypeOK
  <1>3. \A slot \in DOMAIN rows \ DOMAIN rows' :
           ~Fences(rows[slot].state) /\ rows[slot].retain <= clock
    <2>. SUFFICES ASSUME NEW slot \in DOMAIN rows \ DOMAIN rows'
                  PROVE  ~Fences(rows[slot].state) /\ rows[slot].retain <= clock
      OBVIOUS
    <2>1. ~Fences(rows[slot].state) /\ rows[slot].retain <= now
      BY KeptIsSubmap
    <2>2. rows[slot].retain \in Timestamps
      BY DEF TypeOK, StoredInvocations
    <2>3. QED
      BY <1>1, <2>1, <2>2 DEF TypeOK, Timestamps
  <1>4. clock' \in Timestamps /\ clock <= clock'
    BY DEF TypeOK, Timestamps
  <1>5. QED
    BY <1>2, <1>3, <1>4 DEF StepShape, Evolves, Keeps

\* A step that leaves the rows alone.
LEMMA StillShape ==
    ASSUME TypeOK, rows' = rows, clock' \in Timestamps, clock <= clock'
    PROVE  StepShape
  BY FollowsItself DEF StepShape, Evolves, Keeps, TypeOK

\* A step that changes one row into one that follows it.
LEMMA ReplaceShape ==
    ASSUME TypeOK, NEW slot \in DOMAIN rows, NEW next,
           Follows(rows[slot], next),
           rows' = [rows EXCEPT ![slot] = next], UNCHANGED clock
    PROVE  StepShape
  <1>1. DOMAIN rows' = DOMAIN rows
    OBVIOUS
  <1>2. \A other \in DOMAIN rows : Follows(rows[other], rows'[other])
    BY FollowsItself DEF TypeOK
  <1>3. clock' \in Timestamps /\ clock <= clock'
    BY DEF TypeOK, Timestamps
  <1>4. QED
    BY <1>1, <1>2, <1>3 DEF StepShape, Evolves, Keeps

\* Every step of the store has this shape.
LEMMA StoreStepShape ==
    ASSUME TypeOK, [StoreNext]_storeVars
    PROVE  StepShape
  <1>. USE StoreAssumption
  <1>1. CASE Tick
    <2>1. clock' \in Timestamps /\ clock <= clock'
      BY <1>1 DEF Tick, TypeOK, Timestamps
    <2>2. QED
      BY <1>1, <2>1, StillShape DEF Tick
  <1>2. ASSUME NEW now \in Readings,
               NEW input \in ReservationInputs, NEW until \in Deadlines,
               ReserveNew(input, now, until)
        PROVE  StepShape
    <2>1. now \in Timestamps /\ now <= clock
      BY ReadingIsTime DEF TypeOK
    <2>2. until \in Timestamps
      BY ReadingIsTime DEF TypeOK, Deadlines, Readings, Timestamps, StoreAssumption
    <2>3. Reserves(input, now, until)
      <3>1. now + Retention <= until
        BY <1>2, <2>1, <2>2 DEF ReserveNew, Reservable, RetentionHonoured,
                                Timestamps, StoreAssumption
      <3>2. /\ SlotOf(input) \notin DOMAIN Kept(now)
            /\ DOMAIN rows' = DOMAIN Kept(now) \cup {SlotOf(input)}
            /\ rows'[SlotOf(input)] = NewRow(input, now, until)
            /\ \A slot \in DOMAIN Kept(now) : rows'[slot] = rows[slot]
        BY <1>2 DEF ReserveNew, Reservable
      <3>3. SlotOf(input) \in DOMAIN rows => ~Fences(rows[SlotOf(input)].state)
        BY <3>2, KeptIsSubmap
      <3>4. ASSUME NEW slot \in DOMAIN Kept(now)
            PROVE  /\ slot \in DOMAIN rows
                   /\ rows[slot].id # input.id
                   /\ slot[1] = input.scope => ~Fences(rows[slot].state)
        <4>1. slot \in DOMAIN rows /\ Kept(now)[slot] = rows[slot]
          BY KeptIsSubmap
        <4>2. QED
          BY <1>2, <4>1 DEF ReserveNew, Reservable, Unresolved, IdTaken
      <3>5. QED
        BY <3>1, <3>2, <3>3, <3>4 DEF Reserves
    <2>4. Keeps
      <3>1. ASSUME NEW slot \in DOMAIN rows, slot \in DOMAIN Kept(now)
            PROVE  slot \in DOMAIN rows' /\ Follows(rows[slot], rows'[slot])
        BY <1>2, <3>1, FollowsItself DEF ReserveNew, Reservable, TypeOK
      <3>2. ASSUME NEW slot \in DOMAIN rows, slot \notin DOMAIN Kept(now)
            PROVE  ~Fences(rows[slot].state) /\ rows[slot].retain <= clock
        <4>1. ~Fences(rows[slot].state) /\ rows[slot].retain <= now
          BY <3>2, KeptIsSubmap
        <4>2. rows[slot].retain \in Timestamps
          BY DEF TypeOK, StoredInvocations
        <4>3. QED
          BY <2>1, <4>1, <4>2 DEF TypeOK, Timestamps
      <3>3. QED
        BY <3>1, <3>2 DEF Keeps
    <2>5. clock' \in Timestamps /\ clock <= clock'
      BY <1>2 DEF ReserveNew, TypeOK, Timestamps
    <2>6. QED
      BY <2>1, <2>2, <2>3, <2>4, <2>5 DEF StepShape
  <1>3. ASSUME NEW now \in Readings,
               NEW input \in ReservationInputs, NEW until \in Deadlines,
               ReserveExisting(input, now, until)
        PROVE  StepShape
    BY <1>3, PurgeShape DEF ReserveExisting
  <1>4. ASSUME NEW now \in Readings,
               NEW input \in ReservationInputs, NEW until \in Deadlines,
               ReserveRefused(input, now, until)
        PROVE  StepShape
    <2>1. CASE rows' = rows
      BY <1>4, <2>1, StillShape DEF ReserveRefused, TypeOK, Timestamps
    <2>2. CASE rows' = Kept(now)
      BY <1>4, <2>2, PurgeShape DEF ReserveRefused
    <2>3. QED
      BY <1>4, <2>1, <2>2 DEF ReserveRefused
  <1>5. ASSUME NEW now \in Readings, NEW id \in Ids,
               NEW from \in InvocationStates, NEW to \in InvocationStates,
               NEW audit \in Audits, Transition(id, from, to, audit, now)
        PROVE  StepShape
    <2>1. PICK slot \in DOMAIN rows :
             /\ Swappable(slot, id, from, audit, now)
             /\ rows' = [rows EXCEPT ![slot] = Swapped(rows[slot], to, audit, now)]
      BY <1>5 DEF Transition
    <2>2. now \in Timestamps
      BY ReadingIsTime DEF TypeOK
    <2>3. Follows(rows[slot], Swapped(rows[slot], to, audit, now))
      BY <1>5, <2>1, <2>2, SwapFollows DEF Swappable, Linked, Transition, TypeOK
    <2>4. QED
      BY <1>5, <2>1, <2>3, ReplaceShape DEF Transition
  <1>6. ASSUME NEW now \in Readings, NEW id \in Ids, NEW context \in Contexts,
               Abandon(id, context, now)
        PROVE  StepShape
    <2>1. PICK slot \in DOMAIN rows :
             /\ rows[slot].state.kind = "outcome_unknown"
             /\ Durable => rows[slot].updated <= now
             /\ rows' = [rows EXCEPT ![slot] = Abandoned(rows[slot], now)]
      BY <1>6 DEF Abandon
    <2>2. now \in Timestamps
      BY ReadingIsTime DEF TypeOK
    <2>3. Follows(rows[slot], Abandoned(rows[slot], now))
      BY <2>1, <2>2, AbandonFollows DEF TypeOK
    <2>4. QED
      BY <1>6, <2>1, <2>3, ReplaceShape DEF Abandon
  <1>7. ASSUME NEW now \in Readings, RecoverIncomplete(now)
        PROVE  StepShape
    <2>1. now \in Timestamps
      BY ReadingIsTime DEF TypeOK
    <2>2. DOMAIN rows' = DOMAIN rows
      BY <1>7 DEF RecoverIncomplete
    <2>3. \A slot \in DOMAIN rows : Follows(rows[slot], rows'[slot])
      BY <1>7, <2>1, RecoverFollows DEF RecoverIncomplete, TypeOK
    <2>4. clock' \in Timestamps /\ clock <= clock'
      BY <1>7 DEF RecoverIncomplete, TypeOK, Timestamps
    <2>5. QED
      BY <2>2, <2>3, <2>4 DEF StepShape, Evolves, Keeps
  <1>8. CASE Lose
    <2>1. DOMAIN rows' = {} /\ ~Durable
      BY <1>8 DEF Lose
    <2>2. clock' \in Timestamps /\ clock <= clock'
      BY <1>8 DEF Lose, TypeOK, Timestamps
    <2>3. QED
      BY <2>1, <2>2 DEF StepShape, Evolves, Keeps
  <1>9. CASE UNCHANGED storeVars
    BY <1>9, StillShape DEF storeVars, TypeOK, Timestamps
  <1>10. QED
    BY <1>1, <1>2, <1>3, <1>4, <1>5, <1>6, <1>7, <1>8, <1>9
       DEF StoreNext, ReserveOrGet

-----------------------------------------------------------------------------
(* The theorems.                                                            *)

\* A step of the store keeps the types.
LEMMA StoreTypeStep ==
    ASSUME TypeOK, [StoreNext]_storeVars
    PROVE  TypeOK'
  <1>1. StepShape
    BY StoreStepShape
  <1>2. CASE Evolves
    BY <1>1, <1>2 DEF Evolves, Follows, StepShape, TypeOK
  <1>3. ASSUME NEW input \in ReservationInputs, NEW now \in Timestamps,
               NEW until \in Timestamps, Reserves(input, now, until)
        PROVE  TypeOK'
    <2>1. SlotOf(input) \in Slots
      BY DEF SlotOf, Slots, ReservationInputs
    <2>2. NewRow(input, now, until) \in StoredInvocations
      BY NewRowIsRow
    <2>3. QED
      BY <1>1, <1>3, <2>1, <2>2 DEF Reserves, StepShape, TypeOK
  <1>4. QED
    BY <1>1, <1>2, <1>3 DEF StepShape

\* rows is always a map from slots to stored invocations.
THEOREM TypeCorrect == StoreSpec => []TypeOK
  <1>1. StoreInit => TypeOK
    BY DEF StoreInit, TypeOK, Timestamps
  <1>2. TypeOK /\ [StoreNext]_storeVars => TypeOK'
    BY StoreTypeStep
  <1>3. QED
    BY <1>1, <1>2, PTL DEF StoreSpec

\* No sequence of calls, restarts and clock readings brings two unresolved
\* invocations into one scope, whatever the number of scopes and keys.
THEOREM ScopeFenced == StoreSpec => []ScopeFence
  <1>1. StoreInit => ScopeFence
    BY DEF StoreInit, ScopeFence
  <1>2. TypeOK /\ ScopeFence /\ [StoreNext]_storeVars => ScopeFence'
    <2>. SUFFICES ASSUME TypeOK, ScopeFence, [StoreNext]_storeVars,
                         NEW a \in DOMAIN rows', NEW b \in DOMAIN rows',
                         a[1] = b[1],
                         Fences(rows'[a].state), Fences(rows'[b].state)
                  PROVE  a = b
      BY DEF ScopeFence
    <2>1. StepShape
      BY StoreStepShape
    <2>2. CASE Evolves
      BY <2>2 DEF Evolves, Follows, ScopeFence
    <2>3. ASSUME NEW input \in ReservationInputs, NEW now \in Timestamps,
                 NEW until \in Timestamps, Reserves(input, now, until)
          PROVE  a = b
      <3>1. SlotOf(input)[1] = input.scope
        BY DEF SlotOf
      <3>2. QED
        BY <2>3, <3>1 DEF Reserves, ScopeFence
    <2>4. QED
      BY <2>1, <2>2, <2>3 DEF StepShape
  <1>3. QED
    BY <1>1, <1>2, TypeCorrect, PTL DEF StoreSpec

\* An invocation id names one row in the whole store.
THEOREM IdsNameRows == StoreSpec => []OneRowPerId
  <1>1. StoreInit => OneRowPerId
    BY DEF StoreInit, OneRowPerId
  <1>2. TypeOK /\ OneRowPerId /\ [StoreNext]_storeVars => OneRowPerId'
    <2>. SUFFICES ASSUME TypeOK, OneRowPerId, [StoreNext]_storeVars
                  PROVE  OneRowPerId'
      OBVIOUS
    <2>1. StepShape
      BY StoreStepShape
    <2>2. CASE Evolves
      BY <2>2 DEF Evolves, Follows, OneRowPerId
    <2>3. ASSUME NEW input \in ReservationInputs, NEW now \in Timestamps,
                 NEW until \in Timestamps, Reserves(input, now, until)
          PROVE  OneRowPerId'
      <3>1. NewRow(input, now, until).id = input.id
        BY NewRowIsRow
      <3>2. QED
        BY <2>3, <3>1 DEF Reserves, OneRowPerId
    <2>4. QED
      BY <2>1, <2>2, <2>3 DEF StepShape
  <1>3. QED
    BY <1>1, <1>2, TypeCorrect, PTL DEF StoreSpec

\* The receipts of every row account for its state.
THEOREM RowsAccounted == StoreSpec => []AuditTrail
  <1>1. StoreInit => AuditTrail
    BY DEF StoreInit, AuditTrail
  <1>2. TypeOK /\ AuditTrail /\ [StoreNext]_storeVars => AuditTrail'
    <2>. SUFFICES ASSUME TypeOK, AuditTrail, [StoreNext]_storeVars
                  PROVE  AuditTrail'
      OBVIOUS
    <2>1. StepShape
      BY StoreStepShape
    <2>2. CASE Evolves
      BY <2>2 DEF Evolves, Follows, AuditTrail
    <2>3. ASSUME NEW input \in ReservationInputs, NEW now \in Timestamps,
                 NEW until \in Timestamps, Reserves(input, now, until)
          PROVE  AuditTrail'
      <3>1. Accounted(NewRow(input, now, until))
        BY NewRowIsRow DEF Accounted
      <3>2. QED
        BY <2>3, <3>1 DEF Reserves, AuditTrail
    <2>4. QED
      BY <2>1, <2>2, <2>3 DEF StepShape
  <1>3. QED
    BY <1>1, <1>2, TypeCorrect, PTL DEF StoreSpec

\* Every deadline that is stored leaves the locked retention, whichever clock
\* reading the store took, and time never runs backwards on a row.
THEOREM RetentionKept == StoreSpec => []RetentionPromised
  <1>1. StoreInit => RetentionPromised
    BY DEF StoreInit, RetentionPromised
  <1>2. TypeOK /\ RetentionPromised /\ [StoreNext]_storeVars => RetentionPromised'
    <2>. SUFFICES ASSUME TypeOK, RetentionPromised, [StoreNext]_storeVars,
                         NEW slot \in DOMAIN rows'
                  PROVE  /\ rows'[slot].created + Retention <= rows'[slot].retain
                         /\ rows'[slot].created <= rows'[slot].updated
      BY DEF RetentionPromised
    <2>1. StepShape
      BY StoreStepShape
    <2>2. CASE Evolves
      <3>1. /\ slot \in DOMAIN rows
            /\ rows[slot] \in StoredInvocations
            /\ Follows(rows[slot], rows'[slot])
        BY <2>2 DEF Evolves, TypeOK
      <3>2. QED
        BY <3>1 DEF Follows, RetentionPromised, StoredInvocations, Timestamps
    <2>3. ASSUME NEW input \in ReservationInputs, NEW now \in Timestamps,
                 NEW until \in Timestamps, Reserves(input, now, until)
          PROVE  /\ rows'[slot].created + Retention <= rows'[slot].retain
                 /\ rows'[slot].created <= rows'[slot].updated
      <3>1. CASE slot = SlotOf(input)
        <4>1. /\ rows'[slot].created = now
              /\ rows'[slot].updated = now
              /\ rows'[slot].retain = until
          BY <2>3, <3>1, NewRowIsRow DEF Reserves
        <4>2. QED
          BY <2>3, <4>1 DEF Reserves, Timestamps
      <3>2. CASE slot # SlotOf(input)
        BY <2>3, <3>2 DEF Reserves, RetentionPromised
      <3>3. QED
        BY <3>1, <3>2
    <2>4. QED
      BY <2>1, <2>2, <2>3 DEF StepShape
  <1>3. QED
    BY <1>1, <1>2, TypeCorrect, PTL DEF StoreSpec

\* The durable store drops or changes a resolved row only when its retention
\* has ended.
THEOREM ResolvedKept ==
    ASSUME Durable
    PROVE  StoreSpec => ResolvedUntilRetention
  <1>. DEFINE Step ==
         \A slot \in DOMAIN rows :
            ~Fences(rows[slot].state) /\ clock < rows[slot].retain =>
               slot \in DOMAIN rows' /\ rows'[slot] = rows[slot]
  <1>1. TypeOK /\ [StoreNext]_storeVars => [Step]_storeVars
    <2>. SUFFICES ASSUME TypeOK, [StoreNext]_storeVars,
                         NEW slot \in DOMAIN rows,
                         ~Fences(rows[slot].state), clock < rows[slot].retain
                  PROVE  slot \in DOMAIN rows' /\ rows'[slot] = rows[slot]
      OBVIOUS
    <2>1. Keeps
      BY StoreStepShape DEF StepShape
    <2>2. ~(rows[slot].retain <= clock)
      BY DEF TypeOK, StoredInvocations, Timestamps
    <2>3. QED
      BY <2>1, <2>2 DEF Keeps, Follows
  <1>2. QED
    BY <1>1, TypeCorrect, PTL DEF StoreSpec, ResolvedUntilRetention

\* The durable store never drops an unresolved row, nor rewrites what
\* identifies it or the receipts it has.
THEOREM UnresolvedKept ==
    ASSUME Durable
    PROVE  StoreSpec => UnresolvedNeverDropped
  <1>. DEFINE Step ==
         \A slot \in DOMAIN rows :
            Fences(rows[slot].state) =>
               /\ slot \in DOMAIN rows'
               /\ rows'[slot].id = rows[slot].id
               /\ rows'[slot].digest = rows[slot].digest
               /\ rows'[slot].context = rows[slot].context
               /\ rows'[slot].retain = rows[slot].retain
               /\ Len(rows[slot].links) <= Len(rows'[slot].links)
               /\ \A i \in DOMAIN rows[slot].links :
                     rows'[slot].links[i] = rows[slot].links[i]
  <1>1. TypeOK /\ [StoreNext]_storeVars => [Step]_storeVars
    <2>. SUFFICES ASSUME TypeOK, [StoreNext]_storeVars,
                         NEW slot \in DOMAIN rows, Fences(rows[slot].state)
                  PROVE  /\ slot \in DOMAIN rows'
                         /\ rows'[slot].id = rows[slot].id
                         /\ rows'[slot].digest = rows[slot].digest
                         /\ rows'[slot].context = rows[slot].context
                         /\ rows'[slot].retain = rows[slot].retain
                         /\ Len(rows[slot].links) <= Len(rows'[slot].links)
                         /\ \A i \in DOMAIN rows[slot].links :
                               rows'[slot].links[i] = rows[slot].links[i]
      OBVIOUS
    <2>1. slot \in DOMAIN rows' /\ Follows(rows[slot], rows'[slot])
      BY StoreStepShape DEF StepShape, Keeps
    <2>2. rows[slot].links \in Seq(AuditLinks)
      BY DEF TypeOK, StoredInvocations
    <2>3. /\ Len(rows[slot].links) <= Len(rows'[slot].links)
          /\ \A i \in DOMAIN rows[slot].links :
                rows'[slot].links[i] = rows[slot].links[i]
      <3>1. CASE rows'[slot].links = rows[slot].links
        BY <2>2, <3>1
      <3>2. ASSUME NEW audit \in AuditLinks,
                   rows'[slot].links = Append(rows[slot].links, audit)
            PROVE  <2>3
        BY <2>2, <3>2
      <3>3. QED
        BY <2>1, <3>1, <3>2 DEF Follows
    <2>4. QED
      BY <2>1, <2>3 DEF Follows
  <1>2. QED
    BY <1>1, TypeCorrect, PTL DEF StoreSpec, UnresolvedNeverDropped

=============================================================================
