--------------------------- MODULE InvocationStore ---------------------------
(***************************************************************************)
(* The durable invocation store of kiteframe-provider: the trait            *)
(* InvocationStore (status.rs) and its two implementations, the in-memory   *)
(* map (status.rs) and the SQLite reference store (kiteframe-provider-      *)
(* sqlite/src/lib.rs).                                                      *)
(*                                                                          *)
(* A row records one effectful invocation under the key (scope, idempotency *)
(* key).  A scope is actor, capability version, normalized resource and     *)
(* semantic operation.  An unresolved row fences its whole scope: no other  *)
(* idempotency key may be reserved there until the row is resolved or an    *)
(* operator abandons it.                                                    *)
(*                                                                          *)
(* Every call is one atomic step on the rows (a mutex, or a BEGIN IMMEDIATE *)
(* transaction), but each reads the clock before it acquires them: "now" is *)
(* a reading up to ClockLag ticks old.                                      *)
(*                                                                          *)
(* Definitions marked Faulty are wrong on purpose: each one is a plausible  *)
(* slip in the definition below it, and some property has to notice it.     *)
(***************************************************************************)
EXTENDS Integers, Sequences, FiniteSets

CONSTANTS
    Scopes,         \* idempotency scopes
    Keys,           \* caller-generated idempotency keys
    Ids,            \* invocation ids
    Digests,        \* request digests (the effect proposal's digest)
    Contexts,       \* authenticated status contexts (tenant, human, run, ...)
    Checkpoints,    \* suspension checkpoint references
    NoCheckpoint,   \* the checkpoint of a state that is not a suspension
    Records,        \* audit record ids
    Retention,      \* retention_seconds of the locked descriptor
    ClockLag,       \* the age a clock reading can have when it is used
    MaxTime,        \* bound on the clock, for model checking
    Durable         \* TRUE: the SQLite store, FALSE: the in-memory one

ASSUME StoreAssumption ==
    /\ Retention \in Nat \ {0}
    /\ ClockLag \in Nat
    /\ MaxTime \in Nat
    /\ Durable \in BOOLEAN
    /\ NoCheckpoint \notin Checkpoints \cup Ids

VARIABLES
    clock,          \* the trusted store clock
    rows            \* a map from slots (scope and key) to stored invocations

storeVars == <<clock, rows>>

-----------------------------------------------------------------------------
(* Invocation states and what may follow what.                              *)

PlainKinds == {"reserved", "pending", "succeeded", "failed", "denied",
               "outcome_unknown", "abandoned"}

\* Only a suspended state carries a suspension, and a compare-and-swap
\* compares it: two suspensions at different checkpoints are two states.
Plain(kind) == [kind |-> kind, checkpoint |-> NoCheckpoint]
SuspendedAt(checkpoint) == [kind |-> "suspended", checkpoint |-> checkpoint]

InvocationStates ==
    [kind : PlainKinds, checkpoint : {NoCheckpoint}]
        \cup [kind : {"suspended"}, checkpoint : Checkpoints]

FencingKinds == {"reserved", "pending", "suspended", "outcome_unknown"}

\* state_fences_idempotency_scope: the effect may still happen, or may have
\* happened without anyone knowing.
Fences(state) == state.kind \in FencingKinds

\* Faulty: an invocation in doubt may simply be run again.
TransitionsWithRetry ==
    ({"reserved"} \X {"pending", "suspended", "denied"})
        \cup ({"pending"} \X {"suspended", "succeeded", "failed", "denied",
                              "outcome_unknown"})
        \cup ({"suspended", "outcome_unknown"} \X {"pending", "denied"})

AllowedTransitions ==
    ({"reserved"} \X {"pending", "suspended", "denied"})
        \cup ({"pending"} \X {"suspended", "succeeded", "failed", "denied",
                              "outcome_unknown"})
        \cup ({"suspended"} \X {"pending", "denied"})
        \cup ({"outcome_unknown"} \X {"succeeded", "failed", "denied"})

NoAudit == [kind |-> "none", record |-> 0]
AuditLink(kind, record) == [kind |-> kind, record |-> record]
AuditLinks == [kind : {"authorization", "outcome"}, record : Records]

\* Faulty: an invocation in doubt is settled without an outcome record.
AuditOptionalInDoubt(from, to, auditKind) ==
    CASE to = "pending" -> auditKind = "authorization"
      [] to \in {"succeeded", "failed"} ->
            auditKind = "outcome" \/ from = "outcome_unknown"
      [] to = "outcome_unknown" -> auditKind \in {"none", "outcome"}
      [] OTHER -> auditKind = "none"

\* The audit receipt a transition must carry.
AuditMatches(from, to, auditKind) ==
    CASE to = "pending" -> auditKind = "authorization"
      [] to \in {"succeeded", "failed"} -> auditKind = "outcome"
      [] to = "outcome_unknown" -> auditKind \in {"none", "outcome"}
      [] OTHER -> auditKind = "none"

\* InvocationTransition::try_new refuses anything else before the store is
\* called.
ValidTransition(from, to, audit) ==
    /\ <<from.kind, to.kind>> \in AllowedTransitions
    /\ AuditMatches(from.kind, to.kind, audit.kind)

-----------------------------------------------------------------------------
(* Rows.                                                                    *)

Slots == Scopes \X Keys

ReservationInputs ==
    [id : Ids, scope : Scopes, key : Keys, digest : Digests,
     context : Contexts]

SlotOf(input) == <<input.scope, input.key>>

Timestamps == Nat

StoredInvocations ==
    [id : Ids, digest : Digests, context : Contexts,
     state : InvocationStates, links : Seq(AuditLinks),
     created : Timestamps, updated : Timestamps, retain : Timestamps]

NewRow(input, now, until) ==
    [id |-> input.id, digest |-> input.digest, context |-> input.context,
     state |-> Plain("reserved"), links |-> <<>>,
     created |-> now, updated |-> now, retain |-> until]

Unresolved(map, scope) ==
    {slot \in DOMAIN map : slot[1] = scope /\ Fences(map[slot].state)}

\* Faulty: ids are trusted to be fresh.
IdNeverTaken(map, id) == FALSE

IdTaken(map, id) == \E slot \in DOMAIN map : map[slot].id = id

\* Faulty: retention is counted from the row's last change.
ExpiredSinceUpdate(now) ==
    {slot \in DOMAIN rows : /\ rows[slot].updated <= now
                            /\ ~Fences(rows[slot].state)}

\* Faulty: the purge does not look at the state.
ExpiredWhateverState(now) ==
    {slot \in DOMAIN rows : rows[slot].retain <= now}

\* Every reservation first drops the rows whose retention has ended, except
\* the unresolved ones.
Expired(now) ==
    {slot \in DOMAIN rows : /\ rows[slot].retain <= now
                            /\ ~Fences(rows[slot].state)}

Kept(now) == [slot \in DOMAIN rows \ Expired(now) |-> rows[slot]]

\* A clock reading taken before the rows were acquired.
Readings == {now \in 0..clock : now + ClockLag >= clock}

LaterOf(a, b) == IF a >= b THEN a ELSE b

-----------------------------------------------------------------------------
(* reserve_or_get.  Its three answers are three actions; a caller composes  *)
(* each with what it does next.                                             *)

\* Faulty: any deadline that has not passed will do.
RetentionNotPassed(now, until) == until >= now

\* StoredInvocation::try_reserve: the deadline the caller computed must cover
\* the locked retention from the store's own reading of the clock.
RetentionHonoured(now, until) == until >= now + Retention

\* Faulty: only the key is looked up, not the scope.
ReservableUnfenced(input, now, until) ==
    /\ RetentionHonoured(now, until)
    /\ SlotOf(input) \notin DOMAIN Kept(now)
    /\ ~IdTaken(Kept(now), input.id)

Reservable(input, now, until) ==
    /\ RetentionHonoured(now, until)
    /\ SlotOf(input) \notin DOMAIN Kept(now)
    /\ Unresolved(Kept(now), input.scope) = {}
    /\ ~IdTaken(Kept(now), input.id)

ReserveNew(input, now, until) ==
    /\ Reservable(input, now, until)
    /\ rows' = [slot \in DOMAIN Kept(now) \cup {SlotOf(input)} |->
                    IF slot = SlotOf(input) THEN NewRow(input, now, until)
                                            ELSE rows[slot]]
    /\ UNCHANGED clock

Deduplicated(input, now, until) ==
    /\ RetentionHonoured(now, until)
    /\ SlotOf(input) \in DOMAIN Kept(now)
    /\ rows[SlotOf(input)].context = input.context
    /\ rows[SlotOf(input)].digest = input.digest

ReserveExisting(input, now, until) ==
    /\ Deduplicated(input, now, until)
    /\ rows' = Kept(now)
    /\ UNCHANGED clock

\* Wrong context, another request under the same key, a fenced scope, an id
\* already used, or a deadline too short.  A refusal rolls the SQLite
\* transaction back; the in-memory store keeps the purge it began with.
ReserveRefused(input, now, until) ==
    /\ ~Reservable(input, now, until)
    /\ ~Deduplicated(input, now, until)
    /\ rows' = IF Durable \/ ~RetentionHonoured(now, until)
                 THEN rows ELSE Kept(now)
    /\ UNCHANGED clock

\* The refusal that is KF-CAP-003: the caller has to look at the status of the
\* unresolved invocation first.
FencedOut(input, now, until) ==
    /\ RetentionHonoured(now, until)
    /\ SlotOf(input) \notin DOMAIN Kept(now)
    /\ Unresolved(Kept(now), input.scope) # {}

-----------------------------------------------------------------------------
(* transition: a compare-and-swap on the state of the row with this id.      *)

\* An audit record is linked to an invocation at most once.
Linked(slot, audit) ==
    \E i \in DOMAIN rows[slot].links : rows[slot].links[i] = audit

\* Faulty: an update by id that does not compare the state.
SwappableFromAny(slot, id, from, audit, now) ==
    /\ rows[slot].id = id
    /\ rows[slot].updated <= now
    /\ ~Linked(slot, audit)

Swappable(slot, id, from, audit, now) ==
    /\ rows[slot].id = id
    /\ rows[slot].state = from
    /\ rows[slot].updated <= now
    /\ ~Linked(slot, audit)

Swapped(row, to, audit, now) ==
    [row EXCEPT !.state = to,
                !.updated = now,
                !.links = IF audit.kind = "none" THEN @ ELSE Append(@, audit)]

Transition(id, from, to, audit, now) ==
    /\ ValidTransition(from, to, audit)
    /\ \E slot \in DOMAIN rows :
          /\ Swappable(slot, id, from, audit, now)
          /\ rows' = [rows EXCEPT ![slot] = Swapped(@, to, audit, now)]
    /\ UNCHANGED clock

TransitionRefused(id, from, audit, now) ==
    /\ \A slot \in DOMAIN rows : ~Swappable(slot, id, from, audit, now)
    /\ UNCHANGED storeVars

-----------------------------------------------------------------------------
(* abandon: an operator's explicit decision to give up an invocation whose   *)
(* outcome nobody knows.  Only that releases its scope for another key.      *)

\* Faulty: anything that has begun may be abandoned.
AbandonBegun(id, context, now) ==
    /\ \E slot \in DOMAIN rows :
          /\ rows[slot].id = id
          /\ rows[slot].context = context
          /\ rows[slot].state.kind \in {"pending", "outcome_unknown"}
          /\ rows' = [rows EXCEPT ![slot].state = Plain("abandoned"),
                                  ![slot].updated = now]
    /\ UNCHANGED clock

Abandoned(row, now) ==
    [row EXCEPT !.state = Plain("abandoned"),
                !.updated = IF Durable THEN now ELSE @ + 1]

Abandon(id, context, now) ==
    /\ \E slot \in DOMAIN rows :
          /\ rows[slot].id = id
          /\ rows[slot].context = context
          /\ rows[slot].state.kind = "outcome_unknown"
          /\ Durable => rows[slot].updated <= now
          /\ rows' = [rows EXCEPT ![slot] = Abandoned(@, now)]
    /\ UNCHANGED clock

\* Faulty: the kind column is updated, the encoded state is left behind, and
\* suspensions are swept up.
RecoverKindOnly(now) ==
    /\ Durable
    /\ rows' = [slot \in DOMAIN rows |->
                   IF Fences(rows[slot].state)
                     THEN [rows[slot] EXCEPT !.state.kind = "outcome_unknown"]
                     ELSE rows[slot]]
    /\ UNCHANGED clock

\* Faulty: what was under way counts as not done.
RecoverAsDenied(now) ==
    /\ Durable
    /\ rows' = [slot \in DOMAIN rows |->
                   IF rows[slot].state.kind \in {"reserved", "pending"}
                     THEN [rows[slot] EXCEPT !.state = Plain("denied"),
                                             !.updated = LaterOf(@, now)]
                     ELSE rows[slot]]
    /\ UNCHANGED clock

Recovered(row, now) ==
    IF row.state.kind \in {"reserved", "pending"}
      THEN [row EXCEPT !.state = Plain("outcome_unknown"),
                       !.updated = LaterOf(@, now)]
      ELSE row

\* Opening a SQLite store: no effect that was under way can be proved absent.
RecoverIncomplete(now) ==
    /\ Durable
    /\ rows' = [slot \in DOMAIN rows |-> Recovered(rows[slot], now)]
    /\ UNCHANGED clock

\* The in-memory store dies with its process.
Lose ==
    /\ ~Durable
    /\ rows' = <<>>
    /\ UNCHANGED clock

Tick ==
    /\ clock < MaxTime
    /\ clock' = clock + 1
    /\ UNCHANGED rows

-----------------------------------------------------------------------------
(* The store under every sequence of calls its trait permits.                *)

\* Deadlines a caller can compute: its own reading of the clock, plus the
\* locked retention.
Deadlines == {now + Retention : now \in Readings}

Audits == {NoAudit} \cup AuditLinks

ReserveOrGet(input, now, until) ==
    \/ ReserveNew(input, now, until)
    \/ ReserveExisting(input, now, until)
    \/ ReserveRefused(input, now, until)

StoreInit ==
    /\ clock = 0
    /\ rows = <<>>

StoreNext ==
    \/ Tick
    \/ \E now \in Readings :
          \/ \E input \in ReservationInputs, until \in Deadlines :
                ReserveOrGet(input, now, until)
          \/ \E id \in Ids, from, to \in InvocationStates, audit \in Audits :
                Transition(id, from, to, audit, now)
          \/ \E id \in Ids, context \in Contexts : Abandon(id, context, now)
          \/ RecoverIncomplete(now)
    \/ Lose

StoreSpec == StoreInit /\ [][StoreNext]_storeVars

-----------------------------------------------------------------------------
(* Properties.                                                              *)

\* Type invariant: rows is a map from slots to stored invocations.
TypeOK ==
    /\ clock \in Timestamps
    /\ DOMAIN rows \subseteq Slots
    /\ \A slot \in DOMAIN rows : rows[slot] \in StoredInvocations

\* At most one invocation of a scope is unresolved.  reserve_or_get looks for
\* one only when it inserts, so no later transition, abandonment, recovery or
\* purge may ever turn a resolved row back into an unresolved one.
ScopeFence ==
    \A a, b \in DOMAIN rows :
        /\ a[1] = b[1]
        /\ Fences(rows[a].state)
        /\ Fences(rows[b].state)
        => a = b

\* transition, status and abandon find a row by invocation id alone, while the
\* map is keyed by scope and key: an id names one row.
OneRowPerId ==
    \A a, b \in DOMAIN rows : rows[a].id = rows[b].id => a = b

\* The receipts of a row, in order, account for the state it is in.
Accounted(row) ==
    LET last == row.links[Len(row.links)]
    IN  /\ row.state.kind = "pending" =>
              row.links # <<>> /\ last.kind = "authorization"
        /\ row.state.kind \in {"succeeded", "failed"} =>
              row.links # <<>> /\ last.kind = "outcome"
        /\ \A i, j \in DOMAIN row.links : row.links[i] = row.links[j] => i = j

\* The audit receipts on a row tell its story: an effect that may be running
\* was last authorized, a settled one last had its outcome recorded, and no
\* receipt is attached twice.
AuditTrail == \A slot \in DOMAIN rows : Accounted(rows[slot])

\* A stored deadline leaves the locked retention after the reservation, and
\* the row's last change is not before it.
RetentionPromised ==
    \A slot \in DOMAIN rows :
        /\ rows[slot].created + Retention <= rows[slot].retain
        /\ rows[slot].created <= rows[slot].updated

\* What was promised is kept: until its retention ends, a resolved row is
\* neither purged, replaced nor changed by any call or restart.
ResolvedUntilRetention ==
    [][\A slot \in DOMAIN rows :
          ~Fences(rows[slot].state) /\ clock < rows[slot].retain =>
             slot \in DOMAIN rows' /\ rows'[slot] = rows[slot]]_storeVars

\* An unresolved row outlives every retention deadline and every restart, and
\* what identifies it and its audit history are never rewritten.
UnresolvedNeverDropped ==
    [][\A slot \in DOMAIN rows :
          Fences(rows[slot].state) =>
             /\ slot \in DOMAIN rows'
             /\ rows'[slot].id = rows[slot].id
             /\ rows'[slot].digest = rows[slot].digest
             /\ rows'[slot].context = rows[slot].context
             /\ rows'[slot].retain = rows[slot].retain
             /\ Len(rows[slot].links) <= Len(rows'[slot].links)
             /\ \A i \in DOMAIN rows[slot].links :
                   rows'[slot].links[i] = rows[slot].links[i]]_storeVars

\* What the store promises of a scope, with everything else left out.
OwnerIn(map, scope) ==
    IF Unresolved(map, scope) = {}
      THEN NoCheckpoint
      ELSE map[CHOOSE slot \in Unresolved(map, scope) : TRUE].id

InDoubt(map, scope) ==
    \E slot \in Unresolved(map, scope) : map[slot].state.kind = "outcome_unknown"

Fence == INSTANCE EffectFence WITH
    NoOwner <- NoCheckpoint,
    owner <- [scope \in Scopes |-> OwnerIn(rows, scope)],
    doubt <- {scope \in Scopes : InDoubt(rows, scope)}

\* The durable store implements the fence: one owner per scope, given up only
\* when resolved or abandoned, and never run again once in doubt.
FenceSpec == Fence!Spec

=============================================================================
