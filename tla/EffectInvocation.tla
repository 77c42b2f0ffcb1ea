-------------------------- MODULE EffectInvocation ---------------------------
(***************************************************************************)
(* Effectful invocations as kiteframe-provider runs them (invocation.rs):    *)
(* InvocationService::invoke and ::resume, the write-ahead protocol of       *)
(* execute_effect, suspension and its resume leases, over the invocation     *)
(* store and the audit sink, with the processes that crash and reopen the    *)
(* store and the tasks that are dropped at an await.                         *)
(*                                                                          *)
(* A call is one invoke or resume.  Its pc names the await it stands at; an  *)
(* action is what happens from there to the next one.  Calls are one-shot:   *)
(* the number of Calls bounds the attempts.                                  *)
(*                                                                          *)
(* Definitions marked Faulty are wrong on purpose, as in InvocationStore.    *)
(***************************************************************************)
EXTENDS InvocationStore

CONSTANTS
    Procs,          \* processes (service instances) over one store and ledger
    Calls,          \* calls that can be made
    Requests,       \* the invocation requests clients make
    Entropy,        \* the issuer's random part of a checkpoint reference
    Faults          \* what the environment may do

ASSUME InvocationAssumption ==
    /\ Requests \subseteq ReservationInputs
    \* A client draws a fresh invocation id (a UUID) for every new request.
    /\ \A p, q \in Requests : p.id = q.id => p = q
    \* EffectProposal digests invocation id, key, scope and admission.
    /\ \A p, q \in Requests : p.digest = q.digest => p = q
    \* A checkpoint reference is namespaced by its proposal's digest.
    /\ Checkpoints \subseteq Digests \X Entropy
    /\ Faults \subseteq {"crash", "cancel", "audit", "storage"}
    \* The in-memory store belongs to the only process.
    /\ Durable \/ \E p \in Procs : Procs = {p}

VARIABLES
    trail, torn,    \* the audit partition: its entries, an incomplete line,
    acked,          \* and how many of them are synced
    up,             \* the processes that are running
    leases,         \* each process's map from checkpoints to SuspensionState
    calls,          \* a map from the calls made so far to where they are
    runs,           \* how often an effect ran under a slot's present row
    executed,       \* the authorization records under which an effect ran
    overtaken       \* scopes where an abandoned invocation was still running

INSTANCE AuditSink

ledgerVars == <<trail, torn, acked>>
serviceVars == <<up, leases, calls>>
historyVars == <<runs, executed, overtaken>>
vars == <<storeVars, ledgerVars, serviceVars, historyVars>>

-----------------------------------------------------------------------------
(* Calls.                                                                   *)

Slot(c) == SlotOf(calls[c].request)

\* Does a resume present the suspension of the request it makes?
Matches(c) == calls[c].resumed => calls[c].checkpoint[1] = calls[c].request.digest

Id(c) == calls[c].request.id
LeaseOf(c) == <<calls[c].proc, calls[c].checkpoint>>

ActivePcs == {"restore", "republish", "lease", "validate", "suspendReserve",
              "suspendSwap", "publish", "reserve", "authorize", "begin",
              "execute", "audit", "settle", "fallback"}

\* From the swap to pending until the outcome is settled.
WorkingPcs == {"execute", "audit", "settle", "fallback"}
Working == {c \in DOMAIN calls : calls[c].pc \in WorkingPcs}

\* Outcomes are Ok: Ok, Suspended or Deferred answers, and the three ends of
\* an effect.  The rest are errors, told apart by their retry class.
OkAnswers == OutcomeKinds \cup {"suspended", "deferred"}
RetryAnswers == {"retry"}
Answers == OkAnswers \cup RetryAnswers \cup {"none", "refused", "cancelled", "dropped"}

NewCall(p, request, checkpoint, pc) ==
    [pc |-> pc, proc |-> p, request |-> request,
     resumed |-> checkpoint # NoCheckpoint, checkpoint |-> checkpoint,
     from |-> Plain("reserved"), wal |-> 0, receipt |-> 0,
     result |-> "none", answer |-> "none"]

Done(call, answer) ==
    [call EXCEPT !.pc = "done", !.answer = answer, !.receipt = 0,
                 !.from = Plain("reserved"), !.result = "none",
                 !.checkpoint = NoCheckpoint, !.resumed = FALSE]

At(c, pc) ==
    /\ c \in DOMAIN calls
    /\ calls[c].pc = pc
    /\ calls[c].proc \in up

GoTo(c, pc) == calls' = [calls EXCEPT ![c].pc = pc]

HoldsLease(call) == call.resumed /\ call.pc \in
                       ActivePcs \ {"restore", "republish", "lease"}

\* validate returns, and ResumeLease::finish settles the lease: kept for a
\* retry unless the answer is final.
Answer(c, answer) ==
    /\ calls' = [calls EXCEPT ![c] = Done(@, answer)]
    /\ leases' = IF HoldsLease(calls[c])
                   THEN [leases EXCEPT ![LeaseOf(c)] =
                            IF answer \in RetryAnswers THEN "pending"
                                                       ELSE "absent"]
                   ELSE leases

\* Effects that come to pass while their calls stand at "execute".
Land(callers) ==
    /\ runs' = [slot \in DOMAIN runs |->
          runs[slot] + Cardinality({c \in callers : Slot(c) = slot})]
    /\ executed' = executed \cup {calls[c].wal : c \in callers}
    /\ UNCHANGED overtaken

-----------------------------------------------------------------------------
(* invoke, resume and the lease a resume takes.                             *)

StartInvoke(c, p, request) ==
    /\ c \notin DOMAIN calls
    /\ p \in up
    /\ calls' = [d \in DOMAIN calls \cup {c} |->
                    IF d = c THEN NewCall(p, request, NoCheckpoint, "validate")
                             ELSE calls[d]]
    /\ UNCHANGED <<storeVars, ledgerVars, up, leases, historyVars>>

\* begin_resume: a pending checkpoint is taken, a missing one is looked for in
\* the store first, one in flight refuses the resume.
StartResume(c, p, request, checkpoint) ==
    /\ c \notin DOMAIN calls
    /\ p \in up
    /\ leases[<<p, checkpoint>>] # "in_flight"
    /\ LET pc == IF leases[<<p, checkpoint>>] = "pending" THEN "validate"
                                                      ELSE "restore"
       IN  calls' = [d \in DOMAIN calls \cup {c} |->
                        IF d = c THEN NewCall(p, request, checkpoint, pc)
                                 ELSE calls[d]]
    /\ leases' = IF leases[<<p, checkpoint>>] = "pending"
                   THEN [leases EXCEPT ![<<p, checkpoint>>] = "in_flight"]
                   ELSE leases
    /\ UNCHANGED <<storeVars, ledgerVars, up, historyVars>>

\* restore_durable_suspension up to the status read: the stored suspension has
\* to equal the one presented.
RestoreRead(c) ==
    /\ At(c, "restore")
    /\ LET found == /\ Matches(c)
                    /\ \E slot \in DOMAIN rows :
                        /\ rows[slot].id = Id(c)
                        /\ rows[slot].context = calls[c].request.context
                        /\ rows[slot].state = SuspendedAt(calls[c].checkpoint)
       IN  IF found THEN GoTo(c, "republish") /\ UNCHANGED leases
                    ELSE Answer(c, "refused")
    /\ UNCHANGED <<storeVars, ledgerVars, up, historyVars>>

\* Its insertion into the map, by then perhaps occupied by another resume.
Republish(c) ==
    /\ At(c, "republish")
    /\ IF leases[LeaseOf(c)] = "in_flight"
         THEN Answer(c, "refused")
         ELSE /\ leases' = [leases EXCEPT ![LeaseOf(c)] = "pending"]
              /\ GoTo(c, "lease")
    /\ UNCHANGED <<storeVars, ledgerVars, up, historyVars>>

\* Faulty: wait for the checkpoint instead of refusing.
AwaitLease(c) ==
    /\ At(c, "lease")
    /\ leases[LeaseOf(c)] = "pending"
    /\ leases' = [leases EXCEPT ![LeaseOf(c)] = "in_flight"]
    /\ GoTo(c, "validate")
    /\ UNCHANGED <<storeVars, ledgerVars, up, historyVars>>

\* The second begin_resume.
TakeLease(c) ==
    /\ At(c, "lease")
    /\ IF leases[LeaseOf(c)] = "pending"
         THEN /\ leases' = [leases EXCEPT ![LeaseOf(c)] = "in_flight"]
              /\ GoTo(c, "validate")
         ELSE Answer(c, "refused")
    /\ UNCHANGED <<storeVars, ledgerVars, up, historyVars>>

-----------------------------------------------------------------------------
(* validate, up to the hand-over to the enforcement plane.  Which of its     *)
(* checks fails is not modelled here, only what each failure leads to.       *)

ValidateRefuses(c) ==
    /\ At(c, "validate")
    /\ \E answer \in {"refused", "retry"} : Answer(c, answer)
    /\ UNCHANGED <<storeVars, ledgerVars, up, historyVars>>

\* Evidence is missing on a first invocation: a checkpoint is issued.  (On a
\* resume it is an evidence error, retryable after user action.)
ValidateSuspends(c) ==
    /\ At(c, "validate")
    /\ ~calls[c].resumed
    /\ \E entropy \in Entropy :
          LET checkpoint == <<calls[c].request.digest, entropy>>
          IN  /\ checkpoint \in Checkpoints
              /\ calls' = [calls EXCEPT ![c].pc = "suspendReserve",
                                        ![c].checkpoint = checkpoint]
    /\ UNCHANGED <<storeVars, ledgerVars, up, leases, historyVars>>

ValidateAllows(c) ==
    /\ At(c, "validate")
    /\ Matches(c)
    /\ GoTo(c, "reserve")
    /\ UNCHANGED <<storeVars, ledgerVars, up, leases, historyVars>>

-----------------------------------------------------------------------------
(* The two reservations.  The deadline comes from the service's reading of   *)
(* the clock and is checked against the store's.                             *)

StorageFails == "storage" \in Faults

\* A fresh row has seen no effect yet.
ReservesFresh(c, now, until) ==
    /\ ReserveNew(calls[c].request, now, until)
    /\ runs' = [runs EXCEPT ![Slot(c)] = 0]
    /\ UNCHANGED <<executed, overtaken>>

FindsExisting(c, now, until) ==
    /\ ReserveExisting(calls[c].request, now, until)
    /\ UNCHANGED historyVars

\* KF-CAP-003 asks for status first, which a resume survives; every other
\* refusal is final.
IsRefused(c, now, until) ==
    /\ ReserveRefused(calls[c].request, now, until)
    /\ Answer(c, IF FencedOut(calls[c].request, now, until) THEN "retry"
                                                            ELSE "refused")
    /\ UNCHANGED historyVars

StoreUnavailable(c) ==
    /\ StorageFails
    /\ Answer(c, "refused")
    /\ UNCHANGED <<storeVars, historyVars>>

ExistingState(c) == rows[Slot(c)].state

-----------------------------------------------------------------------------
(* persist_suspension and the publication of the checkpoint.                *)

SuspendReserve(c) ==
    /\ At(c, "suspendReserve")
    /\ \/ \E now \in Readings, until \in Deadlines :
             \/ /\ ReservesFresh(c, now, until)
                /\ GoTo(c, "suspendSwap")
                /\ UNCHANGED leases
             \/ /\ FindsExisting(c, now, until)
                /\ CASE ExistingState(c) = SuspendedAt(calls[c].checkpoint) ->
                          GoTo(c, "publish") /\ UNCHANGED leases
                     [] ExistingState(c) = Plain("reserved") ->
                          GoTo(c, "suspendSwap") /\ UNCHANGED leases
                     [] OTHER -> Answer(c, "refused")
             \/ IsRefused(c, now, until)
       \/ StoreUnavailable(c)
    /\ UNCHANGED <<ledgerVars, up>>

SuspendSwap(c) ==
    /\ At(c, "suspendSwap")
    /\ \/ \E now \in Readings :
             LET next == SuspendedAt(calls[c].checkpoint)
             IN  \/ /\ Transition(Id(c), Plain("reserved"), next, NoAudit, now)
                    /\ GoTo(c, "publish")
                    /\ UNCHANGED leases
                 \/ /\ TransitionRefused(Id(c), Plain("reserved"), NoAudit, now)
                    /\ Answer(c, "refused")
       \/ StorageFails /\ Answer(c, "refused") /\ UNCHANGED storeVars
    /\ UNCHANGED <<ledgerVars, up, historyVars>>

\* The suspension is durable by now: a collision in the map answers an error
\* all the same.
Publish(c) ==
    /\ At(c, "publish")
    /\ IF leases[LeaseOf(c)] # "absent"
         THEN Answer(c, "refused")
         ELSE /\ calls' = [calls EXCEPT ![c] = Done(@, "suspended")]
              /\ leases' = [leases EXCEPT ![LeaseOf(c)] = "pending"]
    /\ UNCHANGED <<storeVars, ledgerVars, up, historyVars>>

-----------------------------------------------------------------------------
(* execute_effect.                                                          *)

\* existing_invocation_outcome answers whatever it finds, unless this is a
\* resume and the invocation is still suspended.
Reserve(c) ==
    /\ At(c, "reserve")
    /\ \/ \E now \in Readings, until \in Deadlines :
             \/ /\ ReservesFresh(c, now, until)
                /\ GoTo(c, "authorize")
                /\ UNCHANGED leases
             \/ /\ FindsExisting(c, now, until)
                /\ CASE calls[c].resumed /\ ExistingState(c).kind = "suspended" ->
                          /\ calls' = [calls EXCEPT
                                ![c].pc = "authorize",
                                ![c].from = ExistingState(c)]
                          /\ UNCHANGED leases
                     [] ExistingState(c).kind = "outcome_unknown" ->
                          Answer(c, "outcome_unknown")
                     [] OTHER -> Answer(c, "deferred")
             \/ IsRefused(c, now, until)
       \/ StoreUnavailable(c)
    /\ UNCHANGED <<ledgerVars, up>>

\* The append of an entry fails for the caller, whatever became of the file.
AppendFails(entry) ==
    \/ AppendRefused /\ (torn \/ NextSequence \notin Records)
    \/ /\ "audit" \in Faults
       /\ AppendRefused \/ AppendUnacknowledged(entry) \/ AppendTorn(entry)

\* Faulty: a failed append is logged and the effect goes ahead.
AuthorizeBestEffort(c) ==
    /\ At(c, "authorize")
    /\ LET entry == Authorization(Id(c))
       IN  Appended(entry) \/ AppendFails(entry)
    /\ calls' = [calls EXCEPT ![c].pc = "begin", ![c].wal = NextSequence]
    /\ UNCHANGED <<storeVars, up, leases, historyVars>>

\* The write-ahead record.  KF-AUDIT-001 is retryable after a refresh.
Authorize(c) ==
    /\ At(c, "authorize")
    /\ LET entry == Authorization(Id(c))
       IN  \/ /\ Appended(entry)
              /\ calls' = [calls EXCEPT ![c].pc = "begin",
                                        ![c].wal = NextSequence]
              /\ UNCHANGED leases
           \/ AppendFails(entry) /\ Answer(c, "retry")
    /\ UNCHANGED <<storeVars, up, historyVars>>

\* The swap that gives this call, and no other, the right to run the effect.
Begin(c) ==
    /\ At(c, "begin")
    /\ \/ \E now \in Readings :
             LET audit == AuditLink("authorization", calls[c].wal)
             IN  \/ /\ Transition(Id(c), calls[c].from, Plain("pending"),
                                  audit, now)
                    /\ GoTo(c, "execute")
                    /\ UNCHANGED leases
                 \/ /\ TransitionRefused(Id(c), calls[c].from, audit, now)
                    /\ Answer(c, "refused")
       \/ StorageFails /\ Answer(c, "refused") /\ UNCHANGED storeVars
    /\ UNCHANGED <<ledgerVars, up, historyVars>>

\* The operation runs; prepare_effect_outcome turns what it returned into the
\* state to record.
Execute(c) ==
    /\ At(c, "execute")
    /\ \E result \in OutcomeKinds :
          calls' = [calls EXCEPT ![c].pc = "audit", ![c].result = result]
    /\ Land({c})
    /\ UNCHANGED <<storeVars, ledgerVars, up, leases>>

\* Faulty: the receipt is read off the ledger as it was before the append.
AuditOutcomeStaleReceipt(c) ==
    /\ At(c, "audit")
    /\ LET entry == Outcome(Id(c), calls[c].wal, calls[c].result)
       IN  \/ /\ Appended(entry)
              /\ calls' = [calls EXCEPT ![c].pc = "settle",
                                        ![c].receipt = Len(trail)]
           \/ AppendFails(entry) /\ GoTo(c, "fallback")
    /\ UNCHANGED <<storeVars, up, leases, historyVars>>

AuditOutcome(c) ==
    /\ At(c, "audit")
    /\ LET entry == Outcome(Id(c), calls[c].wal, calls[c].result)
       IN  \/ /\ Appended(entry)
              /\ calls' = [calls EXCEPT ![c].pc = "settle",
                                        ![c].receipt = NextSequence]
           \/ AppendFails(entry) /\ GoTo(c, "fallback")
    /\ UNCHANGED <<storeVars, up, leases, historyVars>>

\* Faulty: no receipt is taken for a receipt with an empty id.
OutcomeLinkAlways(c) == AuditLink("outcome", calls[c].receipt)

OutcomeLink(c) ==
    IF calls[c].receipt = 0 THEN NoAudit
                            ELSE AuditLink("outcome", calls[c].receipt)

\* Faulty: the caller gets its result although it could not be recorded.
SettleRegardless(c) ==
    /\ At(c, "settle")
    /\ \/ \E now \in Readings :
             \/ Transition(Id(c), Plain("pending"), Plain(calls[c].result),
                           OutcomeLink(c), now)
             \/ TransitionRefused(Id(c), Plain("pending"), OutcomeLink(c), now)
       \/ StorageFails /\ UNCHANGED storeVars
    /\ Answer(c, calls[c].result)
    /\ UNCHANGED <<ledgerVars, up, historyVars>>

Settle(c) ==
    /\ At(c, "settle")
    /\ \/ \E now \in Readings :
             \/ /\ Transition(Id(c), Plain("pending"), Plain(calls[c].result),
                              OutcomeLink(c), now)
                /\ Answer(c, calls[c].result)
             \/ /\ TransitionRefused(Id(c), Plain("pending"), OutcomeLink(c),
                                     now)
                /\ GoTo(c, "fallback")
                /\ UNCHANGED leases
       \/ /\ StorageFails
          /\ GoTo(c, "fallback")
          /\ UNCHANGED <<storeVars, leases>>
    /\ UNCHANGED <<ledgerVars, up, historyVars>>

\* Faulty: a last write that does not compare the state.
FallbackOverwrites(c) ==
    /\ At(c, "fallback")
    /\ rows' = [slot \in DOMAIN rows |->
                   IF rows[slot].id = Id(c)
                     THEN [rows[slot] EXCEPT !.state = Plain("outcome_unknown")]
                     ELSE rows[slot]]
    /\ Answer(c, "outcome_unknown")
    /\ UNCHANGED <<clock, ledgerVars, up, historyVars>>

\* The result of this last transition is ignored.
Fallback(c) ==
    /\ At(c, "fallback")
    /\ \/ \E now \in Readings :
             \/ Transition(Id(c), Plain("pending"), Plain("outcome_unknown"),
                           OutcomeLink(c), now)
             \/ TransitionRefused(Id(c), Plain("pending"), OutcomeLink(c), now)
       \/ StorageFails /\ UNCHANGED storeVars
    /\ Answer(c, "outcome_unknown")
    /\ UNCHANGED <<ledgerVars, up, historyVars>>

-----------------------------------------------------------------------------
(* The environment: time, an operator, dropped tasks, crashes and restarts.  *)

Active == {c \in DOMAIN calls : calls[c].pc # "done"}

\* Calls end without an answer.  An effect under way may or may not happen.
DropCalls(dropped, how) ==
    /\ calls' = [c \in DOMAIN calls |->
                    IF c \in dropped THEN Done(calls[c], how)
                                     ELSE calls[c]]
    /\ \E landing \in SUBSET {c \in dropped : calls[c].pc = "execute"} :
          Land(landing)

\* Faulty: a lease without a Drop.
CancelForgetsLease(c) ==
    /\ "cancel" \in Faults
    /\ c \in Active
    /\ DropCalls({c}, "cancelled")
    /\ UNCHANGED <<storeVars, ledgerVars, up, leases>>

\* A handler's future is dropped at an await.  ResumeLease::drop makes the
\* checkpoint pending again.
Cancel(c) ==
    /\ "cancel" \in Faults
    /\ c \in Active
    /\ DropCalls({c}, "cancelled")
    /\ leases' = IF HoldsLease(calls[c])
                   THEN [leases EXCEPT ![LeaseOf(c)] = "pending"]
                   ELSE leases
    /\ UNCHANGED <<storeVars, ledgerVars, up>>

Crash(p) ==
    /\ "crash" \in Faults
    /\ p \in up
    /\ up' = up \ {p}
    /\ DropCalls({c \in Active : calls[c].proc = p}, "dropped")
    /\ leases' = [lease \in DOMAIN leases |->
                     IF lease[1] = p THEN "absent" ELSE leases[lease]]
    /\ IF Durable THEN UNCHANGED storeVars ELSE Lose
    \* The last process may go down with its machine.
    /\ UNCHANGED ledgerVars \/ (up = {p} /\ Forget)

\* Faulty: the store is opened as it is.
OpenAsIs(p) ==
    /\ p \notin up
    /\ up' = up \cup {p}
    /\ UNCHANGED <<storeVars, ledgerVars, leases, calls, historyVars>>

\* A process starts, for the first time or again, and opens the store.  With
\* another process still running this recovers that one's invocations, too.
Open(p) ==
    /\ p \notin up
    /\ up' = up \cup {p}
    /\ IF Durable THEN \E now \in Readings : RecoverIncomplete(now)
                  ELSE UNCHANGED storeVars
    /\ UNCHANGED <<ledgerVars, leases, calls, historyVars>>

\* Only an operator, authenticated as the invocation's own principals, gives
\* it up.
OperatorAbandons ==
    /\ \E request \in Requests, now \in Readings :
          /\ Abandon(request.id, request.context, now)
          /\ overtaken' = overtaken \cup
                {Slot(c)[1] : c \in {d \in Working : Id(d) = request.id}}
    /\ UNCHANGED <<ledgerVars, serviceVars, runs, executed>>

TimePasses == Tick /\ UNCHANGED <<ledgerVars, serviceVars, historyVars>>

-----------------------------------------------------------------------------
Init ==
    /\ StoreInit
    /\ AuditInit
    /\ up = {}
    /\ leases = [lease \in Procs \X Checkpoints |-> "absent"]
    /\ calls = <<>>
    /\ runs = [slot \in {SlotOf(request) : request \in Requests} |-> 0]
    /\ executed = {}
    /\ overtaken = {}

\* The steps of a call that has been made: the executor polls it on.
Advance(c) ==
    \/ RestoreRead(c) \/ Republish(c) \/ TakeLease(c)
    \/ ValidateRefuses(c) \/ ValidateSuspends(c) \/ ValidateAllows(c)
    \/ SuspendReserve(c) \/ SuspendSwap(c) \/ Publish(c)
    \/ Reserve(c) \/ Authorize(c) \/ Begin(c) \/ Execute(c)
    \/ AuditOutcome(c) \/ Settle(c) \/ Fallback(c)

Next ==
    \/ \E c \in Calls, p \in Procs, request \in Requests :
          \/ StartInvoke(c, p, request)
          \/ \E checkpoint \in Checkpoints :
                StartResume(c, p, request, checkpoint)
    \/ \E c \in DOMAIN calls : Advance(c) \/ Cancel(c)
    \/ \E p \in Procs : Crash(p) \/ Open(p)
    \/ OperatorAbandons
    \/ TimePasses

Spec == Init /\ [][Next]_vars

\* Tokio polls every live task again, and a supervisor restarts a process that
\* died.  Nothing forces a client, an operator or a crash.
Fairness ==
    /\ \A c \in Calls : WF_vars(Advance(c))
    /\ \A p \in Procs : WF_vars(Open(p))

FairSpec == Spec /\ Fairness

-----------------------------------------------------------------------------
(* Properties.                                                              *)

CallRecords ==
    [pc : ActivePcs \cup {"done"}, proc : Procs, request : Requests,
     resumed : BOOLEAN, checkpoint : Checkpoints \cup {NoCheckpoint},
     from : InvocationStates, wal : Nat, receipt : Nat,
     result : OutcomeKinds \cup {"none"}, answer : Answers]

\* Type invariant of the composition.
InvocationTypeOK ==
    /\ TypeOK
    /\ trail \in Seq(Entries)
    /\ torn \in BOOLEAN
    /\ acked \in 0..Len(trail)
    /\ up \subseteq Procs
    /\ leases \in [Procs \X Checkpoints -> {"absent", "pending", "in_flight"}]
    /\ DOMAIN calls \subseteq Calls
    /\ \A c \in DOMAIN calls : calls[c] \in CallRecords
    /\ runs \in [{SlotOf(request) : request \in Requests} -> Nat]
    /\ executed \subseteq Nat
    /\ overtaken \subseteq Scopes

Executing == {c \in DOMAIN calls : calls[c].pc = "execute"}

\* Write-ahead: an effect that runs, or ever ran, does so under an
\* authorization record that was durable before it, and under its own: no two
\* runs share one.
WriteAhead ==
    /\ \A i \in executed \cup {calls[c].wal : c \in Executing} :
          i \in DOMAIN trail /\ trail[i].type = "authorization"
    /\ \A c \in Executing : /\ trail[calls[c].wal].id = Id(c)
                            /\ calls[c].wal \notin executed
    /\ \A c, d \in Executing : calls[c].wal = calls[d].wal => c = d

\* A process that opens the store puts what another one is running in doubt,
\* and an operator may then abandon it while it runs.  That call goes on, and in
\* its scope nothing more is promised.  To the only process it cannot happen.
OneProcess == \E p \in Procs : Procs = {p}
Fenced(scope) == OneProcess \/ scope \notin overtaken

\* However often a request is invoked, resumed, cancelled, crashed on and
\* retried, by any number of processes: while its row is kept, its effect runs
\* at most once.
AtMostOnce == \A slot \in DOMAIN rows : Fenced(slot[1]) => runs[slot] <= 1

\* A row never understates what happened: an invocation shown as not begun or
\* denied has had no effect, and one shown as ended by its operation has.
StatusTellsTruth ==
    \A slot \in {s \in DOMAIN rows : Fenced(s[1])} :
        /\ rows[slot].state.kind \in {"reserved", "suspended", "denied"} =>
              /\ runs[slot] = 0
              /\ \A c \in Executing : Slot(c) # slot
        /\ rows[slot].state.kind \in {"succeeded", "failed"} => runs[slot] = 1

\* Two effects never run in one scope at the same time, under whichever keys
\* and on whichever processes.
ExclusiveEffects ==
    \A c, d \in Executing :
        Slot(c)[1] = Slot(d)[1] /\ Fenced(Slot(c)[1]) => c = d

\* What a caller was told of its effect is what the row says from then on.
AnswersStand ==
    \A c \in DOMAIN calls :
        /\ calls[c].answer \in {"succeeded", "failed"}
        /\ Slot(c) \in DOMAIN rows
        /\ Linked(Slot(c), AuditLink("authorization", calls[c].wal))
        => rows[Slot(c)].state.kind = calls[c].answer

\* The outcome receipt on a row belongs to an authorization of the same row,
\* and it says what the row's state says.
OutcomesBelong ==
    \A slot \in {s \in DOMAIN rows : Fenced(s[1])} :
      \A i \in DOMAIN rows[slot].links :
        rows[slot].links[i].kind = "outcome" =>
            LET entry == trail[rows[slot].links[i].record]
            IN  /\ Linked(slot, AuditLink("authorization", entry.writeAhead))
                /\ rows[slot].state.kind \in {"succeeded", "failed"} =>
                      rows[slot].state.kind = entry.outcome

\* A checkpoint is in flight exactly while one live resume holds its lease: it
\* is never stranded by an error, a dropped task or a crash, and never held
\* twice.
LeasesOwned ==
    \A p \in Procs, checkpoint \in Checkpoints :
        LET holders == {c \in Active : /\ HoldsLease(calls[c])
                                       /\ LeaseOf(c) = <<p, checkpoint>>}
        IN  IF leases[<<p, checkpoint>>] = "in_flight"
              THEN Cardinality(holders) = 1
              ELSE holders = {}

\* The composition uses the store as the store's own module allows.
ImplementsStore == StoreSpec

\* With calls polled and processes restarted, every call is answered ...
CallsEnd == \A c \in Calls : (c \in DOMAIN calls) ~> (c \notin Active)

\* ... and no reservation is left open by one that ended, unless it was
\* cancelled: what that leaves reserved, only the next opening store settles.
UnderWay(slot) ==
    slot \in DOMAIN rows /\ rows[slot].state.kind \in {"reserved", "pending"}

ReservationsSettle ==
    \A request \in Requests :
        UnderWay(SlotOf(request)) ~>
            \/ ~UnderWay(SlotOf(request))
            \/ \E c \in DOMAIN calls : calls[c].answer = "cancelled"

\* "After execution, the provider appends a completion, failure, suspension, or
\* outcome-unknown record linked to the write-ahead record": once an effect
\* that ran is no longer under way, there is one.  (A process that is down
\* has not had its chance.)
SettledEffectsRecorded ==
    \A slot \in DOMAIN rows : \A i \in DOMAIN rows[slot].links :
        LET link == rows[slot].links[i]
        IN  /\ link.kind = "authorization"
            /\ link.record \in executed
            /\ rows[slot].state.kind # "pending"
            => \E j \in DOMAIN trail : /\ trail[j].type = "outcome"
                                       /\ trail[j].writeAhead = link.record

=============================================================================
