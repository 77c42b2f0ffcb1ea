---------------------------- MODULE EffectProofs -----------------------------
(***************************************************************************)
(* What holds of effectful invocations for every number of processes, calls  *)
(* and requests, and whatever crashes, is cancelled or fails.                *)
(*                                                                          *)
(* The invariant has five parts.  Each call is well-formed (CallsGood); the  *)
(* ledger holds what a call was told it holds (WalHeld); a call at work owns *)
(* the row it began with (RowsOwned); the links of a row tell its story      *)
(* (LinksTold); and a lease in flight has one holder (LeasesHeld).  Every    *)
(* step is one of a few kinds, and each part is kept by each kind.           *)
(***************************************************************************)
EXTENDS EffectInvocation, InvocationStoreProofs, FiniteSetTheorems

-----------------------------------------------------------------------------
(* The invariant.                                                           *)

Settled == {"succeeded", "failed"}
SuspendingPcs == {"suspendReserve", "suspendSwap", "publish"}
RestoringPcs == {"restore", "republish", "lease"}
RecordedPcs == {"audit", "settle", "fallback"}

\* What a call carries fits where it stands.
GoodCall(call) ==
    /\ call \in CallRecords
    /\ call.resumed \/ call.pc \in SuspendingPcs => call.checkpoint \in Checkpoints
    /\ call.pc \in RestoringPcs => call.resumed
    /\ call.from.kind \in {"reserved", "suspended"}
    /\ call.pc \in {"begin"} \cup WorkingPcs => call.wal # 0
    /\ call.wal # 0 => call.wal \in Records
    /\ call.receipt # 0 => call.receipt \in Records /\ call.pc \in {"settle", "fallback"}
    /\ call.pc \in RecordedPcs => call.result \in OutcomeKinds
    /\ call.answer \in Settled => call.pc = "done" /\ call.wal # 0

CallsGood ==
    /\ \A c \in DOMAIN calls : GoodCall(calls[c])
    /\ \A c \in Active : calls[c].proc \in up
    /\ IsFiniteSet(DOMAIN calls)

TypeInv == InvocationTypeOK /\ CallsGood

\* The records a call holds receipts for are synced, and say what they must.
WalHeld ==
    /\ \A c \in DOMAIN calls :
          /\ calls[c].wal # 0 =>
                /\ calls[c].wal \in 1..acked
                /\ trail[calls[c].wal].type = "authorization"
                /\ trail[calls[c].wal].id = Id(c)
          /\ calls[c].receipt # 0 =>
                /\ calls[c].receipt \in 1..acked
                /\ trail[calls[c].receipt] =
                      Outcome(Id(c), calls[c].wal, calls[c].result)
          /\ calls[c].pc \in {"begin", "execute"} => calls[c].wal \notin executed
    /\ \A c, d \in DOMAIN calls :
          calls[c].wal = calls[d].wal /\ calls[c].wal # 0 => c = d
    /\ \A i \in executed : i \in 1..acked /\ trail[i].type = "authorization"

\* A row belongs to a request, and only its own calls find it by its id.
RowsNamed ==
    \A slot \in DOMAIN rows : \E request \in Requests :
        slot = SlotOf(request) /\ rows[slot].id = request.id

WalLink(c) == AuditLink("authorization", calls[c].wal)

\* The row of a call at work stands as the call left it, or in doubt.
OwnsRow(c) ==
    /\ Slot(c) \in DOMAIN rows
    /\ rows[Slot(c)].id = Id(c)
    /\ rows[Slot(c)].state.kind \in {"pending", "outcome_unknown"}
    /\ OneProcess => rows[Slot(c)].state.kind = "pending"
    /\ Linked(Slot(c), WalLink(c))
    /\ runs[Slot(c)] = IF calls[c].pc = "execute" THEN 0 ELSE 1

RunsTold(slot) ==
    /\ runs[slot] <= 1
    /\ rows[slot].state.kind \in {"reserved", "suspended", "denied"} => runs[slot] = 0
    /\ rows[slot].state.kind \in Settled => runs[slot] = 1

RowsOwned ==
    /\ RowsNamed
    /\ \A c \in Working : Slot(c)[1] \notin overtaken => OwnsRow(c)
    /\ \A c, d \in Working :
          Slot(c) = Slot(d) /\ Slot(c)[1] \notin overtaken => c = d
    /\ \A slot \in DOMAIN rows : slot[1] \notin overtaken => RunsTold(slot)
    /\ OneProcess => overtaken = {}

\* An outcome on a row was recorded under an authorization of that row.
OutcomeOwned(slot, link) ==
    /\ Linked(slot, AuditLink("authorization", trail[link.record].writeAhead))
    /\ rows[slot].state.kind \in Settled =>
          rows[slot].state.kind = trail[link.record].outcome

\* A link names a synced record, and an outcome's fits the state of the row.
LinkTells(slot, link) ==
    /\ link.record \in 1..acked
    /\ link.kind = "outcome" =>
          /\ rows[slot].state.kind # "pending"
          /\ slot[1] \notin overtaken => OutcomeOwned(slot, link)

\* An invocation that has not begun has no links.
LinksTell(slot) ==
    /\ rows[slot].state.kind \in {"reserved", "suspended"} => rows[slot].links = <<>>
    /\ \A i \in DOMAIN rows[slot].links : LinkTells(slot, rows[slot].links[i])

\* The row names the authorization of a call, which has begun on it.
Begun(slot, c) == slot \in DOMAIN rows /\ Linked(slot, WalLink(c))

\* A call told how its effect ended was told what its row says.
AnswerStands(c) ==
    calls[c].answer \in Settled /\ Begun(Slot(c), c) =>
        rows[Slot(c)].state.kind = calls[c].answer

LinksTold ==
    /\ \A slot \in DOMAIN rows : LinksTell(slot)
    /\ \A c \in DOMAIN calls : \A slot \in DOMAIN rows :
          calls[c].pc = "begin" => ~Begun(slot, c)
    /\ \A c \in DOMAIN calls : AnswerStands(c)

\* A lease in flight has exactly one holder; any other has none.
LeasesHeld ==
    /\ \A c \in DOMAIN calls :
          HoldsLease(calls[c]) => leases[LeaseOf(c)] = "in_flight"
    /\ \A c, d \in DOMAIN calls :
          /\ HoldsLease(calls[c]) /\ HoldsLease(calls[d])
          /\ LeaseOf(c) = LeaseOf(d)
          => c = d
    /\ \A p \in Procs, checkpoint \in Checkpoints :
          leases[<<p, checkpoint>>] = "in_flight" =>
             \E c \in DOMAIN calls :
                HoldsLease(calls[c]) /\ LeaseOf(c) = <<p, checkpoint>>

EffectInv == TypeInv /\ WalHeld /\ RowsOwned /\ LinksTold /\ LeasesHeld

-----------------------------------------------------------------------------
(* Calls, one at a time.                                                    *)

\* The calls after a step of one of them.
Moves(c, call) ==
    /\ DOMAIN calls' = DOMAIN calls \cup {c}
    /\ calls'[c] = call
    /\ \A d \in DOMAIN calls \ {c} : calls'[d] = calls[d]

\* The leases after a step of call c that leaves it as the given call: one is
\* taken, one is given up, a free one is put, or none is touched.
LeaseStep(c, call) ==
    LET held == c \in DOMAIN calls /\ HoldsLease(calls[c])
        lease == <<call.proc, call.checkpoint>>
    IN  \/ /\ UNCHANGED leases
           /\ HoldsLease(call) <=> held
           /\ held => lease = LeaseOf(c)
        \/ /\ ~held /\ HoldsLease(call)
           /\ leases[lease] # "in_flight"
           /\ leases' = [leases EXCEPT ![lease] = "in_flight"]
        \/ /\ held /\ ~HoldsLease(call)
           /\ \E state \in {"absent", "pending"} :
                 leases' = [leases EXCEPT ![LeaseOf(c)] = state]
        \/ /\ ~held /\ ~HoldsLease(call)
           /\ \E free \in Procs \X Checkpoints :
                 /\ leases[free] # "in_flight"
                 /\ leases' = [leases EXCEPT ![free] = "pending"]

\* A call that ends is well-formed, and so is one that merely goes on.
LEMMA DoneIsGood ==
    ASSUME NEW call, GoodCall(call), NEW answer \in Answers,
           answer \in Settled => call.wal # 0
    PROVE  /\ GoodCall(Done(call, answer))
           /\ Done(call, answer).pc = "done"
           /\ Done(call, answer).answer = answer
           /\ Done(call, answer).request = call.request
           /\ Done(call, answer).proc = call.proc
           /\ Done(call, answer).wal = call.wal
           /\ Done(call, answer).receipt = 0
           /\ ~HoldsLease(Done(call, answer))
<1> DEFINE next == Done(call, answer)
<1>1. call \in CallRecords /\ (call.wal # 0 => call.wal \in Records)
  BY DEF GoodCall
<1>2. Plain("reserved") \in InvocationStates /\ Plain("reserved").kind = "reserved"
  BY PlainIsState DEF PlainKinds
<1>3. /\ next.pc = "done" /\ next.answer = answer /\ next.request = call.request
      /\ next.proc = call.proc /\ next.wal = call.wal /\ next.receipt = 0
      /\ next.resumed = FALSE /\ next.checkpoint = NoCheckpoint
      /\ next.from = Plain("reserved") /\ next.result = "none"
  BY <1>1 DEF Done, CallRecords
<1>4. next \in CallRecords
  BY <1>1, <1>2 DEF Done, CallRecords
<1> HIDE DEF next
<1>5. GoodCall(next)
  BY <1>1, <1>2, <1>3, <1>4 DEF GoodCall, SuspendingPcs, RestoringPcs, RecordedPcs, WorkingPcs
<1>6. ~HoldsLease(next)
  BY <1>3 DEF HoldsLease
<1> QED
  BY <1>3, <1>5, <1>6 DEF next

\* A call that goes on with what it carries is well-formed where it gets to.
LEMMA SamePlaceIsGood ==
    ASSUME NEW call, GoodCall(call), NEW pc \in ActivePcs,
           call.pc \in ActivePcs, call.receipt = 0, call.answer \notin Settled,
           pc \in {"begin"} \cup WorkingPcs => call.wal # 0,
           pc \in SuspendingPcs => call.checkpoint \in Checkpoints,
           pc \in RestoringPcs => call.resumed,
           pc \in RecordedPcs => call.result \in OutcomeKinds
    PROVE  LET next == [call EXCEPT !.pc = pc]
           IN  /\ GoodCall(next)
               /\ next.pc = pc
               /\ next.answer = call.answer /\ next.request = call.request
               /\ next.proc = call.proc /\ next.wal = call.wal
               /\ next.receipt = 0 /\ next.resumed = call.resumed
               /\ next.checkpoint = call.checkpoint
               /\ next.result = call.result /\ next.from = call.from
<1> DEFINE next == [call EXCEPT !.pc = pc]
<1>1. call \in CallRecords
  BY DEF GoodCall
<1>2. /\ next.pc = pc /\ next.answer = call.answer /\ next.request = call.request
      /\ next.proc = call.proc /\ next.wal = call.wal
      /\ next.receipt = 0 /\ next.resumed = call.resumed
      /\ next.checkpoint = call.checkpoint
      /\ next.result = call.result /\ next.from = call.from
  BY <1>1 DEF CallRecords
<1>3. next \in CallRecords
  BY <1>1 DEF CallRecords
<1> HIDE DEF next
<1>4. GoodCall(next)
  BY <1>2, <1>3 DEF GoodCall
<1> QED
  BY <1>2, <1>4 DEF next

\* A call at a pc has made it there.
LEMMA AtIsActive ==
    ASSUME TypeInv, NEW c, NEW pc \in ActivePcs, At(c, pc)
    PROVE  /\ c \in DOMAIN calls /\ c \in Calls /\ c \in Active
           /\ GoodCall(calls[c]) /\ calls[c] \in CallRecords
           /\ calls[c].pc = pc /\ calls[c].proc \in up
           /\ calls[c].answer \notin Settled
           /\ DOMAIN calls \cup {c} = DOMAIN calls
  BY DEF TypeInv, CallsGood, InvocationTypeOK, At, Active, ActivePcs, GoodCall

\* An answer ends the call and settles its lease.
LEMMA AnswerMoves ==
    ASSUME TypeInv, NEW c \in DOMAIN calls, NEW answer \in Answers,
           calls[c].pc # "done", Answer(c, answer)
    PROVE  /\ Moves(c, Done(calls[c], answer))
           /\ LeaseStep(c, Done(calls[c], answer))
<1>1. GoodCall(calls[c])
  BY DEF TypeInv, CallsGood
<1>2. ~HoldsLease(Done(calls[c], answer))
  BY <1>1 DEF HoldsLease, Done, GoodCall, CallRecords
<1>3. Moves(c, Done(calls[c], answer))
  BY DEF Moves, Answer
<1>4. CASE HoldsLease(calls[c])
  <2>1. \E state \in {"absent", "pending"} :
           leases' = [leases EXCEPT ![LeaseOf(c)] = state]
    BY <1>4 DEF Answer
  <2> QED
    BY <1>2, <1>3, <1>4, <2>1 DEF LeaseStep
<1>5. CASE ~HoldsLease(calls[c])
  BY <1>2, <1>3, <1>5 DEF LeaseStep, Answer
<1> QED
  BY <1>4, <1>5

\* Going on keeps the lease, unless it is at its start.
LEMMA GoesOn ==
    ASSUME NEW c \in DOMAIN calls, NEW call,
           calls' = [calls EXCEPT ![c] = call]
    PROVE  Moves(c, call)
  BY DEF Moves

-----------------------------------------------------------------------------
(* Rows and records.                                                        *)

\* Every other row stands as it did, or was purged, being resolved.
RowsStand(except) ==
    /\ \A slot \in DOMAIN rows' \ except :
          slot \in DOMAIN rows /\ rows'[slot] = rows[slot]
    /\ \A slot \in DOMAIN rows \ (DOMAIN rows' \cup except) :
          ~Fences(rows[slot].state)

\* What a call that does not work may do to the rows: purge them, reserve its
\* own afresh, or suspend it.
RowsAside(call) ==
    LET slot == SlotOf(call.request)
    IN  \/ RowsStand({}) /\ UNCHANGED runs
        \/ /\ RowsStand({slot})
           /\ slot \in DOMAIN rows'
           /\ rows'[slot].id = call.request.id
           /\ rows'[slot].state = Plain("reserved")
           /\ rows'[slot].links = <<>>
           /\ slot \in DOMAIN rows => ~Fences(rows[slot].state)
           /\ runs' = [runs EXCEPT ![slot] = 0]
        \/ /\ \E other \in DOMAIN rows \cap DOMAIN rows' :
                 /\ RowsStand({other})
                 /\ rows[other].state = Plain("reserved")
                 /\ rows'[other].state.kind = "suspended"
                 /\ rows'[other].id = rows[other].id
                 /\ rows'[other].links = rows[other].links
           /\ UNCHANGED runs

\* Rows that do not change stand, and so do those a purge keeps.
LEMMA StillRows ==
    ASSUME UNCHANGED rows
    PROVE  RowsStand({})
  BY DEF RowsStand

\* A purge drops resolved rows only.
LEMMA PurgedRows ==
    ASSUME NEW now, rows' = Kept(now)
    PROVE  RowsStand({})
  BY KeptIsSubmap DEF RowsStand

\* A swap finds the row of an invocation in one state and leaves it in another.
Swaps(id, from, to, audit) ==
    \E slot \in DOMAIN rows \cap DOMAIN rows' :
        /\ RowsStand({slot})
        /\ DOMAIN rows' = DOMAIN rows
        /\ rows[slot].id = id /\ rows'[slot].id = id
        /\ rows[slot].state = from /\ rows'[slot].state = to
        /\ rows'[slot].links = IF audit.kind = "none" THEN rows[slot].links
                                  ELSE Append(rows[slot].links, audit)

\* The store's transition is such a swap.
LEMMA TransitionSwaps ==
    ASSUME TypeOK, NEW id, NEW from, NEW to \in InvocationStates,
           NEW audit \in Audits, NEW now \in Readings,
           Transition(id, from, to, audit, now)
    PROVE  Swaps(id, from, to, audit)
<1>1. PICK slot \in DOMAIN rows :
         /\ Swappable(slot, id, from, audit, now)
         /\ rows' = [rows EXCEPT ![slot] = Swapped(rows[slot], to, audit, now)]
  BY DEF Transition
<1>2. now \in Timestamps
  BY ReadingIsTime DEF TypeOK
<1>3. rows[slot] \in StoredInvocations
  BY DEF TypeOK
<1> DEFINE next == Swapped(rows[slot], to, audit, now)
<1>4. /\ next.state = to
      /\ next.links = IF audit.kind = "none" THEN rows[slot].links
                                             ELSE Append(rows[slot].links, audit)
      /\ next.id = rows[slot].id
  BY <1>2, <1>3, SwappedIsRow
<1>5. rows[slot].id = id /\ rows[slot].state = from
  BY <1>1 DEF Swappable
<1>6. DOMAIN rows' = DOMAIN rows /\ rows'[slot] = next
      /\ \A other \in DOMAIN rows \ {slot} : rows'[other] = rows[other]
  BY <1>1
<1> HIDE DEF next
<1>7. RowsStand({slot})
  BY <1>6 DEF RowsStand
<1> QED
  BY <1>4, <1>5, <1>6, <1>7 DEF Swaps

\* A request's input is one the store may be called with.
LEMMA RequestIsInput ==
    ASSUME NEW request \in Requests
    PROVE  /\ request \in ReservationInputs
           /\ request.id \in Ids /\ request.scope \in Scopes
           /\ SlotOf(request)[1] = request.scope
           /\ request.context \in Contexts
  BY InvocationAssumption DEF ReservationInputs, SlotOf

\* The two reservations that find something, and the one that does not.
LEMMA ReservationMoves ==
    ASSUME TypeOK, NEW request \in Requests, NEW now, NEW until,
           ReserveExisting(request, now, until) \/ ReserveRefused(request, now, until)
    PROVE  RowsStand({})
<1>1. CASE ReserveExisting(request, now, until)
  BY <1>1, PurgedRows DEF ReserveExisting
<1>2. CASE ReserveRefused(request, now, until)
  BY <1>2, PurgedRows, StillRows DEF ReserveRefused
<1> QED
  BY <1>1, <1>2

\* A reservation that finds nothing inserts a reserved row without links.
LEMMA ReservationInserts ==
    ASSUME TypeOK, NEW request \in Requests, NEW now \in Readings,
           NEW until \in Deadlines, ReserveNew(request, now, until)
    PROVE  LET slot == SlotOf(request)
           IN  /\ RowsStand({slot})
               /\ slot \in DOMAIN rows'
               /\ rows'[slot].id = request.id
               /\ rows'[slot].state = Plain("reserved")
               /\ rows'[slot].links = <<>>
               /\ slot \in DOMAIN rows => ~Fences(rows[slot].state)
<1> DEFINE slot == SlotOf(request)
<1>1. /\ slot \notin DOMAIN Kept(now)
      /\ DOMAIN rows' = DOMAIN Kept(now) \cup {slot}
      /\ rows'[slot] = NewRow(request, now, until)
      /\ \A other \in DOMAIN Kept(now) : rows'[other] = rows[other]
  BY DEF ReserveNew, Reservable
<1>2. /\ NewRow(request, now, until).id = request.id
      /\ NewRow(request, now, until).state = Plain("reserved")
      /\ NewRow(request, now, until).links = <<>>
  BY DEF NewRow
<1> HIDE DEF slot
<1>3. RowsStand({slot})
  BY <1>1, KeptIsSubmap DEF RowsStand
<1>4. slot \in DOMAIN rows => ~Fences(rows[slot].state)
  BY <1>1, KeptIsSubmap
<1> QED
  BY <1>1, <1>2, <1>3, <1>4 DEF slot

\* What is synced stays, whatever is appended, refused or forgotten.
LedgerKeeps ==
    /\ trail' \in Seq(Entries)
    /\ torn' \in BOOLEAN
    /\ acked' \in 0..Len(trail')
    /\ acked <= acked'
    /\ \A i \in 1..acked : trail'[i] = trail[i]

LedgerOK == trail \in Seq(Entries) /\ torn \in BOOLEAN /\ acked \in 0..Len(trail)

\* An entry that is appended stands behind what was there.
LEMMA TrailGrows ==
    ASSUME LedgerOK, NEW entry \in Entries, trail' = Append(trail, entry)
    PROVE  /\ trail' \in Seq(Entries)
           /\ Len(trail') = Len(trail) + 1 /\ NextSequence = Len(trail')
           /\ trail'[NextSequence] = entry
           /\ acked < NextSequence /\ NextSequence \in Nat
           /\ \A i \in 1..acked : trail'[i] = trail[i]
  BY DEF LedgerOK, NextSequence

\* An append that is acknowledged syncs its entry.
LEMMA AppendedKeeps ==
    ASSUME LedgerOK, NEW entry \in Entries, Appended(entry)
    PROVE  /\ LedgerKeeps
           /\ acked' = NextSequence /\ NextSequence \in Records
           /\ trail'[NextSequence] = entry
           /\ acked < NextSequence /\ NextSequence \in Nat \ {0}
<1>1. /\ trail' = Append(trail, entry) /\ acked' = NextSequence
      /\ torn' = torn /\ NextSequence \in Records
  BY DEF Appended, Accepts
<1> QED
  BY <1>1, TrailGrows DEF LedgerKeeps, LedgerOK

\* A ledger that is left alone keeps its records.
LEMMA LedgerStays ==
    ASSUME LedgerOK, UNCHANGED ledgerVars
    PROVE  LedgerKeeps
  BY DEF LedgerKeeps, LedgerOK, ledgerVars

\* An append that fails loses nothing that was synced.
LEMMA FailedAppendKeeps ==
    ASSUME LedgerOK, NEW entry \in Entries, AppendFails(entry)
    PROVE  LedgerKeeps
<1>1. CASE AppendRefused
  BY <1>1 DEF AppendRefused, auditVars, LedgerKeeps, LedgerOK
<1>2. CASE AppendUnacknowledged(entry)
  BY <1>2, TrailGrows DEF AppendUnacknowledged, LedgerKeeps, LedgerOK
<1>3. CASE AppendTorn(entry)
  BY <1>3 DEF AppendTorn, LedgerKeeps, LedgerOK
<1> QED
  BY <1>1, <1>2, <1>3 DEF AppendFails

\* A machine that goes down loses nothing that was synced.
LEMMA ForgetKeeps ==
    ASSUME LedgerOK, Forget
    PROVE  LedgerKeeps
<1>1. PICK kept \in acked..Len(trail) :
         trail' = SubSeq(trail, 1, kept) /\ torn' \in BOOLEAN /\ acked' = acked
  BY DEF Forget, LedgerOK
<1>2. kept \in Nat /\ kept <= Len(trail) /\ acked <= kept /\ acked \in Nat
  BY DEF LedgerOK
<1>3. /\ trail' \in Seq(Entries) /\ Len(trail') = kept
      /\ \A i \in 1..kept : trail'[i] = trail[i]
  BY <1>1, <1>2 DEF LedgerOK
<1> QED
  BY <1>1, <1>2, <1>3 DEF LedgerKeeps

\* What a call records is an entry.
LEMMA AuthorizationIsEntry ==
    ASSUME NEW id \in Ids
    PROVE  /\ Authorization(id) \in Entries
           /\ Authorization(id).type = "authorization"
           /\ Authorization(id).id = id
  BY DEF Authorization, Entries

\* The outcome of an effect is an entry that names its authorization.
LEMMA OutcomeIsEntry ==
    ASSUME NEW id \in Ids, NEW wal \in Nat \ {0}, NEW result \in OutcomeKinds
    PROVE  /\ Outcome(id, wal, result) \in Entries
           /\ Outcome(id, wal, result).writeAhead = wal
           /\ Outcome(id, wal, result).outcome = result
           /\ Outcome(id, wal, result).type = "outcome"
  BY DEF Outcome, Entries

-----------------------------------------------------------------------------
(* The kinds of steps.                                                      *)

\* A step of a call that does not work and does not begin to.
StepsAside(c) ==
    \E call :
        /\ c \in Calls
        /\ Moves(c, call) /\ LeaseStep(c, call)
        /\ GoodCall(call)
        /\ call.pc \notin WorkingPcs /\ call.answer \notin Settled
        /\ call.pc # "done" => call.proc \in up
        /\ c \in DOMAIN calls =>
              /\ calls[c].pc \notin WorkingPcs \cup {"done"}
              /\ call.request = calls[c].request
        /\ \/ /\ call.pc # "begin"
              /\ call.wal = IF c \in DOMAIN calls THEN calls[c].wal ELSE 0
              /\ LedgerKeeps
           \/ /\ call.pc = "begin" /\ call.wal = NextSequence
              /\ Appended(Authorization(call.request.id))
        /\ RowsAside(call)
        /\ UNCHANGED <<up, executed, overtaken>>

\* The ledger is well-formed.
LEMMA TypeInvLedger ==
    ASSUME TypeInv
    PROVE  LedgerOK
  BY DEF TypeInv, InvocationTypeOK, LedgerOK

\* A step that leaves rows, records and history alone.
Quiet == UNCHANGED <<storeVars, ledgerVars, up, historyVars>>

\* A step that touches no row and no record fits any call.
LEMMA QuietIsAside ==
    ASSUME TypeInv, NEW call, Quiet
    PROVE  LedgerKeeps /\ RowsAside(call) /\ UNCHANGED <<up, executed, overtaken>>
<1>1. LedgerKeeps
  BY TypeInvLedger, LedgerStays DEF Quiet
<1>2. RowsAside(call)
  BY StillRows DEF Quiet, storeVars, historyVars, RowsAside
<1> QED
  BY <1>1, <1>2 DEF Quiet, historyVars

\* A call that goes on to another place that is not at work.
LEMMA GoesAside ==
    ASSUME TypeInv, NEW c, NEW from \in ActivePcs \ WorkingPcs, At(c, from),
           NEW call, calls' = [calls EXCEPT ![c] = call], LeaseStep(c, call),
           GoodCall(call), call.pc \in ActivePcs \ (WorkingPcs \cup {"begin"}),
           call.request = calls[c].request, call.proc = calls[c].proc,
           call.wal = calls[c].wal, call.answer = calls[c].answer,
           LedgerKeeps, RowsAside(calls[c]), UNCHANGED <<up, executed, overtaken>>
    PROVE  StepsAside(c)
<1>1. /\ c \in DOMAIN calls /\ c \in Calls
      /\ calls[c].pc = from /\ calls[c].proc \in up
      /\ calls[c].answer \notin Settled
  BY AtIsActive
<1>2. Moves(c, call)
  BY <1>1, GoesOn
<1>3. RowsAside(call)
  BY DEF RowsAside
<1>4. from # "done"
  BY DEF ActivePcs
<1> QED
  BY <1>1, <1>2, <1>3, <1>4 DEF StepsAside

\* A call that ends without having worked.
LEMMA AnswersAside ==
    ASSUME TypeInv, NEW c, NEW from \in ActivePcs \ WorkingPcs, At(c, from),
           NEW answer \in Answers \ Settled, Answer(c, answer),
           LedgerKeeps, RowsAside(calls[c]), UNCHANGED <<up, executed, overtaken>>
    PROVE  StepsAside(c)
<1> DEFINE call == Done(calls[c], answer)
<1>1. /\ c \in DOMAIN calls /\ c \in Calls
      /\ calls[c].pc = from /\ GoodCall(calls[c])
  BY AtIsActive
<1>2. from # "done"
  BY DEF ActivePcs
<1>3. Moves(c, call) /\ LeaseStep(c, call)
  BY <1>1, <1>2, AnswerMoves
<1>4. /\ GoodCall(call) /\ call.pc = "done" /\ call.answer = answer
      /\ call.request = calls[c].request /\ call.wal = calls[c].wal
  BY <1>1, DoneIsGood
<1> HIDE DEF call
<1>5. RowsAside(call)
  BY <1>4 DEF RowsAside
<1>6. call.pc \notin WorkingPcs \cup {"begin"}
  BY <1>4 DEF WorkingPcs
<1> QED
  BY <1>1, <1>2, <1>3, <1>4, <1>5, <1>6 DEF StepsAside

\* Going on by the pc alone, the lease kept.
LEMMA GoToAside ==
    ASSUME TypeInv, NEW c, NEW from \in ActivePcs \ WorkingPcs, At(c, from),
           NEW pc \in ActivePcs \ (WorkingPcs \cup {"begin"}),
           GoTo(c, pc), UNCHANGED leases,
           pc \in SuspendingPcs => from \in SuspendingPcs,
           pc \in RestoringPcs <=> from \in RestoringPcs,
           LedgerKeeps, RowsAside(calls[c]), UNCHANGED <<up, executed, overtaken>>
    PROVE  StepsAside(c)
<1> DEFINE call == [calls[c] EXCEPT !.pc = pc]
<1>1. /\ c \in DOMAIN calls /\ calls[c].pc = from /\ GoodCall(calls[c])
      /\ calls[c].answer \notin Settled
  BY AtIsActive
<1>2. /\ calls[c].receipt = 0
      /\ pc \in SuspendingPcs => calls[c].checkpoint \in Checkpoints
      /\ pc \in RestoringPcs => calls[c].resumed
      /\ pc \notin RecordedPcs
  BY <1>1 DEF GoodCall, WorkingPcs, RecordedPcs
<1>3. /\ GoodCall(call) /\ call.pc = pc
      /\ call.answer = calls[c].answer /\ call.request = calls[c].request
      /\ call.proc = calls[c].proc /\ call.wal = calls[c].wal
      /\ call.resumed = calls[c].resumed /\ call.checkpoint = calls[c].checkpoint
  BY <1>1, <1>2, SamePlaceIsGood
<1>4. calls' = [calls EXCEPT ![c] = call]
  BY DEF GoTo
<1> HIDE DEF call
<1>5. HoldsLease(call) <=> HoldsLease(calls[c])
  BY <1>1, <1>3 DEF HoldsLease, RestoringPcs
<1>6. LeaseStep(c, call)
  BY <1>1, <1>3, <1>5 DEF LeaseStep, LeaseOf
<1> QED
  BY <1>3, <1>4, <1>6, GoesAside

\* Calls that are made.
LEMMA NewCallIsGood ==
    ASSUME NEW p \in Procs, NEW request \in Requests,
           NEW checkpoint \in Checkpoints \cup {NoCheckpoint},
           NEW pc \in {"validate", "restore"},
           pc = "restore" => checkpoint \in Checkpoints
    PROVE  LET call == NewCall(p, request, checkpoint, pc)
           IN  /\ GoodCall(call)
               /\ call.pc = pc /\ call.proc = p /\ call.request = request
               /\ call.wal = 0 /\ call.answer = "none"
               /\ call.checkpoint = checkpoint
               /\ call.resumed <=> checkpoint \in Checkpoints
<1> DEFINE call == NewCall(p, request, checkpoint, pc)
<1>1. NoCheckpoint \notin Checkpoints
  BY StoreAssumption
<1>2. Plain("reserved") \in InvocationStates /\ Plain("reserved").kind = "reserved"
  BY PlainIsState DEF PlainKinds
<1>3. /\ call.pc = pc /\ call.proc = p /\ call.request = request
      /\ call.wal = 0 /\ call.answer = "none" /\ call.receipt = 0
      /\ call.checkpoint = checkpoint /\ call.from = Plain("reserved")
      /\ call.resumed <=> checkpoint \in Checkpoints
  BY <1>1 DEF NewCall
<1>4. call \in CallRecords
  BY <1>2 DEF NewCall, CallRecords, ActivePcs, Answers
<1> HIDE DEF call
<1>5. GoodCall(call)
  BY <1>2, <1>3, <1>4
     DEF GoodCall, SuspendingPcs, RestoringPcs, RecordedPcs, WorkingPcs, Settled
<1> QED
  BY <1>3, <1>5 DEF call

\* A client's first invocation.
LEMMA StartInvokeAside ==
    ASSUME TypeInv, NEW c \in Calls, NEW p \in Procs, NEW request \in Requests,
           StartInvoke(c, p, request)
    PROVE  StepsAside(c)
<1> DEFINE call == NewCall(p, request, NoCheckpoint, "validate")
<1>1. /\ GoodCall(call) /\ call.pc = "validate" /\ call.proc = p
      /\ call.wal = 0 /\ call.answer = "none" /\ ~call.resumed
  <2>1. NoCheckpoint \notin Checkpoints
    BY StoreAssumption
  <2> QED
    BY <2>1, NewCallIsGood
<1>2. c \notin DOMAIN calls /\ Moves(c, call)
  BY DEF StartInvoke, Moves
<1>3. Quiet /\ UNCHANGED leases /\ p \in up
  BY DEF StartInvoke, Quiet
<1>4. LedgerKeeps /\ RowsAside(call) /\ UNCHANGED <<up, executed, overtaken>>
  BY <1>3, QuietIsAside
<1> HIDE DEF call
<1>5. LeaseStep(c, call)
  BY <1>1, <1>2, <1>3 DEF LeaseStep, HoldsLease
<1> QED
  BY <1>1, <1>2, <1>3, <1>4, <1>5 DEF StepsAside, WorkingPcs, Settled

\* A client's resume, which may take a lease that is pending.
LEMMA StartResumeAside ==
    ASSUME TypeInv, NEW c \in Calls, NEW p \in Procs, NEW request \in Requests,
           NEW checkpoint \in Checkpoints, StartResume(c, p, request, checkpoint)
    PROVE  StepsAside(c)
<1> DEFINE pc == IF leases[<<p, checkpoint>>] = "pending" THEN "validate" ELSE "restore"
           call == NewCall(p, request, checkpoint, pc)
<1>1. /\ GoodCall(call) /\ call.pc = pc /\ call.proc = p
      /\ call.wal = 0 /\ call.answer = "none" /\ call.resumed
      /\ call.checkpoint = checkpoint
  BY NewCallIsGood
<1>2. /\ c \notin DOMAIN calls /\ Moves(c, call) /\ p \in up
      /\ leases[<<p, checkpoint>>] # "in_flight"
  BY DEF StartResume, Moves
<1>3. Quiet
  BY DEF StartResume, Quiet
<1>4. LedgerKeeps /\ RowsAside(call) /\ UNCHANGED <<up, executed, overtaken>>
  BY <1>3, QuietIsAside
<1>5. leases' = IF leases[<<p, checkpoint>>] = "pending"
                  THEN [leases EXCEPT ![<<p, checkpoint>>] = "in_flight"] ELSE leases
  BY DEF StartResume
<1> HIDE DEF call
<1>6. LeaseStep(c, call)
  BY <1>1, <1>2, <1>5 DEF LeaseStep, HoldsLease, ActivePcs
<1>7. pc \in {"validate", "restore"}
  OBVIOUS
<1> HIDE DEF pc
<1> QED
  BY <1>1, <1>2, <1>4, <1>6, <1>7 DEF StepsAside, WorkingPcs, Settled

-----------------------------------------------------------------------------
(* The steps of a call that does not work.                                  *)

\* It fits the call as it stands, too.
LEMMA QuietAside ==
    ASSUME TypeInv, NEW c, Quiet
    PROVE  LedgerKeeps /\ RowsAside(calls[c]) /\ UNCHANGED <<up, executed, overtaken>>
  BY QuietIsAside

\* Errors are answers that settle nothing.
LEMMA ErrorsAreAnswers ==
    /\ {"refused", "retry", "deferred", "suspended", "outcome_unknown"}
          \subseteq Answers \ Settled
    /\ OutcomeKinds \subseteq Answers
    /\ "cancelled" \in Answers \ Settled /\ "dropped" \in Answers \ Settled
  BY DEF Answers, OkAnswers, RetryAnswers, OutcomeKinds, Settled

\* Where a call stands before it works, and while it does.
LEMMA IdlePcs ==
    /\ {"restore", "republish", "lease", "validate", "suspendReserve",
        "suspendSwap", "publish", "reserve", "authorize"}
          \subseteq ActivePcs \ (WorkingPcs \cup {"begin"})
    /\ "begin" \in ActivePcs \ WorkingPcs
    /\ WorkingPcs \subseteq ActivePcs
  BY DEF ActivePcs, WorkingPcs

\* The look at the stored suspension.
LEMMA RestoreReadAside ==
    ASSUME TypeInv, NEW c, RestoreRead(c)
    PROVE  StepsAside(c)
<1>1. At(c, "restore") /\ Quiet
  BY DEF RestoreRead, Quiet
<1>2. CASE GoTo(c, "republish") /\ UNCHANGED leases
  BY <1>1, <1>2, QuietAside, IdlePcs, GoToAside DEF RestoringPcs, SuspendingPcs
<1>3. CASE Answer(c, "refused")
  BY <1>1, <1>3, QuietAside, IdlePcs, ErrorsAreAnswers, AnswersAside
<1> QED
  BY <1>2, <1>3 DEF RestoreRead

\* The lease a call names is one of the map.
LEMMA LeaseNamed ==
    ASSUME TypeInv, NEW call, GoodCall(call), call.checkpoint \in Checkpoints
    PROVE  /\ <<call.proc, call.checkpoint>> \in Procs \X Checkpoints
           /\ leases[<<call.proc, call.checkpoint>>] \in
                 {"absent", "pending", "in_flight"}
<1>1. call.proc \in Procs
  BY DEF GoodCall, CallRecords
<1> QED
  BY <1>1 DEF TypeInv, InvocationTypeOK

\* A call goes on by its pc alone, whatever becomes of its lease.
LEMMA GoToIsMove ==
    ASSUME TypeInv, NEW c, NEW from \in ActivePcs \ WorkingPcs, At(c, from),
           NEW pc \in ActivePcs, GoTo(c, pc),
           pc \in {"begin"} \cup WorkingPcs => calls[c].wal # 0,
           pc \in SuspendingPcs => calls[c].checkpoint \in Checkpoints,
           pc \in RestoringPcs => calls[c].resumed,
           pc \notin RecordedPcs
    PROVE  \E call :
              /\ calls' = [calls EXCEPT ![c] = call] /\ Moves(c, call)
              /\ GoodCall(call) /\ call.pc = pc
              /\ call.request = calls[c].request /\ call.proc = calls[c].proc
              /\ call.wal = calls[c].wal /\ call.answer = calls[c].answer
              /\ call.resumed = calls[c].resumed
              /\ call.checkpoint = calls[c].checkpoint
              /\ call.receipt = 0 /\ call.from = calls[c].from
<1> DEFINE call == [calls[c] EXCEPT !.pc = pc]
<1>1. /\ c \in DOMAIN calls /\ calls[c].pc = from /\ GoodCall(calls[c])
      /\ calls[c].answer \notin Settled
  BY AtIsActive
<1>2. calls[c].receipt = 0
  BY <1>1 DEF GoodCall, WorkingPcs
<1>3. /\ GoodCall(call) /\ call.pc = pc
      /\ call.answer = calls[c].answer /\ call.request = calls[c].request
      /\ call.proc = calls[c].proc /\ call.wal = calls[c].wal
      /\ call.resumed = calls[c].resumed /\ call.checkpoint = calls[c].checkpoint
      /\ call.receipt = 0 /\ call.from = calls[c].from
  BY <1>1, <1>2, SamePlaceIsGood
<1>4. calls' = [calls EXCEPT ![c] = call]
  BY DEF GoTo
<1> HIDE DEF call
<1>5. Moves(c, call)
  BY <1>1, <1>4, GoesOn
<1> QED
  BY <1>3, <1>4, <1>5

\* The insertion of a restored suspension into the map.
LEMMA RepublishAside ==
    ASSUME TypeInv, NEW c, Republish(c)
    PROVE  StepsAside(c)
<1>1. At(c, "republish") /\ Quiet
  BY DEF Republish, Quiet
<1>2. LedgerKeeps /\ RowsAside(calls[c]) /\ UNCHANGED <<up, executed, overtaken>>
  BY <1>1, QuietAside
<1>3. CASE Answer(c, "refused")
  BY <1>1, <1>2, <1>3, IdlePcs, ErrorsAreAnswers, AnswersAside
<1>4. ASSUME leases[LeaseOf(c)] # "in_flight",
             leases' = [leases EXCEPT ![LeaseOf(c)] = "pending"],
             GoTo(c, "lease")
      PROVE  StepsAside(c)
  <2>1. /\ c \in DOMAIN calls /\ GoodCall(calls[c]) /\ calls[c].pc = "republish"
        /\ calls[c].resumed /\ calls[c].checkpoint \in Checkpoints
    BY <1>1, IdlePcs, AtIsActive DEF GoodCall, RestoringPcs
  <2>2. PICK call :
           /\ calls' = [calls EXCEPT ![c] = call]
           /\ GoodCall(call) /\ call.pc = "lease"
           /\ call.request = calls[c].request /\ call.proc = calls[c].proc
           /\ call.wal = calls[c].wal /\ call.answer = calls[c].answer
    BY <1>1, <1>4, <2>1, IdlePcs, GoToIsMove
       DEF SuspendingPcs, RestoringPcs, RecordedPcs, WorkingPcs
  <2>3. ~HoldsLease(calls[c]) /\ ~HoldsLease(call)
    BY <2>1, <2>2 DEF HoldsLease
  <2>4. LeaseOf(c) \in Procs \X Checkpoints
    BY <2>1, LeaseNamed DEF LeaseOf
  <2>5. LeaseStep(c, call)
    BY <1>4, <2>3, <2>4 DEF LeaseStep
  <2> QED
    BY <1>1, <1>2, <2>2, <2>5, IdlePcs, GoesAside
<1> QED
  BY <1>3, <1>4 DEF Republish

\* The second attempt to take the lease.
LEMMA TakeLeaseAside ==
    ASSUME TypeInv, NEW c, TakeLease(c)
    PROVE  StepsAside(c)
<1>1. At(c, "lease") /\ Quiet
  BY DEF TakeLease, Quiet
<1>2. LedgerKeeps /\ RowsAside(calls[c]) /\ UNCHANGED <<up, executed, overtaken>>
  BY <1>1, QuietAside
<1>3. CASE Answer(c, "refused")
  BY <1>1, <1>2, <1>3, IdlePcs, ErrorsAreAnswers, AnswersAside
<1>4. ASSUME leases[LeaseOf(c)] = "pending",
             leases' = [leases EXCEPT ![LeaseOf(c)] = "in_flight"],
             GoTo(c, "validate")
      PROVE  StepsAside(c)
  <2>1. /\ c \in DOMAIN calls /\ GoodCall(calls[c]) /\ calls[c].pc = "lease"
        /\ calls[c].resumed
    BY <1>1, IdlePcs, AtIsActive DEF GoodCall, RestoringPcs
  <2>2. PICK call :
           /\ calls' = [calls EXCEPT ![c] = call]
           /\ GoodCall(call) /\ call.pc = "validate"
           /\ call.request = calls[c].request /\ call.proc = calls[c].proc
           /\ call.wal = calls[c].wal /\ call.answer = calls[c].answer
           /\ call.resumed = calls[c].resumed /\ call.checkpoint = calls[c].checkpoint
    <3>1. /\ "validate" \in ActivePcs /\ "lease" \in ActivePcs \ WorkingPcs
          /\ "validate" \notin SuspendingPcs \cup RestoringPcs \cup RecordedPcs
          /\ "validate" \notin {"begin"} \cup WorkingPcs
      BY DEF ActivePcs, SuspendingPcs, RestoringPcs, RecordedPcs, WorkingPcs
    <3> QED
      BY <1>1, <1>4, <3>1, GoToIsMove
  <2>3. ~HoldsLease(calls[c]) /\ HoldsLease(call)
    BY <2>1, <2>2 DEF HoldsLease, ActivePcs
  <2>4. <<call.proc, call.checkpoint>> = LeaseOf(c)
    BY <2>2 DEF LeaseOf
  <2>5. LeaseStep(c, call)
    BY <1>4, <2>3, <2>4 DEF LeaseStep
  <2> QED
    BY <1>1, <1>2, <2>2, <2>5, IdlePcs, GoesAside
<1> QED
  BY <1>3, <1>4 DEF TakeLease

\* The three ends of validate.
LEMMA ValidateAside ==
    ASSUME TypeInv, NEW c, ValidateRefuses(c) \/ ValidateAllows(c)
    PROVE  StepsAside(c)
<1>1. At(c, "validate") /\ Quiet
  BY DEF ValidateRefuses, ValidateAllows, Quiet
<1>2. LedgerKeeps /\ RowsAside(calls[c]) /\ UNCHANGED <<up, executed, overtaken>>
  BY <1>1, QuietAside
<1>3. CASE ValidateRefuses(c)
  <2>1. PICK answer \in {"refused", "retry"} : Answer(c, answer)
    BY <1>3 DEF ValidateRefuses
  <2> QED
    BY <1>1, <1>2, <2>1, IdlePcs, ErrorsAreAnswers, AnswersAside
<1>4. CASE ValidateAllows(c)
  <2>1. GoTo(c, "reserve") /\ UNCHANGED leases
    BY <1>4 DEF ValidateAllows
  <2> QED
    BY <1>1, <1>2, <2>1, IdlePcs, GoToAside DEF RestoringPcs, SuspendingPcs
<1> QED
  BY <1>3, <1>4

\* A checkpoint is issued for a first invocation, which holds no lease.
LEMMA ValidateSuspendsAside ==
    ASSUME TypeInv, NEW c, ValidateSuspends(c)
    PROVE  StepsAside(c)
<1>1. At(c, "validate") /\ Quiet /\ ~calls[c].resumed /\ UNCHANGED leases
  BY DEF ValidateSuspends, Quiet
<1>2. LedgerKeeps /\ RowsAside(calls[c]) /\ UNCHANGED <<up, executed, overtaken>>
  BY <1>1, QuietAside
<1>3. PICK checkpoint \in Checkpoints :
         calls' = [calls EXCEPT ![c].pc = "suspendReserve", ![c].checkpoint = checkpoint]
  BY DEF ValidateSuspends
<1> DEFINE call == [calls[c] EXCEPT !.pc = "suspendReserve", !.checkpoint = checkpoint]
<1>4. /\ c \in DOMAIN calls /\ GoodCall(calls[c]) /\ calls[c].pc = "validate"
      /\ calls[c].answer \notin Settled /\ calls[c] \in CallRecords
  BY <1>1, IdlePcs, AtIsActive
<1>5. calls' = [calls EXCEPT ![c] = call]
  BY <1>3
<1>6. /\ call.pc = "suspendReserve" /\ call.checkpoint = checkpoint
      /\ call.request = calls[c].request /\ call.proc = calls[c].proc
      /\ call.wal = calls[c].wal /\ call.answer = calls[c].answer
      /\ call.resumed = calls[c].resumed /\ call.receipt = calls[c].receipt
      /\ call.from = calls[c].from /\ call.result = calls[c].result
  BY <1>4 DEF CallRecords
<1>7. call \in CallRecords
  BY <1>4 DEF CallRecords, ActivePcs
<1> HIDE DEF call
<1>8. GoodCall(call)
  BY <1>4, <1>6, <1>7
     DEF GoodCall, SuspendingPcs, RestoringPcs, RecordedPcs, WorkingPcs
<1>9. LeaseStep(c, call)
  BY <1>1, <1>6 DEF LeaseStep, HoldsLease
<1> QED
  BY <1>1, <1>2, <1>5, <1>6, <1>8, <1>9, IdlePcs, GoesAside

\* Before either reservation a call stands in its request's slot.
LEMMA CallNamesInput ==
    ASSUME TypeInv, NEW c \in DOMAIN calls
    PROVE  /\ calls[c].request \in Requests
           /\ calls[c].request \in ReservationInputs
           /\ Id(c) \in Ids
           /\ Slot(c) = SlotOf(calls[c].request)
           /\ Slot(c)[1] \in Scopes
           /\ calls[c].wal \in Nat /\ calls[c].receipt \in Nat
           /\ calls[c].from \in InvocationStates
<1>1. calls[c] \in CallRecords
  BY DEF TypeInv, InvocationTypeOK
<1>2. calls[c].request \in Requests
  BY <1>1 DEF CallRecords
<1> QED
  BY <1>1, <1>2, RequestIsInput DEF CallRecords, Id, Slot

\* What the reservations do to the rows.
LEMMA ReservationsAside ==
    ASSUME TypeInv, NEW c \in DOMAIN calls, NEW now \in Readings, NEW until \in Deadlines
    PROVE  /\ ReservesFresh(c, now, until) =>
                 RowsAside(calls[c]) /\ UNCHANGED <<executed, overtaken>>
           /\ FindsExisting(c, now, until) =>
                 RowsAside(calls[c]) /\ UNCHANGED <<executed, overtaken>>
           /\ ReserveRefused(calls[c].request, now, until) /\ UNCHANGED historyVars =>
                 RowsAside(calls[c]) /\ UNCHANGED <<executed, overtaken>>
<1>1. calls[c].request \in Requests /\ Slot(c) = SlotOf(calls[c].request)
  BY CallNamesInput
<1>2. TypeOK
  BY DEF TypeInv, InvocationTypeOK
<1>3. ASSUME ReservesFresh(c, now, until)
      PROVE  RowsAside(calls[c]) /\ UNCHANGED <<executed, overtaken>>
  <2>1. /\ ReserveNew(calls[c].request, now, until)
        /\ runs' = [runs EXCEPT ![SlotOf(calls[c].request)] = 0]
        /\ UNCHANGED <<executed, overtaken>>
    BY <1>1, <1>3 DEF ReservesFresh
  <2> QED
    BY <1>1, <1>2, <2>1, ReservationInserts DEF RowsAside
<1>4. ASSUME FindsExisting(c, now, until)
      PROVE  RowsAside(calls[c]) /\ UNCHANGED <<executed, overtaken>>
  BY <1>1, <1>2, <1>4, ReservationMoves DEF FindsExisting, RowsAside, historyVars
<1>5. ASSUME ReserveRefused(calls[c].request, now, until), UNCHANGED historyVars
      PROVE  RowsAside(calls[c]) /\ UNCHANGED <<executed, overtaken>>
  BY <1>1, <1>2, <1>5, ReservationMoves DEF RowsAside, historyVars
<1> QED
  BY <1>3, <1>4, <1>5

\* A reservation that is refused ends the call.
LEMMA RefusedAside ==
    ASSUME TypeInv, NEW c, NEW from \in ActivePcs \ WorkingPcs, At(c, from),
           NEW now \in Readings, NEW until \in Deadlines,
           IsRefused(c, now, until), UNCHANGED <<ledgerVars, up>>
    PROVE  StepsAside(c)
<1>1. c \in DOMAIN calls
  BY AtIsActive
<1>2. PICK answer \in {"refused", "retry"} : Answer(c, answer)
  BY DEF IsRefused
<1>3. RowsAside(calls[c]) /\ UNCHANGED <<executed, overtaken>>
  BY <1>1, ReservationsAside DEF IsRefused
<1>4. LedgerKeeps
  BY TypeInvLedger, LedgerStays
<1> QED
  BY <1>2, <1>3, <1>4, ErrorsAreAnswers, AnswersAside

\* A store that cannot be reached ends the call.
LEMMA UnavailableAside ==
    ASSUME TypeInv, NEW c, NEW from \in ActivePcs \ WorkingPcs, At(c, from),
           StoreUnavailable(c), UNCHANGED <<ledgerVars, up>>
    PROVE  StepsAside(c)
<1>1. Quiet /\ Answer(c, "refused")
  BY DEF StoreUnavailable, Quiet
<1>2. LedgerKeeps /\ RowsAside(calls[c]) /\ UNCHANGED <<up, executed, overtaken>>
  BY <1>1, QuietAside
<1> QED
  BY <1>1, <1>2, ErrorsAreAnswers, AnswersAside

\* The reservation a suspension needs.
LEMMA SuspendReserveAside ==
    ASSUME TypeInv, NEW c, SuspendReserve(c)
    PROVE  StepsAside(c)
<1>1. At(c, "suspendReserve") /\ UNCHANGED <<ledgerVars, up>> /\ c \in DOMAIN calls
  BY IdlePcs, AtIsActive DEF SuspendReserve
<1>2. LedgerKeeps
  BY <1>1, TypeInvLedger, LedgerStays
<1>3. ASSUME NEW pc \in {"suspendSwap", "publish"}, GoTo(c, pc), UNCHANGED leases,
             RowsAside(calls[c]), UNCHANGED <<executed, overtaken>>
      PROVE  StepsAside(c)
  BY <1>1, <1>2, <1>3, IdlePcs, GoToAside DEF SuspendingPcs, RestoringPcs
<1>4. ASSUME Answer(c, "refused"),
             RowsAside(calls[c]), UNCHANGED <<executed, overtaken>>
      PROVE  StepsAside(c)
  BY <1>1, <1>2, <1>4, IdlePcs, ErrorsAreAnswers, AnswersAside
<1>5. CASE StoreUnavailable(c)
  BY <1>1, <1>5, IdlePcs, UnavailableAside
<1>6. ASSUME NEW now \in Readings, NEW until \in Deadlines,
             ReservesFresh(c, now, until), GoTo(c, "suspendSwap"), UNCHANGED leases
      PROVE  StepsAside(c)
  BY <1>1, <1>3, <1>6, ReservationsAside
<1>7. ASSUME NEW now \in Readings, NEW until \in Deadlines,
             FindsExisting(c, now, until),
             \/ GoTo(c, "publish") /\ UNCHANGED leases
             \/ GoTo(c, "suspendSwap") /\ UNCHANGED leases
             \/ Answer(c, "refused")
      PROVE  StepsAside(c)
  BY <1>1, <1>3, <1>4, <1>7, ReservationsAside
<1>8. ASSUME NEW now \in Readings, NEW until \in Deadlines, IsRefused(c, now, until)
      PROVE  StepsAside(c)
  BY <1>1, <1>8, IdlePcs, RefusedAside
<1> QED
  BY <1>5, <1>6, <1>7, <1>8 DEF SuspendReserve

\* The swap from reserved to suspended.
LEMMA SuspendSwapAside ==
    ASSUME TypeInv, NEW c, SuspendSwap(c)
    PROVE  StepsAside(c)
<1>1. At(c, "suspendSwap") /\ UNCHANGED <<ledgerVars, up>>
  BY DEF SuspendSwap
<1>2. UNCHANGED <<runs, executed, overtaken>>
  BY DEF SuspendSwap, historyVars
<1>3. LedgerKeeps
  BY <1>1, TypeInvLedger, LedgerStays
<1>4. c \in DOMAIN calls /\ calls[c].checkpoint \in Checkpoints
  BY <1>1, IdlePcs, AtIsActive DEF GoodCall, SuspendingPcs
<1>5. ASSUME Answer(c, "refused"), UNCHANGED storeVars
      PROVE  StepsAside(c)
  <2>1. RowsAside(calls[c])
    BY <1>2, <1>5, StillRows DEF RowsAside, storeVars
  <2> QED
    BY <1>1, <1>2, <1>3, <1>5, <2>1, IdlePcs, ErrorsAreAnswers, AnswersAside
<1>6. ASSUME NEW now \in Readings,
             Transition(Id(c), Plain("reserved"), SuspendedAt(calls[c].checkpoint),
                        NoAudit, now),
             GoTo(c, "publish"), UNCHANGED leases
      PROVE  StepsAside(c)
  <2>1. PICK id, from, to, audit :
           /\ Transition(id, from, to, audit, now)
           /\ from = Plain("reserved") /\ audit = NoAudit
           /\ to = SuspendedAt(calls[c].checkpoint)
    BY <1>6 DEF Transition
  <2>2. to \in InvocationStates /\ to.kind = "suspended"
    BY <1>4, <2>1 DEF SuspendedAt, InvocationStates
  <2>3. audit \in Audits /\ audit.kind = "none"
    BY <2>1 DEF Audits, NoAudit
  <2>4. TypeOK
    BY DEF TypeInv, InvocationTypeOK
  <2>5. Swaps(id, from, to, audit)
    BY <1>6, <2>1, <2>2, <2>3, <2>4, TransitionSwaps
  <2>6. RowsAside(calls[c])
    BY <1>2, <2>1, <2>2, <2>3, <2>5 DEF RowsAside, Swaps
  <2> QED
    BY <1>1, <1>2, <1>3, <1>6, <2>6, IdlePcs, GoToAside DEF SuspendingPcs, RestoringPcs
<1> QED
  BY <1>5, <1>6 DEF SuspendSwap, TransitionRefused

\* The publication of a checkpoint.
LEMMA PublishAside ==
    ASSUME TypeInv, NEW c, Publish(c)
    PROVE  StepsAside(c)
<1>1. At(c, "publish") /\ Quiet
  BY DEF Publish, Quiet
<1>2. LedgerKeeps /\ RowsAside(calls[c]) /\ UNCHANGED <<up, executed, overtaken>>
  BY <1>1, QuietAside
<1>3. CASE Answer(c, "refused")
  BY <1>1, <1>2, <1>3, IdlePcs, ErrorsAreAnswers, AnswersAside
<1>4. ASSUME leases[LeaseOf(c)] = "absent",
             calls' = [calls EXCEPT ![c] = Done(@, "suspended")],
             leases' = [leases EXCEPT ![LeaseOf(c)] = "pending"]
      PROVE  StepsAside(c)
  <2> DEFINE call == Done(calls[c], "suspended")
  <2>1. /\ c \in DOMAIN calls /\ c \in Calls /\ GoodCall(calls[c])
        /\ calls[c].pc = "publish" /\ calls[c].checkpoint \in Checkpoints
    BY <1>1, IdlePcs, AtIsActive DEF GoodCall, SuspendingPcs
  <2>2. /\ GoodCall(call) /\ call.pc = "done" /\ call.answer = "suspended"
        /\ call.request = calls[c].request /\ call.proc = calls[c].proc
        /\ call.wal = calls[c].wal /\ ~HoldsLease(call)
    BY <2>1, ErrorsAreAnswers, DoneIsGood
  <2>3. calls' = [calls EXCEPT ![c] = call]
    BY <1>4
  <2> HIDE DEF call
  <2>4. Moves(c, call)
    BY <2>1, <2>3, GoesOn
  <2>5. LeaseOf(c) \in Procs \X Checkpoints
    BY <2>1, LeaseNamed DEF LeaseOf
  <2>6. LeaseStep(c, call)
    BY <1>4, <2>1, <2>2, <2>5 DEF LeaseStep
  <2>7. RowsAside(call)
    BY <1>2, <2>2 DEF RowsAside
  <2> QED
    BY <1>2, <2>1, <2>2, <2>4, <2>6, <2>7 DEF StepsAside, WorkingPcs, Settled
<1> QED
  BY <1>3, <1>4 DEF Publish


\* A resume that finds its invocation suspended goes on from that state.
LEMMA ResumesAside ==
    ASSUME TypeInv, NEW c, At(c, "reserve"), calls[c].resumed,
           Slot(c) \in DOMAIN rows, rows[Slot(c)].state.kind = "suspended",
           calls' = [calls EXCEPT ![c].pc = "authorize",
                                  ![c].from = ExistingState(c)],
           UNCHANGED leases, LedgerKeeps, RowsAside(calls[c]),
           UNCHANGED <<up, executed, overtaken>>
    PROVE  StepsAside(c)
<1> DEFINE state == ExistingState(c)
           call == [calls[c] EXCEPT !.pc = "authorize", !.from = state]
<1>1. /\ c \in DOMAIN calls /\ GoodCall(calls[c]) /\ calls[c].pc = "reserve"
      /\ calls[c].answer \notin Settled /\ calls[c] \in CallRecords
  BY IdlePcs, AtIsActive
<1>2. state \in InvocationStates /\ state.kind = "suspended"
  BY DEF TypeInv, InvocationTypeOK, TypeOK, StoredInvocations, ExistingState
<1>3. calls' = [calls EXCEPT ![c] = call]
  OBVIOUS
<1> HIDE DEF state
<1>4. /\ call.pc = "authorize" /\ call.checkpoint = calls[c].checkpoint
      /\ call.request = calls[c].request /\ call.proc = calls[c].proc
      /\ call.wal = calls[c].wal /\ call.answer = calls[c].answer
      /\ call.resumed = calls[c].resumed /\ call.receipt = calls[c].receipt
      /\ call.from = state /\ call.result = calls[c].result
  BY <1>1 DEF CallRecords
<1>5. call \in CallRecords
  BY <1>1, <1>2 DEF CallRecords, ActivePcs
<1> HIDE DEF call
<1>6. GoodCall(call)
  BY <1>1, <1>2, <1>4, <1>5
     DEF GoodCall, SuspendingPcs, RestoringPcs, RecordedPcs, WorkingPcs
<1>7. HoldsLease(call) /\ HoldsLease(calls[c])
  BY <1>1, <1>4 DEF HoldsLease, ActivePcs
<1>8. LeaseStep(c, call)
  BY <1>1, <1>4, <1>7 DEF LeaseStep, LeaseOf
<1> QED
  BY <1>3, <1>4, <1>6, <1>8, IdlePcs, GoesAside

\* The reservation of an effect.
LEMMA ReserveAside ==
    ASSUME TypeInv, NEW c, Reserve(c)
    PROVE  StepsAside(c)
<1>1. At(c, "reserve") /\ UNCHANGED <<ledgerVars, up>> /\ c \in DOMAIN calls
  BY IdlePcs, AtIsActive DEF Reserve
<1>2. LedgerKeeps
  BY <1>1, TypeInvLedger, LedgerStays
<1>3. CASE StoreUnavailable(c)
  BY <1>1, <1>3, IdlePcs, UnavailableAside
<1>4. ASSUME NEW now \in Readings, NEW until \in Deadlines,
             ReservesFresh(c, now, until), GoTo(c, "authorize"), UNCHANGED leases
      PROVE  StepsAside(c)
  BY <1>1, <1>2, <1>4, ReservationsAside, IdlePcs, GoToAside
     DEF SuspendingPcs, RestoringPcs
<1>5. ASSUME NEW now \in Readings, NEW until \in Deadlines,
             FindsExisting(c, now, until),
             \/ /\ calls[c].resumed /\ ExistingState(c).kind = "suspended"
                /\ calls' = [calls EXCEPT ![c].pc = "authorize",
                                          ![c].from = ExistingState(c)]
                /\ UNCHANGED leases
             \/ Answer(c, "outcome_unknown")
             \/ Answer(c, "deferred")
      PROVE  StepsAside(c)
  <2>1. RowsAside(calls[c]) /\ UNCHANGED <<executed, overtaken>>
    BY <1>1, <1>5, ReservationsAside
  <2>2. Slot(c) \in DOMAIN rows
    BY <1>5, KeptIsSubmap DEF FindsExisting, ReserveExisting, Deduplicated, Slot
  <2>3. CASE Answer(c, "outcome_unknown") \/ Answer(c, "deferred")
    BY <1>1, <1>2, <2>1, <2>3, IdlePcs, ErrorsAreAnswers, AnswersAside
  <2>4. CASE /\ calls[c].resumed /\ ExistingState(c).kind = "suspended"
             /\ calls' = [calls EXCEPT ![c].pc = "authorize",
                                       ![c].from = ExistingState(c)]
             /\ UNCHANGED leases
    <3>1. rows[Slot(c)].state.kind = "suspended"
      BY <2>4 DEF ExistingState
    <3> QED
      BY <1>1, <1>2, <2>1, <2>2, <2>4, <3>1, ResumesAside
  <2> QED
    BY <1>5, <2>3, <2>4
<1>6. ASSUME NEW now \in Readings, NEW until \in Deadlines, IsRefused(c, now, until)
      PROVE  StepsAside(c)
  BY <1>1, <1>6, IdlePcs, RefusedAside
<1> QED
  BY <1>3, <1>4, <1>5, <1>6 DEF Reserve

\* The write-ahead record, appended or not.
LEMMA AuthorizeAside ==
    ASSUME TypeInv, NEW c, Authorize(c)
    PROVE  StepsAside(c)
<1>1. At(c, "authorize") /\ UNCHANGED storeVars /\ UNCHANGED <<up, runs, executed, overtaken>>
  BY DEF Authorize, historyVars
<1>2. /\ c \in DOMAIN calls /\ GoodCall(calls[c]) /\ calls[c].pc = "authorize"
      /\ calls[c].answer \notin Settled /\ calls[c] \in CallRecords
      /\ calls[c].proc \in up /\ c \in Calls
  BY <1>1, IdlePcs, AtIsActive
<1>3. RowsAside(calls[c])
  BY <1>1, StillRows DEF storeVars, RowsAside
<1>4. Authorization(Id(c)) \in Entries
  BY <1>2, CallNamesInput, AuthorizationIsEntry
<1>5. LedgerOK
  BY TypeInvLedger
<1>6. ASSUME AppendFails(Authorization(Id(c))), Answer(c, "retry")
      PROVE  StepsAside(c)
  <2>1. PICK entry \in Entries : entry = Authorization(Id(c))
    BY <1>4
  <2>2. AppendFails(entry)
    BY <1>6, <2>1 DEF AppendFails, AppendUnacknowledged, AppendTorn, Accepts, Linkable
  <2>3. LedgerKeeps
    BY <1>5, <2>2, FailedAppendKeeps
  <2> QED
    BY <1>1, <1>3, <1>6, <2>3, IdlePcs, ErrorsAreAnswers, AnswersAside
<1>7. ASSUME Appended(Authorization(Id(c))), UNCHANGED leases,
             calls' = [calls EXCEPT ![c].pc = "begin", ![c].wal = NextSequence]
      PROVE  StepsAside(c)
  <2> DEFINE next == NextSequence
             call == [calls[c] EXCEPT !.pc = "begin", !.wal = next]
  <2>1. next \in Nat \ {0} /\ next \in Records
    BY <1>5, <1>7 DEF Appended, Accepts, NextSequence, LedgerOK
  <2>2. calls' = [calls EXCEPT ![c] = call]
    BY <1>7
  <2> HIDE DEF next
  <2>3. /\ call.pc = "begin" /\ call.checkpoint = calls[c].checkpoint
        /\ call.request = calls[c].request /\ call.proc = calls[c].proc
        /\ call.wal = next /\ call.answer = calls[c].answer
        /\ call.resumed = calls[c].resumed /\ call.receipt = calls[c].receipt
        /\ call.from = calls[c].from /\ call.result = calls[c].result
    BY <1>2 DEF CallRecords
  <2>4. call \in CallRecords
    BY <1>2, <2>1 DEF CallRecords, ActivePcs
  <2> HIDE DEF call
  <2>5. GoodCall(call)
    BY <1>2, <2>1, <2>3, <2>4
       DEF GoodCall, SuspendingPcs, RestoringPcs, RecordedPcs, WorkingPcs
  <2>6. HoldsLease(call) <=> HoldsLease(calls[c])
    BY <1>2, <2>3 DEF HoldsLease, ActivePcs
  <2>7. LeaseStep(c, call)
    BY <1>2, <1>7, <2>3, <2>6 DEF LeaseStep, LeaseOf
  <2>8. Moves(c, call)
    BY <1>2, <2>2, GoesOn
  <2>9. RowsAside(call)
    BY <1>3, <2>3 DEF RowsAside
  <2>10. Appended(Authorization(call.request.id))
    BY <1>7, <2>3 DEF Id
  <2> QED
    BY <1>1, <1>2, <2>1, <2>3, <2>5, <2>7, <2>8, <2>9, <2>10
       DEF StepsAside, WorkingPcs, next
<1> QED
  BY <1>6, <1>7 DEF Authorize

\* A call that is refused the swap to pending, or whose store fails, ends.
LEMMA BeginRefusedAside ==
    ASSUME TypeInv, NEW c, At(c, "begin"), Answer(c, "refused"), UNCHANGED storeVars,
           UNCHANGED <<ledgerVars, up, historyVars>>
    PROVE  StepsAside(c)
<1>1. Quiet
  BY DEF Quiet
<1>2. LedgerKeeps /\ RowsAside(calls[c]) /\ UNCHANGED <<up, executed, overtaken>>
  BY <1>1, QuietAside
<1> QED
  BY <1>2, IdlePcs, ErrorsAreAnswers, AnswersAside

-----------------------------------------------------------------------------
(* The steps of a call at work.                                             *)

\* What a call holds receipts for after its step: what it held before, or what
\* it has just appended.
RecordStep(c, call) ==
    \/ /\ call.wal = IF c \in DOMAIN calls THEN calls[c].wal ELSE 0
       /\ call.receipt # 0 => /\ c \in DOMAIN calls
                              /\ call.receipt = calls[c].receipt
                              /\ call.result = calls[c].result
       /\ LedgerKeeps
       /\ \/ /\ UNCHANGED executed
             /\ call.pc \in {"begin", "execute"} =>
                   c \in DOMAIN calls /\ calls[c].pc \in {"begin", "execute"}
          \/ /\ c \in DOMAIN calls /\ calls[c].pc = "execute"
             /\ executed' = executed \cup {calls[c].wal}
             /\ call.pc \notin {"begin", "execute"}
    \/ /\ call.pc = "begin" /\ call.wal = NextSequence /\ call.receipt = 0
       /\ Appended(Authorization(call.request.id))
       /\ UNCHANGED executed
    \/ /\ c \in DOMAIN calls /\ calls[c].pc = "audit" /\ call.pc = "settle"
       /\ call.wal = calls[c].wal /\ call.receipt = NextSequence
       /\ Appended(Outcome(call.request.id, call.wal, call.result))
       /\ UNCHANGED executed

\* A step of one call, whatever it does to the rows.
CallStep(c, call) ==
    /\ c \in Calls
    /\ Moves(c, call) /\ LeaseStep(c, call)
    /\ GoodCall(call)
    /\ call.pc # "done" => call.proc \in up
    /\ c \in DOMAIN calls => /\ calls[c].pc # "done"
                             /\ call.request = calls[c].request
    /\ RecordStep(c, call)
    /\ runs' \in [DOMAIN runs -> Nat]
    /\ UNCHANGED <<up, overtaken>>

\* The swap to pending.
Begins(c) ==
    \E call, from :
        /\ CallStep(c, call) /\ c \in DOMAIN calls
        /\ calls[c].pc = "begin" /\ call.pc = "execute"
        /\ call.wal = calls[c].wal /\ call.answer \notin Settled
        /\ from.kind \in {"reserved", "suspended"}
        /\ Swaps(Id(c), from, Plain("pending"), WalLink(c))
        /\ UNCHANGED <<runs, acked>>

\* The effect comes to pass, or its call goes on or ends without touching the
\* row.
Works(c) ==
    \E call :
        /\ CallStep(c, call) /\ c \in DOMAIN calls
        /\ calls[c].pc \in WorkingPcs /\ call.pc \in RecordedPcs \cup {"done"}
        /\ call.wal = calls[c].wal /\ call.answer \notin Settled
        /\ UNCHANGED rows
        /\ \/ /\ UNCHANGED runs
              /\ calls[c].pc = "execute" => call.pc = "done"
           \/ /\ calls[c].pc = "execute"
              /\ runs'[Slot(c)] = runs[Slot(c)] + 1
              /\ \A slot \in DOMAIN runs \ {Slot(c)} : runs'[slot] = runs[slot]

\* The outcome is stored and told.
Settles(c) ==
    \E call :
        /\ CallStep(c, call) /\ c \in DOMAIN calls
        /\ calls[c].pc \in {"settle", "fallback"} /\ call.pc = "done"
        /\ call.wal = calls[c].wal
        /\ call.answer \in {calls[c].result, "outcome_unknown"}
        /\ call.answer \in OutcomeKinds
        /\ Swaps(Id(c), Plain("pending"), Plain(call.answer), OutcomeLink(c))
        /\ UNCHANGED <<runs, acked>>

\* The runs are counted for every slot a call can have.
LEMMA RunsCounted ==
    ASSUME TypeInv
    PROVE  /\ runs \in [DOMAIN runs -> Nat]
           /\ \A c \in DOMAIN calls : Slot(c) \in DOMAIN runs
<1>1. runs \in [{SlotOf(request) : request \in Requests} -> Nat]
  BY DEF TypeInv, InvocationTypeOK
<1>2. DOMAIN runs = {SlotOf(request) : request \in Requests}
  BY <1>1
<1> QED
  BY <1>1, <1>2, CallNamesInput

\* Effects that land add one each to the runs of their slots.
LEMMA LandAdds ==
    ASSUME TypeInv, NEW landing \in SUBSET DOMAIN calls, Land(landing)
    PROVE  /\ runs' \in [DOMAIN runs -> Nat]
           /\ \A slot \in DOMAIN runs :
                 (\A d \in landing : Slot(d) # slot) => runs'[slot] = runs[slot]
           /\ \A c \in landing :
                 (\A d \in landing : Slot(d) = Slot(c) => d = c) =>
                    runs'[Slot(c)] = runs[Slot(c)] + 1
           /\ executed' = executed \cup {calls[c].wal : c \in landing}
           /\ UNCHANGED overtaken
<1> DEFINE Landed(slot) == {c \in landing : Slot(c) = slot}
<1>1. /\ runs' = [slot \in DOMAIN runs |-> runs[slot] + Cardinality(Landed(slot))]
      /\ executed' = executed \cup {calls[c].wal : c \in landing}
      /\ UNCHANGED overtaken
  BY DEF Land
<1>2. IsFiniteSet(DOMAIN calls)
  BY DEF TypeInv, CallsGood
<1>3. ASSUME NEW slot PROVE Cardinality(Landed(slot)) \in Nat
  <2>1. Landed(slot) \subseteq DOMAIN calls
    OBVIOUS
  <2> QED
    BY <1>2, <2>1, FS_Subset, FS_CardinalityType
<1>4. ASSUME NEW slot, \A d \in landing : Slot(d) # slot
      PROVE  Cardinality(Landed(slot)) = 0
  <2>1. Landed(slot) = {}
    BY <1>4
  <2> QED
    BY <2>1, FS_EmptySet
<1>5. ASSUME NEW c \in landing, \A d \in landing : Slot(d) = Slot(c) => d = c
      PROVE  Cardinality(Landed(Slot(c))) = 1
  <2>1. Landed(Slot(c)) = {c}
    BY <1>5
  <2> QED
    BY <2>1, FS_Singleton
<1>6. runs \in [DOMAIN runs -> Nat] /\ \A c \in landing : Slot(c) \in DOMAIN runs
  BY RunsCounted
<1> HIDE DEF Landed
<1>7. runs' \in [DOMAIN runs -> Nat]
  BY <1>1, <1>3, <1>6
<1>8. ASSUME NEW slot \in DOMAIN runs, \A d \in landing : Slot(d) # slot
      PROVE  runs'[slot] = runs[slot]
  BY <1>1, <1>4, <1>6, <1>8
<1>9. ASSUME NEW c \in landing, \A d \in landing : Slot(d) = Slot(c) => d = c
      PROVE  runs'[Slot(c)] = runs[Slot(c)] + 1
  BY <1>1, <1>5, <1>6, <1>9
<1> QED
  BY <1>1, <1>7, <1>8, <1>9

\* What is done aside of the effects is a step of the call, too.
LEMMA AsideIsStep ==
    ASSUME TypeInv, NEW c, StepsAside(c)
    PROVE  \E call : CallStep(c, call)
<1>1. PICK call :
        /\ c \in Calls
        /\ Moves(c, call) /\ LeaseStep(c, call)
        /\ GoodCall(call)
        /\ call.pc \notin WorkingPcs /\ call.answer \notin Settled
        /\ call.pc # "done" => call.proc \in up
        /\ c \in DOMAIN calls =>
              /\ calls[c].pc \notin WorkingPcs \cup {"done"}
              /\ call.request = calls[c].request
        /\ \/ /\ call.pc # "begin"
              /\ call.wal = IF c \in DOMAIN calls THEN calls[c].wal ELSE 0
              /\ LedgerKeeps
           \/ /\ call.pc = "begin" /\ call.wal = NextSequence
              /\ Appended(Authorization(call.request.id))
        /\ RowsAside(call)
        /\ UNCHANGED <<up, executed, overtaken>>
  BY DEF StepsAside
<1>2. call.receipt = 0 /\ call.pc # "execute"
  BY <1>1 DEF GoodCall, WorkingPcs
<1>3. RecordStep(c, call)
  BY <1>1, <1>2 DEF RecordStep
<1>4. runs \in [DOMAIN runs -> Nat]
  BY RunsCounted
<1>5. runs' \in [DOMAIN runs -> Nat]
  BY <1>1, <1>4 DEF RowsAside
<1> QED
  BY <1>1, <1>3, <1>5 DEF CallStep

\* The call begins, or its swap fails and it ends.
LEMMA BeginSteps ==
    ASSUME TypeInv, NEW c, Begin(c)
    PROVE  StepsAside(c) \/ Begins(c)
<1>1. At(c, "begin") /\ UNCHANGED <<ledgerVars, up, historyVars>>
  BY DEF Begin
<1>2. CASE Answer(c, "refused") /\ UNCHANGED storeVars
  BY <1>1, <1>2, BeginRefusedAside
<1>3. ASSUME NEW now \in Readings,
             Transition(Id(c), calls[c].from, Plain("pending"),
                        AuditLink("authorization", calls[c].wal), now),
             GoTo(c, "execute"), UNCHANGED leases
      PROVE  Begins(c)
  <2>1. /\ c \in DOMAIN calls /\ GoodCall(calls[c]) /\ calls[c].pc = "begin"
        /\ calls[c].answer \notin Settled /\ calls[c].proc \in up /\ c \in Calls
    BY <1>1, IdlePcs, AtIsActive
  <2>2. /\ calls[c].wal # 0 /\ calls[c].wal \in Records
        /\ calls[c].from.kind \in {"reserved", "suspended"}
        /\ calls[c].from \in InvocationStates
    BY <2>1 DEF GoodCall, CallRecords
  <2>3. PICK call :
           /\ Moves(c, call) /\ GoodCall(call) /\ call.pc = "execute"
           /\ call.request = calls[c].request /\ call.proc = calls[c].proc
           /\ call.wal = calls[c].wal /\ call.answer = calls[c].answer
           /\ call.resumed = calls[c].resumed
           /\ call.checkpoint = calls[c].checkpoint /\ call.receipt = 0
    <3>1. /\ "execute" \in ActivePcs /\ "begin" \in ActivePcs \ WorkingPcs
          /\ "execute" \notin SuspendingPcs \cup RestoringPcs \cup RecordedPcs
      BY DEF ActivePcs, SuspendingPcs, RestoringPcs, RecordedPcs, WorkingPcs
    <3> QED
      BY <1>1, <1>3, <2>2, <3>1, GoToIsMove
  <2>4. HoldsLease(call) <=> HoldsLease(calls[c])
    BY <2>1, <2>3 DEF HoldsLease, ActivePcs
  <2>5. LeaseStep(c, call)
    BY <1>3, <2>1, <2>3, <2>4 DEF LeaseStep, LeaseOf
  <2>6. LedgerKeeps
    BY <1>1, TypeInvLedger, LedgerStays
  <2>7. UNCHANGED <<runs, executed, overtaken, acked, up>>
    BY <1>1 DEF historyVars, ledgerVars
  <2>8. RecordStep(c, call)
    BY <2>1, <2>3, <2>6, <2>7 DEF RecordStep
  <2>9. CallStep(c, call)
    BY <2>1, <2>3, <2>5, <2>7, <2>8, RunsCounted DEF CallStep
  <2>10. PICK id, from, to, audit :
           /\ Transition(id, from, to, audit, now)
           /\ id = Id(c) /\ from = calls[c].from /\ to = Plain("pending")
           /\ audit = AuditLink("authorization", calls[c].wal)
    BY <1>3 DEF Transition
  <2>11. to \in InvocationStates
    BY <2>10, PlainIsState DEF PlainKinds
  <2>12. audit \in Audits
    BY <2>2, <2>10 DEF Audits, AuditLinks, AuditLink
  <2>13. Swaps(id, from, to, audit)
    BY <1>3, <2>10, <2>11, <2>12, TransitionSwaps DEF TypeInv, InvocationTypeOK
  <2>14. from.kind \in {"reserved", "suspended"}
         /\ Swaps(Id(c), from, Plain("pending"), WalLink(c))
    BY <2>2, <2>10, <2>13 DEF Swaps, WalLink
  <2> QED
    BY <2>1, <2>3, <2>7, <2>9, <2>14 DEF Begins
<1> QED
  BY <1>2, <1>3 DEF Begin, TransitionRefused

\* A working call that goes on keeps what it carries, and its lease.
LEMMA WorkGoesOn ==
    ASSUME TypeInv, NEW c, NEW from \in WorkingPcs, At(c, from),
           NEW pc \in RecordedPcs, NEW call,
           calls' = [calls EXCEPT ![c] = call], UNCHANGED <<leases, up, overtaken>>,
           runs' \in [DOMAIN runs -> Nat],
           call \in CallRecords, call.pc = pc,
           call.request = calls[c].request, call.proc = calls[c].proc,
           call.wal = calls[c].wal, call.answer = calls[c].answer,
           call.resumed = calls[c].resumed, call.checkpoint = calls[c].checkpoint,
           call.from = calls[c].from, call.result \in OutcomeKinds,
           call.receipt # 0 => call.receipt \in Records /\ pc \in {"settle", "fallback"},
           RecordStep(c, call)
    PROVE  CallStep(c, call) /\ call.answer \notin Settled /\ call.pc \in RecordedPcs
<1>1. /\ c \in DOMAIN calls /\ c \in Calls /\ GoodCall(calls[c])
      /\ calls[c].pc = from /\ calls[c].proc \in up
      /\ calls[c].answer \notin Settled
  BY IdlePcs, AtIsActive
<1>2. Moves(c, call)
  BY <1>1, GoesOn
<1>3. /\ pc \in WorkingPcs /\ pc \notin SuspendingPcs \cup RestoringPcs
      /\ from # "done"
      /\ {pc, from} \subseteq ActivePcs \ {"restore", "republish", "lease"}
  BY DEF WorkingPcs, RecordedPcs, SuspendingPcs, RestoringPcs, ActivePcs
<1>4. GoodCall(call)
  BY <1>1, <1>3 DEF GoodCall
<1>5. HoldsLease(call) <=> HoldsLease(calls[c])
  BY <1>1, <1>3 DEF HoldsLease
<1>6. LeaseStep(c, call)
  BY <1>1, <1>5 DEF LeaseStep, LeaseOf
<1> QED
  BY <1>1, <1>2, <1>3, <1>4, <1>6 DEF CallStep

\* Going to the fallback, it keeps all of it.
LEMMA FallsBack ==
    ASSUME TypeInv, NEW c, NEW from \in {"audit", "settle"}, At(c, from),
           GoTo(c, "fallback"), UNCHANGED <<leases, up, rows, historyVars>>, LedgerKeeps
    PROVE  Works(c)
<1> DEFINE call == [calls[c] EXCEPT !.pc = "fallback"]
<1>1. /\ from \in WorkingPcs /\ from \in RecordedPcs /\ "fallback" \in RecordedPcs
      /\ from # "execute"
  BY DEF WorkingPcs, RecordedPcs
<1>2. c \in DOMAIN calls /\ GoodCall(calls[c]) /\ calls[c].pc = from
      /\ calls[c] \in CallRecords
  BY <1>1, IdlePcs, AtIsActive
<1>3. /\ call.pc = "fallback"
      /\ call.request = calls[c].request /\ call.proc = calls[c].proc
      /\ call.wal = calls[c].wal /\ call.answer = calls[c].answer
      /\ call.resumed = calls[c].resumed /\ call.checkpoint = calls[c].checkpoint
      /\ call.from = calls[c].from /\ call.result = calls[c].result
      /\ call.receipt = calls[c].receipt
  BY <1>2 DEF CallRecords
<1>4. call \in CallRecords
  BY <1>2 DEF CallRecords, ActivePcs
<1>5. calls' = [calls EXCEPT ![c] = call]
  BY DEF GoTo
<1> HIDE DEF call
<1>6. /\ call.result \in OutcomeKinds
      /\ call.receipt # 0 => call.receipt \in Records
  BY <1>1, <1>2, <1>3 DEF GoodCall
<1>7. UNCHANGED <<runs, executed, overtaken>>
  BY DEF historyVars
<1>8. RecordStep(c, call)
  BY <1>2, <1>3, <1>7 DEF RecordStep
<1>9. CallStep(c, call) /\ call.answer \notin Settled /\ call.pc \in RecordedPcs
  BY <1>1, <1>3, <1>4, <1>5, <1>6, <1>7, <1>8, RunsCounted, WorkGoesOn
<1> QED
  BY <1>1, <1>2, <1>3, <1>7, <1>9 DEF Works

\* The operation runs.
LEMMA ExecuteWorks ==
    ASSUME TypeInv, NEW c, Execute(c)
    PROVE  Works(c)
<1>1. At(c, "execute") /\ UNCHANGED <<rows, ledgerVars, up, leases>> /\ Land({c})
  BY DEF Execute, storeVars
<1>2. PICK result \in OutcomeKinds :
         calls' = [calls EXCEPT ![c].pc = "audit", ![c].result = result]
  BY DEF Execute
<1> DEFINE call == [calls[c] EXCEPT !.pc = "audit", !.result = result]
<1>3. "execute" \in WorkingPcs /\ "audit" \in RecordedPcs
  BY DEF WorkingPcs, RecordedPcs
<1>4. /\ c \in DOMAIN calls /\ GoodCall(calls[c]) /\ calls[c].pc = "execute"
      /\ calls[c] \in CallRecords
  BY <1>1, <1>3, IdlePcs, AtIsActive
<1>5. /\ call.pc = "audit" /\ call.result = result
      /\ call.request = calls[c].request /\ call.proc = calls[c].proc
      /\ call.wal = calls[c].wal /\ call.answer = calls[c].answer
      /\ call.resumed = calls[c].resumed /\ call.checkpoint = calls[c].checkpoint
      /\ call.from = calls[c].from /\ call.receipt = calls[c].receipt
  BY <1>4 DEF CallRecords
<1>6. call \in CallRecords
  BY <1>4 DEF CallRecords, ActivePcs
<1>7. calls' = [calls EXCEPT ![c] = call]
  BY <1>2
<1> HIDE DEF call
<1>8. call.receipt = 0
  BY <1>4, <1>5 DEF GoodCall
<1>9. /\ runs' \in [DOMAIN runs -> Nat]
      /\ runs'[Slot(c)] = runs[Slot(c)] + 1
      /\ \A slot \in DOMAIN runs \ {Slot(c)} : runs'[slot] = runs[slot]
      /\ executed' = executed \cup {calls[c].wal}
      /\ UNCHANGED overtaken
  <2>1. {c} \in SUBSET DOMAIN calls
    BY <1>4
  <2>2. {calls[d].wal : d \in {c}} = {calls[c].wal}
    OBVIOUS
  <2> QED
    BY <1>1, <2>1, <2>2, LandAdds
<1>10. LedgerKeeps
  BY <1>1, TypeInvLedger, LedgerStays
<1>11. RecordStep(c, call)
  BY <1>4, <1>5, <1>8, <1>9, <1>10 DEF RecordStep
<1>12. CallStep(c, call) /\ call.answer \notin Settled /\ call.pc \in RecordedPcs
  BY <1>1, <1>2, <1>3, <1>5, <1>6, <1>7, <1>8, <1>9, <1>11, WorkGoesOn
<1> QED
  BY <1>1, <1>3, <1>4, <1>5, <1>9, <1>12 DEF Works

\* The outcome is recorded, or the call falls back.
LEMMA AuditOutcomeWorks ==
    ASSUME TypeInv, NEW c, AuditOutcome(c)
    PROVE  Works(c)
<1>1. /\ At(c, "audit") /\ UNCHANGED <<leases, up, rows, historyVars>>
      /\ UNCHANGED <<runs, executed, overtaken>>
  BY DEF AuditOutcome, storeVars, historyVars
<1>2. "audit" \in WorkingPcs /\ "audit" # "execute" /\ {"settle", "audit"} \subseteq RecordedPcs
  BY DEF WorkingPcs, RecordedPcs
<1>3. /\ c \in DOMAIN calls /\ GoodCall(calls[c]) /\ calls[c].pc = "audit"
      /\ calls[c] \in CallRecords
  BY <1>1, <1>2, IdlePcs, AtIsActive
<1>4. PICK entry \in Entries : entry = Outcome(Id(c), calls[c].wal, calls[c].result)
  <2>1. calls[c].wal \in Nat \ {0} /\ calls[c].result \in OutcomeKinds
    BY <1>2, <1>3 DEF GoodCall, CallRecords
  <2> QED
    BY <1>3, <2>1, CallNamesInput, OutcomeIsEntry
<1>5. LedgerOK
  BY TypeInvLedger
<1>6. ASSUME AppendFails(Outcome(Id(c), calls[c].wal, calls[c].result)),
             GoTo(c, "fallback")
      PROVE  Works(c)
  <2>1. AppendFails(entry)
    BY <1>4, <1>6 DEF AppendFails, AppendUnacknowledged, AppendTorn, Accepts, Linkable
  <2>2. LedgerKeeps
    BY <1>5, <2>1, FailedAppendKeeps
  <2> QED
    BY <1>1, <1>6, <2>2, FallsBack
<1>7. ASSUME Appended(Outcome(Id(c), calls[c].wal, calls[c].result)),
             calls' = [calls EXCEPT ![c].pc = "settle", ![c].receipt = NextSequence]
      PROVE  Works(c)
  <2> DEFINE next == NextSequence
             call == [calls[c] EXCEPT !.pc = "settle", !.receipt = next]
  <2>1. next \in Nat \ {0} /\ next \in Records
    BY <1>5, <1>7 DEF Appended, Accepts, NextSequence, LedgerOK
  <2>2. calls' = [calls EXCEPT ![c] = call]
    BY <1>7
  <2> HIDE DEF next
  <2>3. /\ call.pc = "settle" /\ call.receipt = next
        /\ call.request = calls[c].request /\ call.proc = calls[c].proc
        /\ call.wal = calls[c].wal /\ call.answer = calls[c].answer
        /\ call.resumed = calls[c].resumed /\ call.checkpoint = calls[c].checkpoint
        /\ call.from = calls[c].from /\ call.result = calls[c].result
    BY <1>3 DEF CallRecords
  <2>4. call \in CallRecords
    BY <1>3, <2>1 DEF CallRecords, ActivePcs
  <2> HIDE DEF call
  <2>5. call.result \in OutcomeKinds
    BY <1>2, <1>3, <2>3 DEF GoodCall
  <2>6. Appended(Outcome(call.request.id, call.wal, call.result))
    BY <1>7, <2>3 DEF Id
  <2>7. RecordStep(c, call)
    BY <1>1, <1>3, <2>3, <2>6 DEF RecordStep, next
  <2>8. CallStep(c, call) /\ call.answer \notin Settled /\ call.pc \in RecordedPcs
    BY <1>1, <1>2, <2>1, <2>2, <2>3, <2>4, <2>5, <2>7, RunsCounted, WorkGoesOn
  <2> QED
    BY <1>1, <1>2, <1>3, <2>3, <2>8 DEF Works
<1> QED
  BY <1>6, <1>7 DEF AuditOutcome

\* A call at work that ends keeps nothing but its authorization.
LEMMA WorkEnds ==
    ASSUME TypeInv, NEW c, NEW from \in WorkingPcs, At(c, from),
           NEW answer \in Answers, Answer(c, answer),
           LedgerKeeps, UNCHANGED <<up, runs, executed, overtaken>>
    PROVE  LET call == Done(calls[c], answer)
           IN  /\ CallStep(c, call) /\ call.pc = "done"
               /\ call.answer = answer /\ call.wal = calls[c].wal
<1> DEFINE call == Done(calls[c], answer)
<1>1. /\ c \in DOMAIN calls /\ c \in Calls /\ GoodCall(calls[c])
      /\ calls[c].pc = from /\ from # "done"
  <2>1. from # "done"
    BY DEF WorkingPcs
  <2> QED
    BY <2>1, IdlePcs, AtIsActive
<1>2. calls[c].wal # 0
  BY <1>1 DEF GoodCall
<1>3. Moves(c, call) /\ LeaseStep(c, call)
  BY <1>1, AnswerMoves
<1>4. /\ GoodCall(call) /\ call.pc = "done" /\ call.answer = answer
      /\ call.request = calls[c].request /\ call.wal = calls[c].wal
      /\ call.receipt = 0
  BY <1>1, <1>2, DoneIsGood
<1> HIDE DEF call
<1>5. RecordStep(c, call)
  BY <1>1, <1>4 DEF RecordStep
<1>6. CallStep(c, call)
  BY <1>1, <1>3, <1>4, <1>5, RunsCounted DEF CallStep
<1> QED
  BY <1>4, <1>6 DEF call

\* What a call links on its row is the receipt it holds, if any.
LEMMA OutcomeLinkIsAudit ==
    ASSUME TypeInv, NEW c \in DOMAIN calls
    PROVE  OutcomeLink(c) \in Audits
<1>1. calls[c].receipt # 0 => calls[c].receipt \in Records
  BY DEF TypeInv, CallsGood, GoodCall
<1> QED
  BY <1>1 DEF OutcomeLink, Audits, AuditLinks, AuditLink

\* The outcome is stored and told.
LEMMA SwapSettles ==
    ASSUME TypeInv, NEW c, NEW from \in {"settle", "fallback"}, At(c, from),
           NEW kind \in OutcomeKinds, kind \in {calls[c].result, "outcome_unknown"},
           NEW now \in Readings,
           Transition(Id(c), Plain("pending"), Plain(kind), OutcomeLink(c), now),
           Answer(c, kind), UNCHANGED <<ledgerVars, up, historyVars>>
    PROVE  Settles(c)
<1> DEFINE call == Done(calls[c], kind)
<1>1. from \in WorkingPcs
  BY DEF WorkingPcs
<1>2. c \in DOMAIN calls /\ calls[c].pc = from
  BY <1>1, IdlePcs, AtIsActive
<1>3. LedgerKeeps /\ UNCHANGED <<up, runs, executed, overtaken, acked>>
  BY TypeInvLedger, LedgerStays DEF historyVars, ledgerVars
<1>4. /\ CallStep(c, call) /\ call.pc = "done"
      /\ call.answer = kind /\ call.wal = calls[c].wal
  BY <1>1, <1>3, ErrorsAreAnswers, WorkEnds
<1> HIDE DEF call
<1>5. PICK id, before, after, audit :
         /\ Transition(id, before, after, audit, now)
         /\ id = Id(c) /\ before = Plain("pending") /\ after = Plain(kind)
         /\ audit = OutcomeLink(c)
  BY DEF Transition
<1>6. after \in InvocationStates
  BY <1>5, PlainIsState DEF OutcomeKinds, PlainKinds
<1>7. audit \in Audits
  BY <1>2, <1>5, OutcomeLinkIsAudit
<1>8. Swaps(id, before, after, audit)
  BY <1>5, <1>6, <1>7, TransitionSwaps DEF TypeInv, InvocationTypeOK
<1>9. Swaps(Id(c), Plain("pending"), Plain(call.answer), OutcomeLink(c))
  BY <1>4, <1>5, <1>8 DEF Swaps
<1> QED
  BY <1>2, <1>3, <1>4, <1>9 DEF Settles

\* The outcome is stored, or the call falls back.
LEMMA SettleSteps ==
    ASSUME TypeInv, NEW c, Settle(c)
    PROVE  Works(c) \/ Settles(c)
<1>1. At(c, "settle") /\ UNCHANGED <<ledgerVars, up, historyVars>>
  BY DEF Settle
<1>2. "settle" \in WorkingPcs /\ "settle" \in RecordedPcs
  BY DEF WorkingPcs, RecordedPcs
<1>3. c \in DOMAIN calls /\ calls[c].result \in OutcomeKinds
  BY <1>1, <1>2, IdlePcs, AtIsActive DEF GoodCall
<1>4. ASSUME NEW now \in Readings,
             Transition(Id(c), Plain("pending"), Plain(calls[c].result),
                        OutcomeLink(c), now),
             Answer(c, calls[c].result)
      PROVE  Settles(c)
  <2>1. PICK kind \in OutcomeKinds :
           /\ kind = calls[c].result
           /\ Transition(Id(c), Plain("pending"), Plain(kind), OutcomeLink(c), now)
           /\ Answer(c, kind)
    BY <1>3, <1>4 DEF Transition, Answer
  <2> QED
    BY <1>1, <1>4, <2>1, SwapSettles
<1>5. ASSUME GoTo(c, "fallback"), UNCHANGED <<storeVars, leases>>
      PROVE  Works(c)
  <2>1. LedgerKeeps
    BY <1>1, TypeInvLedger, LedgerStays
  <2>2. UNCHANGED rows
    BY <1>5 DEF storeVars
  <2> QED
    BY <1>1, <1>5, <2>1, <2>2, FallsBack
<1> QED
  BY <1>4, <1>5 DEF Settle, TransitionRefused

\* The outcome is stored as unknown, or the call ends as it is.
LEMMA FallbackSteps ==
    ASSUME TypeInv, NEW c, Fallback(c)
    PROVE  Works(c) \/ Settles(c)
<1>1. /\ At(c, "fallback") /\ UNCHANGED <<ledgerVars, up, historyVars>>
      /\ Answer(c, "outcome_unknown")
  BY DEF Fallback
<1>2. /\ "fallback" \in WorkingPcs /\ "fallback" # "execute"
      /\ "outcome_unknown" \in OutcomeKinds
      /\ "outcome_unknown" \in Answers \ Settled
  BY ErrorsAreAnswers DEF WorkingPcs, OutcomeKinds
<1>3. CASE UNCHANGED storeVars
  <2>1. c \in DOMAIN calls /\ calls[c].pc = "fallback"
    BY <1>1, <1>2, IdlePcs, AtIsActive
  <2>2. /\ LedgerKeeps
        /\ UNCHANGED <<up, runs, executed, overtaken>> /\ UNCHANGED rows
    BY <1>1, <1>3, TypeInvLedger, LedgerStays DEF historyVars, storeVars
  <2>3. PICK call : /\ CallStep(c, call) /\ call.pc = "done"
                    /\ call.answer = "outcome_unknown" /\ call.wal = calls[c].wal
    BY <1>1, <1>2, <2>2, WorkEnds
  <2> QED
    BY <1>2, <2>1, <2>2, <2>3 DEF Works
<1>4. ASSUME NEW now \in Readings,
             Transition(Id(c), Plain("pending"), Plain("outcome_unknown"),
                        OutcomeLink(c), now)
      PROVE  Settles(c)
  BY <1>1, <1>2, <1>4, SwapSettles
<1> QED
  BY <1>1, <1>3, <1>4 DEF Fallback, TransitionRefused

\* A dropped call ends where it stands; its effect may or may not have landed.
LEMMA CancelSteps ==
    ASSUME TypeInv, NEW c \in DOMAIN calls, Cancel(c)
    PROVE  StepsAside(c) \/ Works(c)
<1> DEFINE call == Done(calls[c], "cancelled")
<1>1. /\ c \in Calls /\ GoodCall(calls[c]) /\ calls[c].pc # "done"
      /\ calls[c].pc \in ActivePcs /\ calls[c].proc \in up
  BY DEF Cancel, Active, TypeInv, InvocationTypeOK, CallsGood, GoodCall, CallRecords
<1>2. /\ GoodCall(call) /\ call.pc = "done" /\ call.answer = "cancelled"
      /\ call.request = calls[c].request /\ call.wal = calls[c].wal
      /\ call.receipt = 0 /\ ~HoldsLease(call)
  BY <1>1, ErrorsAreAnswers, DoneIsGood
<1>3. /\ UNCHANGED <<rows, ledgerVars, up>>
      /\ calls' = [d \in DOMAIN calls |-> IF d \in {c} THEN Done(calls[d], "cancelled")
                                                     ELSE calls[d]]
      /\ \E landing \in SUBSET {d \in {c} : calls[d].pc = "execute"} : Land(landing)
      /\ leases' = IF HoldsLease(calls[c])
                     THEN [leases EXCEPT ![LeaseOf(c)] = "pending"] ELSE leases
  BY DEF Cancel, DropCalls, storeVars
<1> HIDE DEF call
<1>4. Moves(c, call)
  BY <1>3 DEF Moves, call
<1>5. LeaseStep(c, call)
  BY <1>2, <1>3 DEF LeaseStep
<1>6. LedgerKeeps
  BY <1>3, TypeInvLedger, LedgerStays
<1>7. PICK landing \in SUBSET {d \in {c} : calls[d].pc = "execute"} : Land(landing)
  BY <1>3
<1>8. /\ landing \in SUBSET DOMAIN calls /\ UNCHANGED overtaken
      /\ runs' \in [DOMAIN runs -> Nat]
  BY <1>7, LandAdds
<1>9. ASSUME landing = {}
      PROVE  UNCHANGED <<runs, executed>>
  <2>1. /\ \A slot \in DOMAIN runs : runs'[slot] = runs[slot]
        /\ executed' = executed \cup {calls[d].wal : d \in landing}
    BY <1>7, <1>8, <1>9, LandAdds
  <2> QED
    BY <1>8, <1>9, <2>1, RunsCounted
<1>10. CASE calls[c].pc \notin WorkingPcs
  <2>1. landing = {}
    BY <1>10, <1>7 DEF WorkingPcs
  <2>2. UNCHANGED <<runs, executed>>
    BY <1>9, <2>1
  <2>3. RowsAside(call)
    BY <1>3, <2>2, StillRows DEF RowsAside
  <2>4. call.pc \notin WorkingPcs /\ call.pc # "begin" /\ call.answer \notin Settled
    BY <1>2, ErrorsAreAnswers DEF WorkingPcs
  <2> QED
    BY <1>1, <1>2, <1>3, <1>4, <1>5, <1>6, <1>8, <1>10, <2>2, <2>3, <2>4 DEF StepsAside
<1>11. CASE calls[c].pc \in WorkingPcs /\ landing = {}
  <2>1. UNCHANGED <<runs, executed>>
    BY <1>9, <1>11
  <2>2. RecordStep(c, call)
    BY <1>2, <1>6, <2>1 DEF RecordStep
  <2>3. CallStep(c, call)
    BY <1>1, <1>2, <1>3, <1>4, <1>5, <1>8, <2>2 DEF CallStep
  <2> QED
    BY <1>2, <1>3, <1>11, <2>1, <2>3, ErrorsAreAnswers DEF Works
<1>12. CASE calls[c].pc \in WorkingPcs /\ landing # {}
  <2>1. landing = {c} /\ calls[c].pc = "execute"
    BY <1>12, <1>7
  <2>2. /\ runs'[Slot(c)] = runs[Slot(c)] + 1
        /\ \A slot \in DOMAIN runs \ {Slot(c)} : runs'[slot] = runs[slot]
        /\ executed' = executed \cup {calls[d].wal : d \in {c}}
    BY <1>7, <1>8, <2>1, LandAdds
  <2>3. RecordStep(c, call)
    BY <1>2, <1>6, <2>1, <2>2 DEF RecordStep
  <2>4. CallStep(c, call)
    BY <1>1, <1>2, <1>3, <1>4, <1>5, <1>8, <2>3 DEF CallStep
  <2> QED
    BY <1>2, <1>3, <1>12, <2>1, <2>2, <2>4, ErrorsAreAnswers DEF Works
<1> QED
  BY <1>10, <1>11, <1>12

-----------------------------------------------------------------------------
(* Every step is one of these.                                              *)

\* Every step of the system is of one of these kinds.
LEMMA EveryStep ==
    ASSUME TypeInv, Next
    PROVE  \/ \E c : StepsAside(c) \/ Begins(c) \/ Works(c) \/ Settles(c)
           \/ \E p \in Procs : Crash(p) \/ Open(p)
           \/ OperatorAbandons
           \/ TimePasses
<1>1. ASSUME NEW c \in Calls, NEW p \in Procs, NEW request \in Requests,
             \/ StartInvoke(c, p, request)
             \/ \E checkpoint \in Checkpoints : StartResume(c, p, request, checkpoint)
      PROVE  StepsAside(c)
  BY <1>1, StartInvokeAside, StartResumeAside
<1>2. ASSUME NEW c \in DOMAIN calls, Advance(c)
      PROVE  StepsAside(c) \/ Begins(c) \/ Works(c) \/ Settles(c)
  <2>1. CASE RestoreRead(c) \/ Republish(c) \/ TakeLease(c)
    BY <2>1, RestoreReadAside, RepublishAside, TakeLeaseAside
  <2>2. CASE ValidateRefuses(c) \/ ValidateSuspends(c) \/ ValidateAllows(c)
    BY <2>2, ValidateAside, ValidateSuspendsAside
  <2>3. CASE SuspendReserve(c) \/ SuspendSwap(c) \/ Publish(c)
    BY <2>3, SuspendReserveAside, SuspendSwapAside, PublishAside
  <2>4. CASE Reserve(c) \/ Authorize(c) \/ Begin(c)
    BY <2>4, ReserveAside, AuthorizeAside, BeginSteps
  <2>5. CASE Execute(c) \/ AuditOutcome(c) \/ Settle(c) \/ Fallback(c)
    BY <2>5, ExecuteWorks, AuditOutcomeWorks, SettleSteps, FallbackSteps
  <2> QED
    BY <1>2, <2>1, <2>2, <2>3, <2>4, <2>5 DEF Advance
<1>3. ASSUME NEW c \in DOMAIN calls, Cancel(c)
      PROVE  StepsAside(c) \/ Works(c)
  BY <1>3, CancelSteps
<1> QED
  BY <1>1, <1>2, <1>3 DEF Next

\* A reservation for a call is one the store permits.
LEMMA ReservationIsStoreStep ==
    ASSUME TypeInv, NEW c \in DOMAIN calls, NEW now \in Readings, NEW until \in Deadlines,
           \/ ReservesFresh(c, now, until) \/ FindsExisting(c, now, until)
           \/ IsRefused(c, now, until)
    PROVE  StoreNext
<1>1. PICK input \in ReservationInputs : input = calls[c].request
  BY CallNamesInput
<1>2. ReserveOrGet(input, now, until)
  BY <1>1 DEF ReserveOrGet, ReservesFresh, FindsExisting, IsRefused
<1> QED
  BY <1>2 DEF StoreNext

\* So is a swap for a call.
LEMMA SwapIsStoreStep ==
    ASSUME TypeInv, NEW c \in DOMAIN calls, NEW now \in Readings,
           NEW from \in InvocationStates, NEW to \in InvocationStates,
           NEW audit \in Audits,
           Transition(Id(c), from, to, audit, now)
    PROVE  StoreNext
<1>1. PICK id \in Ids : id = Id(c)
  BY CallNamesInput
<1>2. Transition(id, from, to, audit, now)
  BY <1>1 DEF Transition
<1> QED
  BY <1>2 DEF StoreNext

\* Whatever a call does to the store is one step of the store.
LEMMA AdvanceIsStoreStep ==
    ASSUME TypeInv, NEW c \in DOMAIN calls, Advance(c)
    PROVE  [StoreNext]_storeVars
<1> USE DEF storeVars
<1>1. CASE \/ RestoreRead(c) \/ Republish(c) \/ TakeLease(c)
           \/ ValidateRefuses(c) \/ ValidateSuspends(c) \/ ValidateAllows(c)
           \/ Publish(c) \/ Authorize(c) \/ Execute(c) \/ AuditOutcome(c)
  BY <1>1 DEF RestoreRead, Republish, TakeLease, ValidateRefuses, ValidateSuspends,
              ValidateAllows, Publish, Authorize, Execute, AuditOutcome
<1>2. CASE Reserve(c) \/ SuspendReserve(c)
  <2>1. CASE StoreUnavailable(c)
    BY <2>1 DEF StoreUnavailable
  <2>2. CASE \E now \in Readings, until \in Deadlines :
                \/ ReservesFresh(c, now, until) \/ FindsExisting(c, now, until)
                \/ IsRefused(c, now, until)
    BY <2>2, ReservationIsStoreStep
  <2> QED
    BY <1>2, <2>1, <2>2 DEF Reserve, SuspendReserve
<1>3. CASE SuspendSwap(c)
  <2>1. CASE UNCHANGED storeVars
    BY <2>1
  <2>2. ASSUME NEW now \in Readings,
               Transition(Id(c), Plain("reserved"), SuspendedAt(calls[c].checkpoint),
                          NoAudit, now)
        PROVE  StoreNext
    <3>1. calls[c].checkpoint \in Checkpoints
      BY <1>3, IdlePcs, AtIsActive DEF SuspendSwap, GoodCall, SuspendingPcs
    <3>2. PICK from \in InvocationStates, to \in InvocationStates, audit \in Audits :
             /\ from = Plain("reserved") /\ to = SuspendedAt(calls[c].checkpoint)
             /\ audit = NoAudit
      BY <3>1, PlainIsState DEF PlainKinds, SuspendedAt, InvocationStates, Audits
    <3>3. Transition(Id(c), from, to, audit, now)
      BY <2>2, <3>2 DEF Transition
    <3> QED
      BY <2>2, <3>3, SwapIsStoreStep
  <2> QED
    BY <1>3, <2>1, <2>2 DEF SuspendSwap, TransitionRefused
<1>4. CASE Begin(c)
  <2>1. CASE UNCHANGED storeVars
    BY <2>1
  <2>2. ASSUME NEW now \in Readings,
               Transition(Id(c), calls[c].from, Plain("pending"),
                          AuditLink("authorization", calls[c].wal), now)
        PROVE  StoreNext
    <3>1. calls[c].from \in InvocationStates /\ calls[c].wal \in Records
      BY <1>4, IdlePcs, AtIsActive DEF Begin, GoodCall, CallRecords
    <3>2. PICK from \in InvocationStates, to \in InvocationStates, audit \in Audits :
             /\ from = calls[c].from /\ to = Plain("pending")
             /\ audit = AuditLink("authorization", calls[c].wal)
      BY <3>1, PlainIsState DEF PlainKinds, Audits, AuditLinks, AuditLink
    <3>3. Transition(Id(c), from, to, audit, now)
      BY <2>2, <3>2 DEF Transition
    <3> QED
      BY <2>2, <3>3, SwapIsStoreStep
  <2> QED
    BY <1>4, <2>1, <2>2 DEF Begin, TransitionRefused
<1>5. CASE Settle(c) \/ Fallback(c)
  <2>1. CASE UNCHANGED storeVars
    BY <2>1
  <2>2. ASSUME NEW now \in Readings,
               NEW kind \in {calls[c].result, "outcome_unknown"},
               Transition(Id(c), Plain("pending"), Plain(kind), OutcomeLink(c), now)
        PROVE  StoreNext
    <3>1. calls[c].result \in OutcomeKinds
      BY <1>5, IdlePcs, AtIsActive DEF Settle, Fallback, GoodCall, RecordedPcs, WorkingPcs
    <3>2. kind \in PlainKinds
      BY <2>2, <3>1 DEF OutcomeKinds, PlainKinds
    <3>3. PICK from \in InvocationStates, to \in InvocationStates, audit \in Audits :
             /\ from = Plain("pending") /\ to = Plain(kind)
             /\ audit = OutcomeLink(c)
      BY <3>2, PlainIsState, OutcomeLinkIsAudit DEF PlainKinds
    <3>4. Transition(Id(c), from, to, audit, now)
      BY <2>2, <3>3 DEF Transition
    <3> QED
      BY <2>2, <3>4, SwapIsStoreStep
  <2> QED
    BY <1>5, <2>1, <2>2 DEF Settle, Fallback, TransitionRefused
<1> QED
  BY <1>1, <1>2, <1>3, <1>4, <1>5 DEF Advance

\* So is whatever happens to them.
LEMMA NextIsStoreStep ==
    ASSUME TypeInv, [Next]_vars
    PROVE  [StoreNext]_storeVars
<1>1. ASSUME NEW c \in Calls, NEW p \in Procs, NEW request \in Requests,
             \/ StartInvoke(c, p, request)
             \/ \E checkpoint \in Checkpoints : StartResume(c, p, request, checkpoint)
      PROVE  [StoreNext]_storeVars
  BY <1>1 DEF StartInvoke, StartResume
<1>2. ASSUME NEW c \in DOMAIN calls, Cancel(c)
      PROVE  [StoreNext]_storeVars
  BY <1>2 DEF Cancel
<1>3. ASSUME NEW p \in Procs, Crash(p)
      PROVE  [StoreNext]_storeVars
  BY <1>3 DEF Crash, StoreNext
<1>4. ASSUME NEW p \in Procs, Open(p)
      PROVE  [StoreNext]_storeVars
  BY <1>4 DEF Open, StoreNext
<1>5. CASE OperatorAbandons
  <2>1. PICK request \in Requests, now \in Readings :
           Abandon(request.id, request.context, now)
    BY <1>5 DEF OperatorAbandons
  <2>2. PICK id \in Ids, context \in Contexts :
           id = request.id /\ context = request.context
    BY RequestIsInput
  <2>3. Abandon(id, context, now)
    BY <2>1, <2>2
  <2> QED
    BY <2>3 DEF StoreNext
<1>6. CASE TimePasses
  BY <1>6 DEF TimePasses, StoreNext
<1>7. CASE UNCHANGED vars
  BY <1>7 DEF vars
<1> QED
  BY <1>1, <1>2, <1>3, <1>4, <1>5, <1>6, <1>7, AdvanceIsStoreStep DEF Next

-----------------------------------------------------------------------------
(* The types, and the leases.                                               *)

\* What a step of a call records, it adds to what was synced.
LEMMA RecordKeeps ==
    ASSUME TypeInv, NEW c, NEW call, CallStep(c, call)
    PROVE  LedgerKeeps
<1>1. GoodCall(call) /\ call.request \in Requests /\ call.request.id \in Ids
  BY RequestIsInput DEF CallStep, GoodCall, CallRecords
<1>2. LedgerOK
  BY TypeInvLedger
<1>3. CASE Appended(Authorization(call.request.id))
  <2>1. PICK entry \in Entries : entry = Authorization(call.request.id)
    BY <1>1, AuthorizationIsEntry
  <2>2. Appended(entry)
    BY <1>3, <2>1 DEF Appended, Accepts, Linkable
  <2> QED
    BY <1>2, <2>2, AppendedKeeps
<1>4. CASE /\ call.pc = "settle"
           /\ Appended(Outcome(call.request.id, call.wal, call.result))
  <2>1. call.wal \in Nat \ {0} /\ call.result \in OutcomeKinds
    BY <1>1, <1>4 DEF GoodCall, CallRecords, WorkingPcs, RecordedPcs
  <2>2. PICK entry \in Entries : entry = Outcome(call.request.id, call.wal, call.result)
    BY <1>1, <2>1, OutcomeIsEntry
  <2>3. Appended(entry)
    BY <1>4, <2>2 DEF Appended, Accepts, Linkable
  <2> QED
    BY <1>2, <2>3, AppendedKeeps
<1> QED
  BY <1>3, <1>4 DEF CallStep, RecordStep

\* A lease that is named is one there is, before and after.
LEMMA LeasesTyped ==
    ASSUME TypeInv, NEW c, NEW call, GoodCall(call), LeaseStep(c, call)
    PROVE  leases' \in [Procs \X Checkpoints -> {"absent", "pending", "in_flight"}]
<1>1. leases \in [Procs \X Checkpoints -> {"absent", "pending", "in_flight"}]
  BY DEF TypeInv, InvocationTypeOK
<1>2. \A lease, state \in {"absent", "pending", "in_flight"} :
         [leases EXCEPT ![lease] = state] \in
            [Procs \X Checkpoints -> {"absent", "pending", "in_flight"}]
  BY <1>1
<1> QED
  BY <1>1, <1>2 DEF LeaseStep

\* A step of a call leaves everything well-typed.
LEMMA CallStepTypes ==
    ASSUME TypeInv, TypeOK', NEW c, NEW call, CallStep(c, call)
    PROVE  TypeInv'
<1>1. LedgerKeeps
  BY RecordKeeps
<1>2. /\ c \in Calls /\ GoodCall(call) /\ call \in CallRecords
      /\ call.pc # "done" => call.proc \in up
      /\ DOMAIN calls' = DOMAIN calls \cup {c} /\ calls'[c] = call
      /\ \A d \in DOMAIN calls \ {c} : calls'[d] = calls[d]
      /\ UNCHANGED <<up, overtaken>> /\ runs' \in [DOMAIN runs -> Nat]
  BY DEF CallStep, Moves, GoodCall
<1>3. leases' \in [Procs \X Checkpoints -> {"absent", "pending", "in_flight"}]
  BY <1>2, LeasesTyped DEF CallStep
<1>4. executed' \subseteq Nat
  <2>1. executed \subseteq Nat
    BY DEF TypeInv, InvocationTypeOK
  <2>2. c \in DOMAIN calls => calls[c].wal \in Nat
    BY CallNamesInput
  <2> QED
    BY <2>1, <2>2 DEF CallStep, RecordStep
<1>5. runs' \in [{SlotOf(request) : request \in Requests} -> Nat]
  <2>1. DOMAIN runs = {SlotOf(request) : request \in Requests}
    BY DEF TypeInv, InvocationTypeOK
  <2> QED
    BY <1>2, <2>1
<1>6. InvocationTypeOK'
  <2>1. \A d \in DOMAIN calls' : calls'[d] \in CallRecords
    BY <1>2 DEF TypeInv, InvocationTypeOK
  <2>2. /\ trail' \in Seq(Entries) /\ torn' \in BOOLEAN /\ acked' \in 0..Len(trail')
    BY <1>1 DEF LedgerKeeps
  <2>3. up' \subseteq Procs /\ overtaken' \subseteq Scopes /\ DOMAIN calls' \subseteq Calls
    BY <1>2 DEF TypeInv, InvocationTypeOK
  <2> QED
    BY <1>3, <1>4, <1>5, <2>1, <2>2, <2>3 DEF InvocationTypeOK
<1>7. CallsGood'
  <2>1. \A d \in DOMAIN calls' : GoodCall(calls'[d])
    BY <1>2 DEF TypeInv, CallsGood
  <2>2. \A d \in DOMAIN calls' : calls'[d].pc # "done" => calls'[d].proc \in up'
    BY <1>2 DEF TypeInv, CallsGood, Active
  <2>3. IsFiniteSet(DOMAIN calls')
    BY <1>2, FS_AddElement DEF TypeInv, CallsGood
  <2> QED
    BY <2>1, <2>2, <2>3 DEF CallsGood, Active
<1> QED
  BY <1>6, <1>7 DEF TypeInv

\* A lease is taken when it is free and given up by its holder.
LEMMA CallStepLeases ==
    ASSUME TypeInv, LeasesHeld, NEW c, NEW call, CallStep(c, call)
    PROVE  LeasesHeld'
<1> DEFINE lease == <<call.proc, call.checkpoint>>
           held == c \in DOMAIN calls /\ HoldsLease(calls[c])
<1>1. /\ DOMAIN calls' = DOMAIN calls \cup {c} /\ calls'[c] = call
      /\ \A d \in DOMAIN calls \ {c} : calls'[d] = calls[d]
      /\ GoodCall(call) /\ LeaseStep(c, call)
  BY DEF CallStep, Moves
<1>2. leases \in [Procs \X Checkpoints -> {"absent", "pending", "in_flight"}]
  BY DEF TypeInv, InvocationTypeOK
<1>3. \A d \in DOMAIN calls : HoldsLease(calls[d]) => LeaseOf(d) \in Procs \X Checkpoints
  BY DEF TypeInv, CallsGood, GoodCall, CallRecords, HoldsLease, LeaseOf
<1>4. HoldsLease(call) => lease \in Procs \X Checkpoints
  BY <1>1 DEF GoodCall, CallRecords, HoldsLease
<1>5. /\ \A d \in DOMAIN calls \ {c} :
            LeaseOf(d)' = LeaseOf(d) /\ HoldsLease(calls'[d]) = HoldsLease(calls[d])
      /\ LeaseOf(c)' = lease
  BY <1>1 DEF LeaseOf
<1>6. CASE /\ UNCHANGED leases
           /\ HoldsLease(call) <=> held
           /\ held => lease = LeaseOf(c)
  <2>1. \A d \in DOMAIN calls' :
           HoldsLease(calls'[d]) =>
              d \in DOMAIN calls /\ HoldsLease(calls[d]) /\ LeaseOf(d)' = LeaseOf(d)
    BY <1>1, <1>5, <1>6
  <2>2. \A d \in DOMAIN calls :
           HoldsLease(calls[d]) =>
              d \in DOMAIN calls' /\ HoldsLease(calls'[d]) /\ LeaseOf(d)' = LeaseOf(d)
    BY <1>1, <1>5, <1>6
  <2>3. /\ \A d \in DOMAIN calls' :
              HoldsLease(calls'[d]) => leases'[LeaseOf(d)'] = "in_flight"
        /\ \A d, e \in DOMAIN calls' :
              HoldsLease(calls'[d]) /\ HoldsLease(calls'[e]) /\ LeaseOf(d)' = LeaseOf(e)'
              => d = e
    BY <1>6, <2>1 DEF LeasesHeld
  <2>4. \A p \in Procs, checkpoint \in Checkpoints :
           leases'[<<p, checkpoint>>] = "in_flight" =>
              \E d \in DOMAIN calls' :
                 HoldsLease(calls'[d]) /\ LeaseOf(d)' = <<p, checkpoint>>
    BY <1>6, <2>2 DEF LeasesHeld
  <2> QED
    BY <2>3, <2>4 DEF LeasesHeld
<1>7. CASE /\ ~held /\ HoldsLease(call) /\ leases[lease] # "in_flight"
           /\ leases' = [leases EXCEPT ![lease] = "in_flight"]
  <2>1. \A d \in DOMAIN calls : HoldsLease(calls[d]) => LeaseOf(d) # lease
    BY <1>7 DEF LeasesHeld
  <2>2. leases'[lease] = "in_flight"
        /\ \A other \in Procs \X Checkpoints : other # lease => leases'[other] = leases[other]
    BY <1>2, <1>4, <1>7
  <2> QED
    BY <1>1, <1>3, <1>5, <1>7, <2>1, <2>2 DEF LeasesHeld
<1>8. ASSUME held, ~HoldsLease(call), NEW state \in {"absent", "pending"},
             leases' = [leases EXCEPT ![LeaseOf(c)] = state]
      PROVE  LeasesHeld'
  <2>1. \A d \in DOMAIN calls \ {c} : HoldsLease(calls[d]) => LeaseOf(d) # LeaseOf(c)
    BY <1>8 DEF LeasesHeld
  <2>2. leases'[LeaseOf(c)] = state
        /\ \A other \in Procs \X Checkpoints :
              other # LeaseOf(c) => leases'[other] = leases[other]
    BY <1>2, <1>3, <1>8
  <2> QED
    BY <1>1, <1>3, <1>5, <1>8, <2>1, <2>2 DEF LeasesHeld
<1>9. ASSUME ~held, ~HoldsLease(call), NEW free \in Procs \X Checkpoints,
             leases[free] # "in_flight", leases' = [leases EXCEPT ![free] = "pending"]
      PROVE  LeasesHeld'
  <2>1. \A d \in DOMAIN calls : HoldsLease(calls[d]) => LeaseOf(d) # free
    BY <1>9 DEF LeasesHeld
  <2>2. leases'[free] = "pending"
        /\ \A other \in Procs \X Checkpoints : other # free => leases'[other] = leases[other]
    BY <1>2, <1>9
  <2> QED
    BY <1>1, <1>3, <1>5, <1>9, <2>1, <2>2 DEF LeasesHeld
<1> QED
  BY <1>1, <1>6, <1>7, <1>8, <1>9 DEF LeaseStep

-----------------------------------------------------------------------------
(* The environment.                                                         *)

\* A step in which no call takes part.
CallsStand ==
    /\ UNCHANGED <<ledgerVars, leases, calls, runs, executed>>
    /\ up \subseteq up' /\ up' \subseteq Procs
    /\ overtaken \subseteq overtaken' /\ overtaken' \subseteq Scopes

\* Restarts, operators and time leave the calls where they stand.
LEMMA EnvironmentStands ==
    ASSUME TypeInv,
           \/ \E p \in Procs : Open(p)
           \/ OperatorAbandons \/ TimePasses \/ UNCHANGED vars
    PROVE  CallsStand
<1>1. up \subseteq Procs /\ overtaken \subseteq Scopes
  BY DEF TypeInv, InvocationTypeOK
<1>2. ASSUME NEW p \in Procs, Open(p) PROVE CallsStand
  BY <1>1, <1>2 DEF Open, CallsStand, historyVars
<1>3. CASE OperatorAbandons
  <2>1. overtaken \subseteq overtaken' /\ overtaken' \subseteq Scopes
    <3>1. PICK request \in Requests :
             overtaken' = overtaken \cup
                {Slot(c)[1] : c \in {d \in Working : Id(d) = request.id}}
      BY <1>3 DEF OperatorAbandons
    <3>2. \A c \in Working : Slot(c)[1] \in Scopes
      BY CallNamesInput DEF Working
    <3> QED
      BY <1>1, <3>1, <3>2
  <2> QED
    BY <1>1, <1>3, <2>1 DEF OperatorAbandons, CallsStand, serviceVars
<1>4. CASE TimePasses \/ UNCHANGED vars
  BY <1>1, <1>4 DEF TimePasses, CallsStand, vars, serviceVars, historyVars
<1> QED
  BY <1>2, <1>3, <1>4

\* Calls that stand stay well-typed.
LEMMA StandingTypes ==
    ASSUME TypeInv, TypeOK', CallsStand
    PROVE  TypeInv'
<1>1. InvocationTypeOK'
  BY DEF TypeInv, InvocationTypeOK, CallsStand, ledgerVars
<1>2. CallsGood'
  BY DEF TypeInv, CallsGood, CallsStand, Active
<1> QED
  BY <1>1, <1>2 DEF TypeInv

\* Calls that stand keep their leases.
LEMMA StandingLeases ==
    ASSUME LeasesHeld, CallsStand
    PROVE  LeasesHeld'
  BY DEF LeasesHeld, CallsStand, LeaseOf

\* The calls of the process that is gone, which had not ended.
Dropped(p) == {c \in Active : calls[c].proc = p}

\* A crash ends the calls of the process; their effects may have landed.
LEMMA CrashDrops ==
    ASSUME TypeInv, NEW p \in Procs, Crash(p)
    PROVE  /\ p \in up /\ up' = up \ {p}
           /\ DOMAIN calls' = DOMAIN calls
           /\ \A c \in DOMAIN calls :
                 /\ GoodCall(calls'[c])
                 /\ calls'[c].request = calls[c].request
                 /\ calls'[c].wal = calls[c].wal
                 /\ c \in Dropped(p) => /\ calls'[c].pc = "done"
                                        /\ calls'[c].answer = "dropped"
                                        /\ calls'[c].receipt = 0
                                        /\ ~HoldsLease(calls'[c])
                 /\ c \notin Dropped(p) => calls'[c] = calls[c]
           /\ leases' = [lease \in DOMAIN leases |->
                            IF lease[1] = p THEN "absent" ELSE leases[lease]]
           /\ LedgerKeeps
           /\ IF Durable THEN UNCHANGED rows ELSE rows' = <<>>
           /\ \E landing \in SUBSET {c \in Dropped(p) : calls[c].pc = "execute"} :
                 Land(landing)
<1>1. /\ p \in up /\ up' = up \ {p}
      /\ calls' = [c \in DOMAIN calls |->
                     IF c \in Dropped(p) THEN Done(calls[c], "dropped") ELSE calls[c]]
      /\ leases' = [lease \in DOMAIN leases |->
                       IF lease[1] = p THEN "absent" ELSE leases[lease]]
      /\ IF Durable THEN UNCHANGED rows ELSE rows' = <<>>
      /\ \E landing \in SUBSET {c \in Dropped(p) : calls[c].pc = "execute"} :
            Land(landing)
  BY DEF Crash, DropCalls, Dropped, Lose, storeVars
<1>2. LedgerKeeps
  BY TypeInvLedger, LedgerStays, ForgetKeeps DEF Crash
<1>3. ASSUME NEW c \in DOMAIN calls
      PROVE  /\ GoodCall(calls'[c])
             /\ calls'[c].request = calls[c].request
             /\ calls'[c].wal = calls[c].wal
             /\ c \in Dropped(p) => /\ calls'[c].pc = "done"
                                    /\ calls'[c].answer = "dropped"
                                    /\ calls'[c].receipt = 0
                                    /\ ~HoldsLease(calls'[c])
             /\ c \notin Dropped(p) => calls'[c] = calls[c]
  <2>1. GoodCall(calls[c])
    BY DEF TypeInv, CallsGood
  <2>2. CASE c \notin Dropped(p)
    BY <1>1, <2>1, <2>2
  <2>3. CASE c \in Dropped(p)
    <3>1. calls'[c] = Done(calls[c], "dropped")
      BY <1>1, <2>3
    <3>2. LET call == Done(calls[c], "dropped")
          IN  /\ GoodCall(call) /\ call.pc = "done" /\ call.answer = "dropped"
              /\ call.request = calls[c].request /\ call.wal = calls[c].wal
              /\ call.receipt = 0 /\ ~HoldsLease(call)
      BY <2>1, ErrorsAreAnswers, DoneIsGood
    <3> QED
      BY <2>3, <3>1, <3>2
  <2> QED
    BY <2>2, <2>3
<1> QED
  BY <1>1, <1>2, <1>3

\* A crash leaves everything well-typed.
LEMMA CrashTypes ==
    ASSUME TypeInv, TypeOK', NEW p \in Procs, Crash(p)
    PROVE  TypeInv'
<1>1. /\ p \in up /\ up' = up \ {p}
      /\ DOMAIN calls' = DOMAIN calls
      /\ \A c \in DOMAIN calls :
            /\ GoodCall(calls'[c])
            /\ c \in Dropped(p) => calls'[c].pc = "done"
            /\ c \notin Dropped(p) => calls'[c] = calls[c]
      /\ leases' = [lease \in DOMAIN leases |->
                       IF lease[1] = p THEN "absent" ELSE leases[lease]]
      /\ LedgerKeeps
  BY CrashDrops
<1>2. PICK landing \in SUBSET {c \in Dropped(p) : calls[c].pc = "execute"} : Land(landing)
  BY CrashDrops
<1>3. landing \in SUBSET DOMAIN calls
  BY <1>2 DEF Dropped, Active
<1>4. /\ runs' \in [DOMAIN runs -> Nat]
      /\ executed' = executed \cup {calls[c].wal : c \in landing}
      /\ UNCHANGED overtaken
  BY <1>2, <1>3, LandAdds
<1>5. executed' \subseteq Nat
  BY <1>3, <1>4, CallNamesInput DEF TypeInv, InvocationTypeOK
<1>6. leases' \in [Procs \X Checkpoints -> {"absent", "pending", "in_flight"}]
  BY <1>1 DEF TypeInv, InvocationTypeOK
<1>7. runs' \in [{SlotOf(request) : request \in Requests} -> Nat]
  <2>1. DOMAIN runs = {SlotOf(request) : request \in Requests}
    BY DEF TypeInv, InvocationTypeOK
  <2> QED
    BY <1>4, <2>1
<1>8. InvocationTypeOK'
  <2>1. \A c \in DOMAIN calls' : calls'[c] \in CallRecords
    BY <1>1 DEF GoodCall
  <2>2. /\ trail' \in Seq(Entries) /\ torn' \in BOOLEAN /\ acked' \in 0..Len(trail')
    BY <1>1 DEF LedgerKeeps
  <2>3. up' \subseteq Procs /\ overtaken' \subseteq Scopes /\ DOMAIN calls' \subseteq Calls
    BY <1>1, <1>4 DEF TypeInv, InvocationTypeOK
  <2> QED
    BY <1>5, <1>6, <1>7, <2>1, <2>2, <2>3 DEF InvocationTypeOK
<1>9. CallsGood'
  <2>1. \A c \in DOMAIN calls' : calls'[c].pc # "done" => calls'[c].proc \in up'
    BY <1>1 DEF TypeInv, CallsGood, Active, Dropped
  <2>2. IsFiniteSet(DOMAIN calls')
    BY <1>1 DEF TypeInv, CallsGood
  <2> QED
    BY <1>1, <2>1, <2>2 DEF CallsGood, Active
<1> QED
  BY <1>8, <1>9 DEF TypeInv

\* A process that goes down takes its leases with it.
LEMMA CrashLeases ==
    ASSUME TypeInv, LeasesHeld, NEW p \in Procs, Crash(p)
    PROVE  LeasesHeld'
<1>1. /\ DOMAIN calls' = DOMAIN calls
      /\ \A c \in DOMAIN calls :
            /\ c \in Dropped(p) => ~HoldsLease(calls'[c])
            /\ c \notin Dropped(p) => calls'[c] = calls[c]
      /\ leases' = [lease \in DOMAIN leases |->
                       IF lease[1] = p THEN "absent" ELSE leases[lease]]
  BY CrashDrops
<1>2. DOMAIN leases = Procs \X Checkpoints
  BY DEF TypeInv, InvocationTypeOK
<1>3. \A c \in DOMAIN calls :
         HoldsLease(calls[c]) =>
            LeaseOf(c) \in Procs \X Checkpoints /\ calls[c].pc # "done"
  BY DEF TypeInv, CallsGood, GoodCall, CallRecords, HoldsLease, LeaseOf, ActivePcs
<1>4. \A c \in DOMAIN calls :
         HoldsLease(calls'[c]) =>
            /\ HoldsLease(calls[c]) /\ LeaseOf(c)' = LeaseOf(c)
            /\ LeaseOf(c)[1] # p
  BY <1>1, <1>3 DEF LeaseOf, Dropped, Active
<1>5. \A c \in DOMAIN calls :
         HoldsLease(calls[c]) /\ LeaseOf(c)[1] # p =>
            HoldsLease(calls'[c]) /\ LeaseOf(c)' = LeaseOf(c)
  BY <1>1 DEF LeaseOf, Dropped
<1>6. /\ \A c \in DOMAIN calls' :
            HoldsLease(calls'[c]) => leases'[LeaseOf(c)'] = "in_flight"
      /\ \A c, d \in DOMAIN calls' :
            HoldsLease(calls'[c]) /\ HoldsLease(calls'[d]) /\ LeaseOf(c)' = LeaseOf(d)'
            => c = d
  BY <1>1, <1>2, <1>3, <1>4 DEF LeasesHeld
<1>7. \A q \in Procs, checkpoint \in Checkpoints :
         leases'[<<q, checkpoint>>] = "in_flight" =>
            \E c \in DOMAIN calls' :
               HoldsLease(calls'[c]) /\ LeaseOf(c)' = <<q, checkpoint>>
  <2> SUFFICES ASSUME NEW q \in Procs, NEW checkpoint \in Checkpoints,
                      leases'[<<q, checkpoint>>] = "in_flight"
               PROVE  \E c \in DOMAIN calls' :
                         HoldsLease(calls'[c]) /\ LeaseOf(c)' = <<q, checkpoint>>
    OBVIOUS
  <2>1. q # p /\ leases[<<q, checkpoint>>] = "in_flight"
    BY <1>1, <1>2
  <2>2. PICK c \in DOMAIN calls : HoldsLease(calls[c]) /\ LeaseOf(c) = <<q, checkpoint>>
    BY <2>1 DEF LeasesHeld
  <2> QED
    BY <1>1, <1>5, <2>1, <2>2
<1> QED
  BY <1>6, <1>7 DEF LeasesHeld

-----------------------------------------------------------------------------
(* The records.                                                             *)

\* What was synced is where it was.
LEMMA SyncedStays ==
    ASSUME TypeInv, LedgerKeeps, NEW i \in 1..acked
    PROVE  i \in 1..acked' /\ trail'[i] = trail[i]
  BY TypeInvLedger DEF LedgerKeeps, LedgerOK

\* What a step of a call appends stands where its receipt says, beyond all that
\* was synced.
LEMMA RecordAppended ==
    ASSUME TypeInv, NEW c, NEW call, CallStep(c, call)
    PROVE  /\ Appended(Authorization(call.request.id)) =>
                 /\ trail'[NextSequence] = Authorization(call.request.id)
                 /\ Authorization(call.request.id).type = "authorization"
                 /\ Authorization(call.request.id).id = call.request.id
                 /\ acked' = NextSequence /\ acked < NextSequence
                 /\ NextSequence \in Nat \ {0}
           /\ Appended(Outcome(call.request.id, call.wal, call.result)) =>
                 /\ trail'[NextSequence] = Outcome(call.request.id, call.wal, call.result)
                 /\ acked' = NextSequence /\ acked < NextSequence
                 /\ NextSequence \in Nat \ {0}
<1>1. LedgerOK
  BY TypeInvLedger
<1>2. \A entry : Appended(entry) =>
         /\ trail'[NextSequence] = entry
         /\ acked' = NextSequence /\ acked < NextSequence
         /\ NextSequence \in Nat \ {0}
  BY <1>1 DEF Appended, LedgerOK, NextSequence
<1> QED
  BY <1>2 DEF Appended, Authorization, Accepts, Linkable

\* A step of a call keeps what the calls were told of the ledger true.
LEMMA CallStepRecords ==
    ASSUME TypeInv, WalHeld, NEW c, NEW call, CallStep(c, call)
    PROVE  WalHeld'
<1>1. /\ DOMAIN calls' = DOMAIN calls \cup {c} /\ calls'[c] = call
      /\ \A d \in DOMAIN calls \ {c} : calls'[d] = calls[d]
      /\ GoodCall(call) /\ call.wal \in Nat /\ call.receipt \in Nat
      /\ c \in DOMAIN calls => call.request = calls[c].request
      /\ RecordStep(c, call)
  BY DEF CallStep, Moves, GoodCall, CallRecords
<1>2. LedgerKeeps
  BY RecordKeeps
<1>3. \A i \in 1..acked : i \in 1..acked' /\ trail'[i] = trail[i]
  BY <1>2, SyncedStays
<1>4. acked \in Nat /\ \A d \in DOMAIN calls : calls[d].wal \in Nat /\ GoodCall(calls[d])
  BY TypeInvLedger, CallNamesInput DEF LedgerOK, TypeInv, CallsGood
<1>5. /\ Id(c)' = call.request.id
      /\ \A d \in DOMAIN calls \ {c} : Id(d)' = Id(d)
      /\ c \in DOMAIN calls => Id(c)' = Id(c)
  BY <1>1 DEF Id
\* The other calls.
<1>6. ASSUME NEW d \in DOMAIN calls \ {c}
      PROVE  /\ calls'[d].wal # 0 =>
                   /\ calls'[d].wal \in 1..acked'
                   /\ trail'[calls'[d].wal].type = "authorization"
                   /\ trail'[calls'[d].wal].id = Id(d)'
             /\ calls'[d].receipt # 0 =>
                   /\ calls'[d].receipt \in 1..acked'
                   /\ trail'[calls'[d].receipt] =
                         Outcome(Id(d)', calls'[d].wal, calls'[d].result)
             /\ calls'[d].pc \in {"begin", "execute"} => calls'[d].wal \notin executed'
  <2>1. calls'[d] = calls[d] /\ Id(d)' = Id(d)
    BY <1>1, <1>5
  <2>2. /\ calls[d].wal # 0 =>
              /\ calls[d].wal \in 1..acked
              /\ trail[calls[d].wal].type = "authorization"
              /\ trail[calls[d].wal].id = Id(d)
        /\ calls[d].receipt # 0 =>
              /\ calls[d].receipt \in 1..acked
              /\ trail[calls[d].receipt] = Outcome(Id(d), calls[d].wal, calls[d].result)
        /\ calls[d].pc \in {"begin", "execute"} => calls[d].wal \notin executed
    BY DEF WalHeld
  <2>3. ASSUME calls[d].pc \in {"begin", "execute"}
        PROVE  calls[d].wal \notin executed'
    <3>1. calls[d].wal # 0
      BY <1>4, <2>3 DEF GoodCall, WorkingPcs
    <3>2. c \in DOMAIN calls => calls[c].wal # calls[d].wal
      BY <3>1 DEF WalHeld
    <3> QED
      BY <1>1, <2>2, <2>3, <3>2 DEF RecordStep
  <2> QED
    BY <1>3, <2>1, <2>2, <2>3
\* The call itself.
<1>7. call.wal # 0 =>
         /\ call.wal \in 1..acked'
         /\ trail'[call.wal].type = "authorization"
         /\ trail'[call.wal].id = call.request.id
  <2>1. ASSUME call.wal # 0, c \in DOMAIN calls, call.wal = calls[c].wal
        PROVE  /\ call.wal \in 1..acked'
               /\ trail'[call.wal].type = "authorization"
               /\ trail'[call.wal].id = call.request.id
    <3>1. /\ calls[c].wal \in 1..acked
          /\ trail[calls[c].wal].type = "authorization"
          /\ trail[calls[c].wal].id = Id(c)
      BY <2>1 DEF WalHeld
    <3> QED
      BY <1>1, <1>3, <2>1, <3>1 DEF Id
  <2>2. CASE call.wal = NextSequence /\ Appended(Authorization(call.request.id))
    <3>1. /\ trail'[call.wal] = Authorization(call.request.id)
          /\ Authorization(call.request.id).type = "authorization"
          /\ Authorization(call.request.id).id = call.request.id
          /\ acked' = call.wal /\ call.wal \in Nat \ {0}
      BY <2>2, RecordAppended
    <3> QED
      BY <3>1
  <2> QED
    BY <1>1, <2>1, <2>2 DEF RecordStep
<1>8. call.receipt # 0 =>
         /\ call.receipt \in 1..acked'
         /\ trail'[call.receipt] = Outcome(call.request.id, call.wal, call.result)
  <2>1. CASE call.receipt = NextSequence
             /\ Appended(Outcome(call.request.id, call.wal, call.result))
    <3>1. /\ trail'[call.receipt] = Outcome(call.request.id, call.wal, call.result)
          /\ acked' = call.receipt /\ call.receipt \in Nat \ {0}
      BY <2>1, RecordAppended
    <3> QED
      BY <3>1
  <2>2. ASSUME call.receipt # 0, c \in DOMAIN calls, call.receipt = calls[c].receipt,
               call.wal = calls[c].wal, call.result = calls[c].result
        PROVE  /\ call.receipt \in 1..acked'
               /\ trail'[call.receipt] = Outcome(call.request.id, call.wal, call.result)
    <3>1. /\ calls[c].receipt \in 1..acked
          /\ trail[calls[c].receipt] = Outcome(Id(c), calls[c].wal, calls[c].result)
      BY <2>2 DEF WalHeld
    <3> QED
      BY <1>1, <1>3, <2>2, <3>1 DEF Id
  <2> QED
    BY <1>1, <2>1, <2>2 DEF RecordStep
<1>9. call.pc \in {"begin", "execute"} => call.wal \notin executed'
  <2>1. CASE call.wal = NextSequence /\ Appended(Authorization(call.request.id))
             /\ UNCHANGED executed
    <3>1. acked < call.wal
      BY <2>1, RecordAppended
    <3>2. \A i \in executed : i \in 1..acked
      BY DEF WalHeld
    <3> QED
      BY <1>1, <1>4, <2>1, <3>1, <3>2
  <2> QED
    BY <1>1, <2>1 DEF RecordStep, WalHeld
<1>10. \A d, e \in DOMAIN calls' :
          calls'[d].wal = calls'[e].wal /\ calls'[d].wal # 0 => d = e
  <2>1. \A d \in DOMAIN calls \ {c} : call.wal # 0 => calls[d].wal # call.wal
    <3>1. CASE call.wal = NextSequence /\ Appended(Authorization(call.request.id))
      <4>1. acked < call.wal
        BY <3>1, RecordAppended
      <4>2. \A d \in DOMAIN calls : calls[d].wal # 0 => calls[d].wal \in 1..acked
        BY DEF WalHeld
      <4> QED
        BY <1>1, <1>4, <4>1, <4>2
    <3> QED
      BY <1>1, <3>1 DEF RecordStep, WalHeld
  <2> QED
    BY <1>1, <2>1 DEF WalHeld
<1>11. \A i \in executed' : i \in 1..acked' /\ trail'[i].type = "authorization"
  <2>1. \A i \in executed : i \in 1..acked' /\ trail'[i].type = "authorization"
    BY <1>3 DEF WalHeld
  <2>2. CASE /\ c \in DOMAIN calls /\ calls[c].pc = "execute"
             /\ executed' = executed \cup {calls[c].wal}
    <3>1. calls[c].wal # 0
      BY <1>4, <2>2 DEF GoodCall, WorkingPcs
    <3>2. calls[c].wal \in 1..acked /\ trail[calls[c].wal].type = "authorization"
      BY <2>2, <3>1 DEF WalHeld
    <3> QED
      BY <1>3, <2>1, <2>2, <3>2
  <2> QED
    BY <1>1, <2>1, <2>2 DEF RecordStep
<1> QED
  BY <1>1, <1>5, <1>6, <1>7, <1>8, <1>9, <1>10, <1>11 DEF WalHeld

\* Calls that stand keep their records.
LEMMA StandingRecords ==
    ASSUME WalHeld, CallsStand
    PROVE  WalHeld'
  BY DEF WalHeld, CallsStand, ledgerVars, Id

\* What is synced outlives a crash; the effects that land with it are those of
\* the calls it ends.
LEMMA CrashRecords ==
    ASSUME TypeInv, WalHeld, NEW p \in Procs, Crash(p)
    PROVE  WalHeld'
<1>1. /\ DOMAIN calls' = DOMAIN calls /\ LedgerKeeps
      /\ \A c \in DOMAIN calls :
            /\ calls'[c].request = calls[c].request
            /\ calls'[c].wal = calls[c].wal
            /\ c \in Dropped(p) => calls'[c].pc = "done" /\ calls'[c].receipt = 0
            /\ c \notin Dropped(p) => calls'[c] = calls[c]
  BY CrashDrops
<1>2. PICK landing \in SUBSET {c \in Dropped(p) : calls[c].pc = "execute"} : Land(landing)
  BY CrashDrops
<1>3. landing \in SUBSET DOMAIN calls
  BY <1>2 DEF Dropped, Active
<1>4. executed' = executed \cup {calls[c].wal : c \in landing}
  BY <1>2, <1>3, LandAdds
<1>5. \A i \in 1..acked : i \in 1..acked' /\ trail'[i] = trail[i]
  BY <1>1, SyncedStays
<1>6. \A c \in DOMAIN calls : Id(c)' = Id(c)
  BY <1>1 DEF Id
<1>7. \A c \in DOMAIN calls : calls[c].pc \in {"begin", "execute"} => calls[c].wal # 0
  BY DEF TypeInv, CallsGood, GoodCall, WorkingPcs
<1>8. ASSUME NEW c \in DOMAIN calls
      PROVE  /\ calls'[c].wal # 0 =>
                   /\ calls'[c].wal \in 1..acked'
                   /\ trail'[calls'[c].wal].type = "authorization"
                   /\ trail'[calls'[c].wal].id = Id(c)'
             /\ calls'[c].receipt # 0 =>
                   /\ calls'[c].receipt \in 1..acked'
                   /\ trail'[calls'[c].receipt] =
                         Outcome(Id(c)', calls'[c].wal, calls'[c].result)
             /\ calls'[c].pc \in {"begin", "execute"} => calls'[c].wal \notin executed'
  <2>1. /\ calls[c].wal # 0 =>
              /\ calls[c].wal \in 1..acked
              /\ trail[calls[c].wal].type = "authorization"
              /\ trail[calls[c].wal].id = Id(c)
        /\ calls[c].receipt # 0 =>
              /\ calls[c].receipt \in 1..acked
              /\ trail[calls[c].receipt] = Outcome(Id(c), calls[c].wal, calls[c].result)
        /\ calls[c].pc \in {"begin", "execute"} => calls[c].wal \notin executed
    BY DEF WalHeld
  <2>2. ASSUME calls'[c].pc \in {"begin", "execute"}
        PROVE  calls'[c].wal \notin executed'
    <3>1. c \notin Dropped(p) /\ calls'[c] = calls[c]
      BY <1>1, <2>2
    <3>2. \A d \in landing : calls[d].wal # calls[c].wal
      BY <1>2, <1>3, <1>7, <2>2, <3>1 DEF WalHeld
    <3> QED
      BY <1>4, <2>1, <2>2, <3>1, <3>2
  <2> QED
    BY <1>1, <1>5, <1>6, <2>1, <2>2
<1>9. \A c, d \in DOMAIN calls' :
         calls'[c].wal = calls'[d].wal /\ calls'[c].wal # 0 => c = d
  BY <1>1 DEF WalHeld
<1>10. \A i \in executed' : i \in 1..acked' /\ trail'[i].type = "authorization"
  <2>1. \A c \in landing : calls[c].wal \in 1..acked /\ trail[calls[c].wal].type = "authorization"
    BY <1>2, <1>3, <1>7 DEF WalHeld
  <2>2. \A i \in executed : i \in 1..acked /\ trail[i].type = "authorization"
    BY DEF WalHeld
  <2> QED
    BY <1>4, <1>5, <2>1, <2>2
<1> QED
  BY <1>1, <1>8, <1>9, <1>10 DEF WalHeld

-----------------------------------------------------------------------------
(* What does not depend on the rows.                                        *)

\* Whichever of the kinds it is, one call takes a step.
LEMMA OneCallSteps ==
    ASSUME TypeInv, NEW c, StepsAside(c) \/ Begins(c) \/ Works(c) \/ Settles(c)
    PROVE  \E call : CallStep(c, call)
<1>1. CASE StepsAside(c)
  BY <1>1, AsideIsStep
<1>2. CASE Begins(c)
  BY <1>2 DEF Begins
<1>3. CASE Works(c)
  BY <1>3 DEF Works
<1>4. CASE Settles(c)
  BY <1>4 DEF Settles
<1> QED
  BY <1>1, <1>2, <1>3, <1>4

\* Every step keeps the types.
LEMMA TypeStep ==
    ASSUME TypeInv, [Next]_vars
    PROVE  TypeInv'
<1>1. TypeOK'
  BY NextIsStoreStep, StoreTypeStep DEF TypeInv, InvocationTypeOK
<1>2. ASSUME NEW c, StepsAside(c) \/ Begins(c) \/ Works(c) \/ Settles(c)
      PROVE  TypeInv'
  BY <1>1, <1>2, OneCallSteps, CallStepTypes
<1>3. ASSUME NEW p \in Procs, Crash(p) PROVE TypeInv'
  BY <1>1, <1>3, CrashTypes
<1>4. CASE (\E p \in Procs : Open(p)) \/ OperatorAbandons \/ TimePasses \/ UNCHANGED vars
  BY <1>1, <1>4, EnvironmentStands, StandingTypes
<1> QED
  BY <1>2, <1>3, <1>4, EveryStep

\* Every step keeps what the calls know of the ledger true.
LEMMA RecordsStep ==
    ASSUME TypeInv, WalHeld, [Next]_vars
    PROVE  WalHeld'
<1>1. ASSUME NEW c, StepsAside(c) \/ Begins(c) \/ Works(c) \/ Settles(c)
      PROVE  WalHeld'
  BY <1>1, OneCallSteps, CallStepRecords
<1>2. ASSUME NEW p \in Procs, Crash(p) PROVE WalHeld'
  BY <1>2, CrashRecords
<1>3. CASE (\E p \in Procs : Open(p)) \/ OperatorAbandons \/ TimePasses \/ UNCHANGED vars
  BY <1>3, EnvironmentStands, StandingRecords
<1> QED
  BY <1>1, <1>2, <1>3, EveryStep

\* Every step keeps each lease with its one holder.
LEMMA LeasesStep ==
    ASSUME TypeInv, LeasesHeld, [Next]_vars
    PROVE  LeasesHeld'
<1>1. ASSUME NEW c, StepsAside(c) \/ Begins(c) \/ Works(c) \/ Settles(c)
      PROVE  LeasesHeld'
  BY <1>1, OneCallSteps, CallStepLeases
<1>2. ASSUME NEW p \in Procs, Crash(p) PROVE LeasesHeld'
  BY <1>2, CrashLeases
<1>3. CASE (\E p \in Procs : Open(p)) \/ OperatorAbandons \/ TimePasses \/ UNCHANGED vars
  BY <1>3, EnvironmentStands, StandingLeases
<1> QED
  BY <1>1, <1>2, <1>3, EveryStep

\* Nothing has been called, recorded or leased at first.
LEMMA NothingAtFirst ==
    ASSUME Init
    PROVE  /\ TypeInv /\ WalHeld /\ LeasesHeld
           /\ DOMAIN calls = {} /\ DOMAIN rows = {} /\ StoreInit
<1>1. /\ StoreInit /\ clock = 0 /\ rows = <<>> /\ trail = <<>> /\ torn = FALSE
      /\ acked = 0 /\ up = {} /\ calls = <<>> /\ executed = {} /\ overtaken = {}
      /\ leases = [lease \in Procs \X Checkpoints |-> "absent"]
      /\ runs = [slot \in {SlotOf(request) : request \in Requests} |-> 0]
  BY DEF Init, StoreInit, AuditInit
<1>2. DOMAIN calls = {} /\ DOMAIN rows = {}
  BY <1>1
<1>3. TypeOK
  BY <1>1, <1>2 DEF TypeOK, Timestamps
<1>4. trail \in Seq(Entries) /\ Len(trail) = 0
  BY <1>1
<1>5. InvocationTypeOK
  <2>1. acked \in 0..Len(trail) /\ torn \in BOOLEAN
    <3>1. 0 \in 0..0
      OBVIOUS
    <3> QED
      BY <1>1, <1>4, <3>1
  <2>2. /\ leases \in [Procs \X Checkpoints -> {"absent", "pending", "in_flight"}]
        /\ runs \in [{SlotOf(request) : request \in Requests} -> Nat]
    BY <1>1
  <2>3. /\ up \subseteq Procs /\ DOMAIN calls \subseteq Calls
        /\ executed \subseteq Nat /\ overtaken \subseteq Scopes
    BY <1>1, <1>2
  <2> QED
    BY <1>2, <1>3, <1>4, <2>1, <2>2, <2>3 DEF InvocationTypeOK
<1>6. CallsGood
  BY <1>2, FS_EmptySet DEF CallsGood, Active
<1>7. WalHeld
  BY <1>1, <1>2 DEF WalHeld
<1>8. LeasesHeld
  BY <1>1, <1>2 DEF LeasesHeld
<1> QED
  BY <1>1, <1>2, <1>5, <1>6, <1>7, <1>8 DEF TypeInv

-----------------------------------------------------------------------------
(* The rows.                                                                *)

\* The row with a call's id is the one in its slot.
LEMMA FoundByCall ==
    ASSUME TypeInv, RowsNamed, NEW c \in DOMAIN calls, NEW slot \in DOMAIN rows,
           rows[slot].id = Id(c)
    PROVE  slot = Slot(c)
<1>1. PICK request \in Requests : slot = SlotOf(request) /\ rows[slot].id = request.id
  BY DEF RowsNamed
<1>2. calls[c].request \in Requests /\ Slot(c) = SlotOf(calls[c].request)
  BY CallNamesInput
<1>3. request = calls[c].request
  BY <1>1, <1>2, InvocationAssumption DEF Id
<1> QED
  BY <1>1, <1>2, <1>3

\* A row that nothing touches is owned as before.
LEMMA StillOwned ==
    ASSUME NEW d, OwnsRow(d), calls'[d] = calls[d],
           Slot(d) \in DOMAIN rows', rows'[Slot(d)] = rows[Slot(d)],
           runs'[Slot(d)] = runs[Slot(d)]
    PROVE  OwnsRow(d)' /\ Slot(d)' = Slot(d)
  BY DEF OwnsRow, Slot, Id, WalLink, Linked

\* A row that nothing touches counts its runs as before.
LEMMA StillTold ==
    ASSUME NEW slot, RunsTold(slot), rows'[slot] = rows[slot], runs'[slot] = runs[slot]
    PROVE  RunsTold(slot)'
  BY DEF RunsTold

\* A row that is owned is unresolved.
LEMMA OwnedFences ==
    ASSUME NEW d, OwnsRow(d)
    PROVE  /\ Slot(d) \in DOMAIN rows /\ Fences(rows[Slot(d)].state)
           /\ rows[Slot(d)].state.kind \notin {"reserved", "suspended"}
  BY DEF OwnsRow, Fences, FencingKinds

\* The kinds of the two states an effect starts from.
LEMMA ReservedKind == Plain("reserved").kind = "reserved" /\ Plain("pending").kind = "pending"
  BY PlainIsState DEF PlainKinds

\* The parts of RowsOwned after a step, from what it leaves of each worker's row
\* and of each count.
LEMMA RowsOwnedNext ==
    ASSUME RowsNamed',
           \A c \in Working' : Slot(c)'[1] \notin overtaken' => OwnsRow(c)',
           \A c, d \in Working' :
              Slot(c)' = Slot(d)' /\ Slot(c)'[1] \notin overtaken' => c = d,
           \A slot \in DOMAIN rows' : slot[1] \notin overtaken' => RunsTold(slot)',
           OneProcess => overtaken' = {}
    PROVE  RowsOwned'
  BY DEF RowsOwned, OneProcess

\* What is done aside of the effects leaves every worker its row.
LEMMA AsideRows ==
    ASSUME TypeInv, RowsOwned, NEW c, StepsAside(c)
    PROVE  RowsOwned'
<1>1. PICK call :
        /\ Moves(c, call) /\ GoodCall(call)
        /\ call.pc \notin WorkingPcs
        /\ c \in DOMAIN calls => calls[c].pc \notin WorkingPcs \cup {"done"}
        /\ RowsAside(call)
        /\ UNCHANGED <<up, executed, overtaken>>
  BY DEF StepsAside
<1>2. /\ Working' = Working
      /\ \A d \in Working : d # c /\ calls'[d] = calls[d] /\ Slot(d)' = Slot(d)
  BY <1>1 DEF Moves, Working, Slot
<1>3. call.request \in Requests
  BY <1>1 DEF GoodCall, CallRecords
<1>4. ASSUME NEW d \in Working, Slot(d)[1] \notin overtaken
      PROVE  /\ OwnsRow(d)
             /\ Slot(d) \in DOMAIN rows' /\ rows'[Slot(d)] = rows[Slot(d)]
             /\ runs'[Slot(d)] = runs[Slot(d)]
  <2>1. OwnsRow(d) /\ Slot(d) \in DOMAIN rows /\ Fences(rows[Slot(d)].state)
        /\ rows[Slot(d)].state.kind \notin {"reserved", "suspended"}
    BY <1>4, OwnedFences DEF RowsOwned
  <2>2. Slot(d) \in DOMAIN runs
    BY <1>4, RunsCounted DEF Working
  <2>3. CASE RowsStand({}) /\ UNCHANGED runs
    BY <2>1, <2>3 DEF RowsStand
  <2>4. ASSUME RowsStand({SlotOf(call.request)}),
               SlotOf(call.request) \in DOMAIN rows =>
                  ~Fences(rows[SlotOf(call.request)].state),
               runs' = [runs EXCEPT ![SlotOf(call.request)] = 0]
        PROVE  /\ Slot(d) \in DOMAIN rows' /\ rows'[Slot(d)] = rows[Slot(d)]
               /\ runs'[Slot(d)] = runs[Slot(d)]
    BY <2>1, <2>2, <2>4 DEF RowsStand
  <2>5. ASSUME NEW other \in DOMAIN rows, RowsStand({other}),
               rows[other].state = Plain("reserved"), UNCHANGED runs
        PROVE  /\ Slot(d) \in DOMAIN rows' /\ rows'[Slot(d)] = rows[Slot(d)]
               /\ runs'[Slot(d)] = runs[Slot(d)]
    BY <2>1, <2>5, ReservedKind DEF RowsStand
  <2> QED
    BY <1>1, <2>1, <2>3, <2>4, <2>5 DEF RowsAside
<1>5. RowsNamed'
  <2>1. CASE RowsStand({})
    BY <2>1 DEF RowsOwned, RowsNamed, RowsStand
  <2>2. ASSUME RowsStand({SlotOf(call.request)}),
               rows'[SlotOf(call.request)].id = call.request.id
        PROVE  RowsNamed'
    BY <1>3, <2>2 DEF RowsOwned, RowsNamed, RowsStand
  <2>3. ASSUME NEW other \in DOMAIN rows, RowsStand({other}),
               rows'[other].id = rows[other].id
        PROVE  RowsNamed'
    BY <2>3 DEF RowsOwned, RowsNamed, RowsStand
  <2> QED
    BY <1>1, <2>1, <2>2, <2>3 DEF RowsAside
<1>6. ASSUME NEW slot \in DOMAIN rows', slot[1] \notin overtaken
      PROVE  RunsTold(slot)'
  <2>1. slot \in DOMAIN rows => RunsTold(slot)
    BY <1>6 DEF RowsOwned
  <2>2. CASE RowsStand({}) /\ UNCHANGED runs
    BY <1>6, <2>1, <2>2, StillTold DEF RowsStand
  <2>3. ASSUME RowsStand({SlotOf(call.request)}),
               rows'[SlotOf(call.request)].state = Plain("reserved"),
               runs' = [runs EXCEPT ![SlotOf(call.request)] = 0]
        PROVE  RunsTold(slot)'
    <3>1. CASE slot = SlotOf(call.request)
      <4>1. SlotOf(call.request) \in DOMAIN runs
        BY <1>3 DEF TypeInv, InvocationTypeOK
      <4>2. runs'[slot] = 0 /\ rows'[slot].state.kind = "reserved"
        BY <2>3, <3>1, <4>1, ReservedKind
      <4> QED
        BY <4>2 DEF RunsTold, Settled
    <3>2. CASE slot # SlotOf(call.request)
      <4>1. slot \in DOMAIN rows /\ rows'[slot] = rows[slot]
        BY <1>6, <2>3, <3>2 DEF RowsStand
      <4>2. runs'[slot] = runs[slot]
        BY <2>3, <3>2
      <4> QED
        BY <2>1, <4>1, <4>2, StillTold
    <3> QED
      BY <3>1, <3>2
  <2>4. ASSUME NEW other \in DOMAIN rows, RowsStand({other}),
               rows[other].state = Plain("reserved"),
               rows'[other].state.kind = "suspended", UNCHANGED runs
        PROVE  RunsTold(slot)'
    <3>1. CASE slot = other
      BY <2>1, <2>4, <3>1, ReservedKind DEF RunsTold, Settled
    <3>2. CASE slot # other
      BY <1>6, <2>1, <2>4, <3>2, StillTold DEF RowsStand
    <3> QED
      BY <3>1, <3>2
  <2> QED
    BY <1>1, <2>2, <2>3, <2>4 DEF RowsAside
<1>7. \A d \in Working' : Slot(d)'[1] \notin overtaken' => OwnsRow(d)'
  BY <1>1, <1>2, <1>4, StillOwned
<1>8. \A d, e \in Working' : Slot(d)' = Slot(e)' /\ Slot(d)'[1] \notin overtaken' => d = e
  BY <1>1, <1>2 DEF RowsOwned
<1> QED
  BY <1>1, <1>5, <1>6, <1>7, <1>8, RowsOwnedNext DEF RowsOwned

\* The swap to pending finds the call's own row, with no effect yet and no
\* worker, and makes the call its worker.
LEMMA BeginRows ==
    ASSUME TypeInv, RowsOwned, NEW c, Begins(c)
    PROVE  RowsOwned'
<1>1. PICK call, from :
        /\ Moves(c, call) /\ c \in DOMAIN calls
        /\ call.request = calls[c].request
        /\ calls[c].pc = "begin" /\ call.pc = "execute"
        /\ call.wal = calls[c].wal
        /\ from.kind \in {"reserved", "suspended"}
        /\ Swaps(Id(c), from, Plain("pending"), WalLink(c))
        /\ UNCHANGED <<runs, overtaken>>
  BY DEF Begins, CallStep
<1>2. /\ DOMAIN calls' = DOMAIN calls /\ calls'[c] = call
      /\ \A d \in DOMAIN calls \ {c} : calls'[d] = calls[d]
  BY <1>1 DEF Moves
<1>3. PICK slot \in DOMAIN rows :
        /\ RowsStand({slot}) /\ DOMAIN rows' = DOMAIN rows
        /\ rows[slot].id = Id(c) /\ rows'[slot].id = Id(c)
        /\ rows[slot].state.kind \in {"reserved", "suspended"}
        /\ rows'[slot].state.kind = "pending"
        /\ rows'[slot].links = Append(rows[slot].links, WalLink(c))
  BY <1>1, ReservedKind DEF Swaps, WalLink, AuditLink
<1>4. slot = Slot(c)
  BY <1>1, <1>3, FoundByCall DEF RowsOwned
<1>5. \A other \in DOMAIN rows \ {slot} : rows'[other] = rows[other]
  BY <1>3 DEF RowsStand
<1>6. /\ Working' = Working \cup {c} /\ c \notin Working
      /\ \A d \in Working : calls'[d] = calls[d] /\ Slot(d)' = Slot(d)
      /\ Slot(c)' = Slot(c) /\ Id(c)' = Id(c) /\ WalLink(c)' = WalLink(c)
  BY <1>1, <1>2 DEF Working, WorkingPcs, Slot, Id, WalLink
<1>7. \A d \in Working : Slot(d)[1] \notin overtaken => OwnsRow(d) /\ Slot(d) # slot
  BY <1>3, OwnedFences DEF RowsOwned
<1>8. RowsNamed'
  BY <1>3, <1>5 DEF RowsOwned, RowsNamed
<1>9. ASSUME slot[1] \notin overtaken PROVE OwnsRow(c)'
  <2>1. runs[slot] = 0
    BY <1>3, <1>9 DEF RowsOwned, RunsTold
  <2>2. rows[slot].links \in Seq(AuditLinks)
    BY DEF TypeInv, InvocationTypeOK, TypeOK, StoredInvocations
  <2>3. \E i \in DOMAIN rows'[slot].links : rows'[slot].links[i] = WalLink(c)
    BY <1>3, <2>2
  <2> QED
    BY <1>1, <1>2, <1>3, <1>4, <1>6, <2>1, <2>3 DEF OwnsRow, Linked
<1>10. ASSUME NEW d \in Working, Slot(d)[1] \notin overtaken
       PROVE  OwnsRow(d)'
  <2>1. OwnsRow(d) /\ Slot(d) # slot /\ Slot(d) \in DOMAIN rows
    BY <1>7, <1>10 DEF OwnsRow
  <2> QED
    BY <1>1, <1>3, <1>5, <1>6, <2>1, StillOwned
<1>11. ASSUME NEW other \in DOMAIN rows', other[1] \notin overtaken
       PROVE  RunsTold(other)'
  <2>1. RunsTold(other)
    BY <1>3, <1>11 DEF RowsOwned
  <2>2. CASE other = slot
    BY <1>1, <1>3, <2>1, <2>2 DEF RunsTold, Settled
  <2>3. CASE other # slot
    BY <1>1, <1>3, <1>5, <2>1, <2>3, StillTold
  <2> QED
    BY <2>2, <2>3
<1>12. \A d \in Working' : Slot(d)'[1] \notin overtaken' => OwnsRow(d)'
  BY <1>1, <1>4, <1>6, <1>9, <1>10
<1>13. \A d, e \in Working' :
          Slot(d)' = Slot(e)' /\ Slot(d)'[1] \notin overtaken' => d = e
  BY <1>1, <1>4, <1>6, <1>7 DEF RowsOwned
<1> QED
  BY <1>1, <1>8, <1>11, <1>12, <1>13, RowsOwnedNext DEF RowsOwned

\* An effect adds its run to a row that has none.
LEMMA WorkRows ==
    ASSUME TypeInv, RowsOwned, NEW c, Works(c)
    PROVE  RowsOwned'
<1>1. PICK call :
        /\ Moves(c, call) /\ c \in DOMAIN calls
        /\ call.request = calls[c].request
        /\ calls[c].pc \in WorkingPcs /\ call.pc \in RecordedPcs \cup {"done"}
        /\ call.wal = calls[c].wal
        /\ UNCHANGED <<rows, overtaken>>
        /\ \/ /\ UNCHANGED runs
              /\ calls[c].pc = "execute" => call.pc = "done"
           \/ /\ calls[c].pc = "execute"
              /\ runs'[Slot(c)] = runs[Slot(c)] + 1
              /\ \A slot \in DOMAIN runs \ {Slot(c)} : runs'[slot] = runs[slot]
  BY DEF Works, CallStep
<1>2. /\ DOMAIN calls' = DOMAIN calls /\ calls'[c] = call
      /\ \A d \in DOMAIN calls \ {c} : calls'[d] = calls[d]
  BY <1>1 DEF Moves
<1>3. /\ c \in Working /\ Working' \subseteq Working
      /\ \A d \in Working' : Slot(d)' = Slot(d)
      /\ \A d \in Working' \ {c} : calls'[d] = calls[d]
      /\ Slot(c)' = Slot(c) /\ Id(c)' = Id(c) /\ WalLink(c)' = WalLink(c)
      /\ c \in Working' => call.pc # "execute" /\ call.pc # "done"
  BY <1>1, <1>2 DEF Working, WorkingPcs, RecordedPcs, Slot, Id, WalLink
<1>4. ASSUME Slot(c)[1] \notin overtaken
      PROVE  /\ OwnsRow(c)
             /\ runs'[Slot(c)] \in {0, 1}
             /\ c \in Working' => runs'[Slot(c)] = 1
  <2>1. OwnsRow(c)
    BY <1>3, <1>4 DEF RowsOwned
  <2>2. runs[Slot(c)] = IF calls[c].pc = "execute" THEN 0 ELSE 1
    BY <2>1 DEF OwnsRow
  <2> QED
    BY <1>1, <1>3, <2>1, <2>2
<1>5. \A slot \in DOMAIN runs \ {Slot(c)} : runs'[slot] = runs[slot]
  BY <1>1
<1>6. ASSUME NEW d \in Working', Slot(d)[1] \notin overtaken
      PROVE  OwnsRow(d)'
  <2>1. OwnsRow(d) /\ Slot(d) \in DOMAIN runs /\ Slot(d) \in DOMAIN rows
    BY <1>3, <1>6, RunsCounted DEF RowsOwned, OwnsRow, Working
  <2>2. CASE d = c
    <3>1. runs'[Slot(c)] = 1 /\ call.pc # "execute"
      BY <1>3, <1>4, <1>6, <2>2
    <3> QED
      BY <1>1, <1>2, <1>3, <2>1, <2>2, <3>1 DEF OwnsRow, Linked
  <2>3. CASE d # c
    <3>1. Slot(d) # Slot(c)
      BY <1>3, <1>6, <2>3 DEF RowsOwned
    <3>2. runs'[Slot(d)] = runs[Slot(d)] /\ calls'[d] = calls[d]
      BY <1>3, <1>5, <1>6, <2>1, <2>3, <3>1
    <3> QED
      BY <1>1, <2>1, <3>2, StillOwned
  <2> QED
    BY <2>2, <2>3
<1>7. ASSUME NEW slot \in DOMAIN rows', slot[1] \notin overtaken
      PROVE  RunsTold(slot)'
  <2>1. RunsTold(slot) /\ slot \in DOMAIN rows /\ rows'[slot] = rows[slot]
    BY <1>1, <1>7 DEF RowsOwned
  <2>2. CASE slot = Slot(c)
    <3>1. /\ runs'[slot] \in {0, 1}
          /\ rows'[slot].state.kind \in {"pending", "outcome_unknown"}
      BY <1>4, <1>7, <2>1, <2>2 DEF OwnsRow
    <3> QED
      BY <3>1 DEF RunsTold, Settled
  <2>3. CASE slot # Slot(c)
    <3>1. slot \in DOMAIN runs
      BY <2>1 DEF RowsOwned, RowsNamed, TypeInv, InvocationTypeOK
    <3> QED
      BY <1>5, <2>1, <2>3, <3>1, StillTold
  <2> QED
    BY <2>2, <2>3
<1>8. RowsNamed'
  BY <1>1 DEF RowsOwned, RowsNamed
<1>9. \A d \in Working' : Slot(d)'[1] \notin overtaken' => OwnsRow(d)'
  BY <1>1, <1>3, <1>6
<1>10. \A d, e \in Working' :
          Slot(d)' = Slot(e)' /\ Slot(d)'[1] \notin overtaken' => d = e
  BY <1>1, <1>3 DEF RowsOwned
<1> QED
  BY <1>1, <1>7, <1>8, <1>9, <1>10, RowsOwnedNext DEF RowsOwned

\* An outcome is stored on a row whose effect has run.
LEMMA SettleRows ==
    ASSUME TypeInv, RowsOwned, NEW c, Settles(c)
    PROVE  RowsOwned'
<1>1. PICK call :
        /\ Moves(c, call) /\ c \in DOMAIN calls
        /\ calls[c].pc \in {"settle", "fallback"} /\ call.pc = "done"
        /\ call.answer \in OutcomeKinds
        /\ Swaps(Id(c), Plain("pending"), Plain(call.answer), OutcomeLink(c))
        /\ UNCHANGED <<runs, overtaken>>
  BY DEF Settles, CallStep
<1>2. /\ DOMAIN calls' = DOMAIN calls /\ calls'[c] = call
      /\ \A d \in DOMAIN calls \ {c} : calls'[d] = calls[d]
  BY <1>1 DEF Moves
<1>3. Plain(call.answer).kind = call.answer
  BY <1>1, PlainIsState DEF OutcomeKinds, PlainKinds
<1>4. PICK slot \in DOMAIN rows :
        /\ RowsStand({slot}) /\ DOMAIN rows' = DOMAIN rows
        /\ rows[slot].id = Id(c) /\ rows'[slot].id = Id(c)
        /\ rows'[slot].state.kind = call.answer
  BY <1>1, <1>3 DEF Swaps
<1>5. slot = Slot(c)
  BY <1>1, <1>4, FoundByCall DEF RowsOwned
<1>6. \A other \in DOMAIN rows \ {slot} : rows'[other] = rows[other]
  BY <1>4 DEF RowsStand
<1>7. /\ c \in Working /\ Working' = Working \ {c}
      /\ \A d \in Working' : calls'[d] = calls[d] /\ Slot(d)' = Slot(d)
  BY <1>1, <1>2 DEF Working, WorkingPcs, Slot
<1>8. ASSUME NEW d \in Working', Slot(d)[1] \notin overtaken
      PROVE  OwnsRow(d)'
  <2>1. OwnsRow(d) /\ Slot(d) # slot /\ Slot(d) \in DOMAIN rows
    BY <1>5, <1>7, <1>8 DEF RowsOwned, OwnsRow
  <2> QED
    BY <1>1, <1>4, <1>6, <1>7, <1>8, <2>1, StillOwned
<1>9. ASSUME NEW other \in DOMAIN rows', other[1] \notin overtaken
      PROVE  RunsTold(other)'
  <2>1. RunsTold(other)
    BY <1>4, <1>9 DEF RowsOwned
  <2>2. CASE other = slot
    <3>1. OwnsRow(c)
      BY <1>5, <1>7, <1>9, <2>2 DEF RowsOwned
    <3>2. runs'[slot] = 1
      BY <1>1, <1>5, <3>1 DEF OwnsRow
    <3> QED
      BY <1>1, <1>4, <2>2, <3>2 DEF RunsTold, OutcomeKinds
  <2>3. CASE other # slot
    BY <1>1, <1>4, <1>6, <2>1, <2>3, StillTold
  <2> QED
    BY <2>2, <2>3
<1>10. RowsNamed'
  BY <1>4, <1>6 DEF RowsOwned, RowsNamed
<1>11. \A d \in Working' : Slot(d)'[1] \notin overtaken' => OwnsRow(d)'
  BY <1>1, <1>7, <1>8
<1>12. \A d, e \in Working' :
          Slot(d)' = Slot(e)' /\ Slot(d)'[1] \notin overtaken' => d = e
  BY <1>1, <1>7 DEF RowsOwned
<1> QED
  BY <1>1, <1>9, <1>10, <1>11, <1>12, RowsOwnedNext DEF RowsOwned

\* The only process: when it goes down, nothing is left at work.
LEMMA OnlyProcess ==
    ASSUME TypeInv, OneProcess, NEW p \in Procs
    PROVE  /\ p \in up => Working \subseteq Dropped(p)
           /\ p \notin up => Working = {}
<1>1. Procs = {p}
  BY DEF OneProcess
<1>2. \A c \in Working : c \in Active /\ calls[c].proc \in up /\ calls[c].proc \in Procs
  BY DEF TypeInv, CallsGood, GoodCall, CallRecords, Working, WorkingPcs, Active
<1> QED
  BY <1>1, <1>2 DEF Dropped

\* The effects that land in a crash are the first of their rows.
LEMMA CrashRows ==
    ASSUME TypeInv, RowsOwned, NEW p \in Procs, Crash(p)
    PROVE  RowsOwned'
<1>1. /\ p \in up /\ DOMAIN calls' = DOMAIN calls
      /\ \A c \in DOMAIN calls :
            /\ c \in Dropped(p) => calls'[c].pc = "done"
            /\ c \notin Dropped(p) => calls'[c] = calls[c]
      /\ IF Durable THEN UNCHANGED rows ELSE rows' = <<>>
  BY CrashDrops
<1>2. PICK landing \in SUBSET {c \in Dropped(p) : calls[c].pc = "execute"} : Land(landing)
  BY CrashDrops
<1>3. landing \in SUBSET DOMAIN calls /\ landing \subseteq Working
  BY <1>2 DEF Dropped, Active, Working, WorkingPcs
<1>4. /\ \A slot \in DOMAIN runs :
            (\A d \in landing : Slot(d) # slot) => runs'[slot] = runs[slot]
      /\ \A c \in landing :
            (\A d \in landing : Slot(d) = Slot(c) => d = c) =>
               runs'[Slot(c)] = runs[Slot(c)] + 1
      /\ UNCHANGED overtaken
  BY <1>2, <1>3, LandAdds
<1>5. /\ Working' = Working \ Dropped(p)
      /\ \A d \in Working' : calls'[d] = calls[d] /\ Slot(d)' = Slot(d)
  BY <1>1 DEF Working, WorkingPcs, Slot
<1>6. CASE ~Durable
  <2>1. DOMAIN rows' = {}
    BY <1>1, <1>6
  <2>2. Working' = {}
    BY <1>1, <1>5, <1>6, OnlyProcess, InvocationAssumption DEF OneProcess
  <2>3. RowsNamed'
    BY <2>1 DEF RowsNamed
  <2> QED
    BY <1>4, <2>1, <2>2, <2>3, RowsOwnedNext DEF RowsOwned
<1>7. CASE Durable
  <2>1. UNCHANGED rows
    BY <1>1, <1>7
  <2>2. RowsNamed'
    BY <2>1 DEF RowsOwned, RowsNamed
  <2>3. ASSUME NEW d \in Working', Slot(d)[1] \notin overtaken
        PROVE  OwnsRow(d)'
    <3>1. OwnsRow(d) /\ Slot(d) \in DOMAIN runs /\ Slot(d) \in DOMAIN rows
      BY <1>5, <2>3, RunsCounted DEF RowsOwned, OwnsRow, Working
    <3>2. \A e \in landing : Slot(e) # Slot(d)
      BY <1>2, <1>3, <1>5, <2>3 DEF RowsOwned
    <3>3. runs'[Slot(d)] = runs[Slot(d)]
      BY <1>4, <3>1, <3>2
    <3> QED
      BY <1>5, <2>1, <2>3, <3>1, <3>3, StillOwned
  <2>4. ASSUME NEW slot \in DOMAIN rows', slot[1] \notin overtaken
        PROVE  RunsTold(slot)'
    <3>1. RunsTold(slot) /\ slot \in DOMAIN rows /\ rows'[slot] = rows[slot]
      BY <2>1, <2>4 DEF RowsOwned
    <3>2. ASSUME NEW c \in landing, Slot(c) = slot
          PROVE  RunsTold(slot)'
      <4>1. c \in Working /\ OwnsRow(c) /\ calls[c].pc = "execute"
        BY <1>2, <1>3, <2>4, <3>2 DEF RowsOwned
      <4>2. \A d \in landing : Slot(d) = Slot(c) => d = c
        BY <1>3, <2>4, <3>2 DEF RowsOwned
      <4>3. runs[slot] = 0 /\ runs'[slot] = runs[slot] + 1
        BY <1>4, <3>2, <4>1, <4>2 DEF OwnsRow
      <4>4. rows'[slot].state.kind \in {"pending", "outcome_unknown"}
        BY <3>1, <3>2, <4>1 DEF OwnsRow
      <4> QED
        BY <4>3, <4>4 DEF RunsTold, Settled
    <3>3. CASE \A c \in landing : Slot(c) # slot
      <4>1. slot \in DOMAIN runs
        BY <3>1 DEF RowsOwned, RowsNamed, TypeInv, InvocationTypeOK
      <4> QED
        BY <1>4, <3>1, <3>3, <4>1, StillTold
    <3> QED
      BY <3>2, <3>3
  <2>5. \A d \in Working' : Slot(d)'[1] \notin overtaken' => OwnsRow(d)'
    BY <1>4, <1>5, <2>3
  <2>6. \A d, e \in Working' :
           Slot(d)' = Slot(e)' /\ Slot(d)'[1] \notin overtaken' => d = e
    BY <1>4, <1>5 DEF RowsOwned
  <2> QED
    BY <1>4, <2>2, <2>4, <2>5, <2>6, RowsOwnedNext DEF RowsOwned
<1> QED
  BY <1>6, <1>7

\* What a recovery makes of the rows: those under way fall in doubt.
LEMMA OpenRecovers ==
    ASSUME TypeInv, NEW p \in Procs, Open(p)
    PROVE  /\ DOMAIN rows' = DOMAIN rows /\ p \notin up
           /\ UNCHANGED <<ledgerVars, calls, runs, executed, overtaken>>
           /\ \A slot \in DOMAIN rows :
                 /\ rows'[slot].id = rows[slot].id
                 /\ rows'[slot].links = rows[slot].links
                 /\ \/ rows'[slot] = rows[slot]
                    \/ /\ rows[slot].state.kind \in {"reserved", "pending"}
                       /\ rows'[slot].state.kind = "outcome_unknown"
<1>1. /\ p \notin up
      /\ UNCHANGED <<ledgerVars, calls, runs, executed, overtaken>>
  BY DEF Open, historyVars
<1>2. CASE UNCHANGED storeVars
  BY <1>1, <1>2 DEF storeVars
<1>3. ASSUME NEW now \in Readings, RecoverIncomplete(now)
      PROVE  /\ DOMAIN rows' = DOMAIN rows
             /\ \A slot \in DOMAIN rows :
                   /\ rows'[slot].id = rows[slot].id
                   /\ rows'[slot].links = rows[slot].links
                   /\ \/ rows'[slot] = rows[slot]
                      \/ /\ rows[slot].state.kind \in {"reserved", "pending"}
                         /\ rows'[slot].state.kind = "outcome_unknown"
  <2>1. rows' = [slot \in DOMAIN rows |-> Recovered(rows[slot], now)]
    BY <1>3 DEF RecoverIncomplete
  <2>2. now \in Timestamps
    BY <1>3, ReadingIsTime DEF TypeInv, InvocationTypeOK, TypeOK
  <2>3. Plain("outcome_unknown").kind = "outcome_unknown"
    BY PlainIsState DEF PlainKinds
  <2>4. ASSUME NEW slot \in DOMAIN rows
        PROVE  /\ rows'[slot].id = rows[slot].id
               /\ rows'[slot].links = rows[slot].links
               /\ \/ rows'[slot] = rows[slot]
                  \/ /\ rows[slot].state.kind \in {"reserved", "pending"}
                     /\ rows'[slot].state.kind = "outcome_unknown"
    <3>1. rows[slot] \in StoredInvocations /\ rows'[slot] = Recovered(rows[slot], now)
      BY <2>1 DEF TypeInv, InvocationTypeOK, TypeOK
    <3>2. CASE rows[slot].state.kind \notin {"reserved", "pending"}
      BY <3>1, <3>2 DEF Recovered
    <3>3. CASE rows[slot].state.kind \in {"reserved", "pending"}
      BY <2>3, <3>1, <3>3 DEF Recovered, StoredInvocations
    <3> QED
      BY <3>2, <3>3
  <2> QED
    BY <2>1, <2>4
<1> QED
  BY <1>1, <1>2, <1>3 DEF Open

\* A recovery puts rows in doubt; where there is one process, nothing works then.
LEMMA OpenRows ==
    ASSUME TypeInv, RowsOwned, NEW p \in Procs, Open(p)
    PROVE  RowsOwned'
<1>1. /\ DOMAIN rows' = DOMAIN rows /\ p \notin up
      /\ UNCHANGED <<calls, runs, overtaken>>
      /\ \A slot \in DOMAIN rows :
            /\ rows'[slot].id = rows[slot].id
            /\ rows'[slot].links = rows[slot].links
            /\ \/ rows'[slot] = rows[slot]
               \/ /\ rows[slot].state.kind \in {"reserved", "pending"}
                  /\ rows'[slot].state.kind = "outcome_unknown"
  BY OpenRecovers
<1>2. Working' = Working /\ \A d \in Working : Slot(d)' = Slot(d)
  BY <1>1 DEF Working, Slot
<1>3. OneProcess => Working = {}
  BY <1>1, OnlyProcess
<1>4. ASSUME NEW d \in Working, Slot(d)[1] \notin overtaken
      PROVE  OwnsRow(d)'
  <2>1. OwnsRow(d) /\ ~OneProcess
    BY <1>3, <1>4 DEF RowsOwned
  <2> QED
    BY <1>1, <2>1 DEF OwnsRow, Slot, Id, WalLink, Linked
<1>5. \A slot \in DOMAIN rows' : slot[1] \notin overtaken' => RunsTold(slot)'
  BY <1>1 DEF RowsOwned, RunsTold, Settled
<1>6. RowsNamed'
  BY <1>1 DEF RowsOwned, RowsNamed
<1>7. \A d \in Working' : Slot(d)'[1] \notin overtaken' => OwnsRow(d)'
  BY <1>1, <1>2, <1>4
<1>8. \A d, e \in Working' :
         Slot(d)' = Slot(e)' /\ Slot(d)'[1] \notin overtaken' => d = e
  BY <1>1, <1>2 DEF RowsOwned
<1> QED
  BY <1>1, <1>5, <1>6, <1>7, <1>8, RowsOwnedNext DEF RowsOwned

\* What an abandonment does: one row in doubt is given up, and the scope of a
\* call that still works on it is overtaken.
LEMMA AbandonGivesUp ==
    ASSUME TypeInv, OperatorAbandons
    PROVE  \E slot \in DOMAIN rows, id \in Ids :
              /\ rows[slot].id = id /\ rows[slot].state.kind = "outcome_unknown"
              /\ DOMAIN rows' = DOMAIN rows
              /\ \A other \in DOMAIN rows \ {slot} : rows'[other] = rows[other]
              /\ rows'[slot].id = id /\ rows'[slot].links = rows[slot].links
              /\ rows'[slot].state.kind = "abandoned"
              /\ overtaken' = overtaken \cup
                    {Slot(c)[1] : c \in {d \in Working : Id(d) = id}}
              /\ UNCHANGED <<ledgerVars, calls, runs, executed>>
<1>1. PICK request \in Requests, now \in Readings :
         /\ Abandon(request.id, request.context, now)
         /\ overtaken' = overtaken \cup
               {Slot(c)[1] : c \in {d \in Working : Id(d) = request.id}}
  BY DEF OperatorAbandons
<1>2. UNCHANGED <<ledgerVars, calls, runs, executed>>
  BY DEF OperatorAbandons, serviceVars
<1>3. PICK slot \in DOMAIN rows :
         /\ rows[slot].id = request.id
         /\ rows[slot].state.kind = "outcome_unknown"
         /\ rows' = [rows EXCEPT ![slot] = Abandoned(rows[slot], now)]
  BY <1>1 DEF Abandon
<1>4. now \in Timestamps /\ rows[slot] \in StoredInvocations
  BY ReadingIsTime DEF TypeInv, InvocationTypeOK, TypeOK
<1> DEFINE next == Abandoned(rows[slot], now)
<1>5. next.state = Plain("abandoned") /\ next.id = rows[slot].id
      /\ next.links = rows[slot].links
  BY <1>4, AbandonedIsRow
<1>6. Plain("abandoned").kind = "abandoned"
  BY PlainIsState DEF PlainKinds
<1>7. /\ DOMAIN rows' = DOMAIN rows /\ rows'[slot] = next
      /\ \A other \in DOMAIN rows \ {slot} : rows'[other] = rows[other]
  BY <1>3
<1>8. request.id \in Ids
  BY RequestIsInput
<1> HIDE DEF next
<1> QED
  BY <1>1, <1>2, <1>3, <1>5, <1>6, <1>7, <1>8

\* To the only process it does not happen while a call works.
LEMMA AbandonRows ==
    ASSUME TypeInv, RowsOwned, OperatorAbandons
    PROVE  RowsOwned'
<1>1. PICK slot \in DOMAIN rows, id \in Ids :
         /\ rows[slot].id = id /\ rows[slot].state.kind = "outcome_unknown"
         /\ DOMAIN rows' = DOMAIN rows
         /\ \A other \in DOMAIN rows \ {slot} : rows'[other] = rows[other]
         /\ rows'[slot].id = id
         /\ rows'[slot].state.kind = "abandoned"
         /\ overtaken' = overtaken \cup
               {Slot(c)[1] : c \in {d \in Working : Id(d) = id}}
         /\ UNCHANGED <<calls, runs>>
  BY AbandonGivesUp
<1>2. Working' = Working /\ \A d \in Working : Slot(d)' = Slot(d)
  BY <1>1 DEF Working, Slot
<1>3. overtaken \subseteq overtaken'
  BY <1>1
<1>4. ASSUME NEW d \in Working, Slot(d)[1] \notin overtaken'
      PROVE  OwnsRow(d)'
  <2>1. OwnsRow(d) /\ Id(d) # id
    BY <1>1, <1>3, <1>4 DEF RowsOwned
  <2>2. Slot(d) # slot /\ Slot(d) \in DOMAIN rows
    BY <1>1, <2>1 DEF OwnsRow
  <2> QED
    BY <1>1, <2>1, <2>2, StillOwned
<1>5. ASSUME NEW other \in DOMAIN rows', other[1] \notin overtaken'
      PROVE  RunsTold(other)'
  <2>1. RunsTold(other)
    BY <1>1, <1>3, <1>5 DEF RowsOwned
  <2>2. CASE other = slot
    BY <1>1, <2>1, <2>2 DEF RunsTold, Settled
  <2>3. CASE other # slot
    BY <1>1, <1>5, <2>1, <2>3, StillTold
  <2> QED
    BY <2>2, <2>3
<1>6. ASSUME OneProcess PROVE overtaken' = {}
  <2>1. overtaken = {}
    BY <1>6 DEF RowsOwned
  <2>2. ASSUME NEW d \in Working, Id(d) = id PROVE FALSE
    <3>1. OwnsRow(d) /\ rows[Slot(d)].state.kind = "pending"
      BY <1>6, <2>1, <2>2 DEF RowsOwned, OwnsRow
    <3>2. slot = Slot(d)
      BY <1>1, <2>2, FoundByCall DEF RowsOwned, Working
    <3> QED
      BY <1>1, <3>1, <3>2
  <2> QED
    BY <1>1, <2>1, <2>2
<1>7. RowsNamed'
  BY <1>1 DEF RowsOwned, RowsNamed
<1>8. \A d \in Working' : Slot(d)'[1] \notin overtaken' => OwnsRow(d)'
  BY <1>2, <1>4
<1>9. \A d, e \in Working' :
         Slot(d)' = Slot(e)' /\ Slot(d)'[1] \notin overtaken' => d = e
  BY <1>2, <1>3 DEF RowsOwned
<1> QED
  BY <1>5, <1>6, <1>7, <1>8, <1>9, RowsOwnedNext

\* Time, and a step of nothing, touch no row and no call.
LEMMA TimeStands ==
    ASSUME TimePasses \/ UNCHANGED vars
    PROVE  UNCHANGED <<rows, trail, acked, calls, runs, overtaken>>
  BY DEF TimePasses, Tick, vars, storeVars, ledgerVars, serviceVars, historyVars

\* Time changes nothing about the rows.
LEMMA TimeRows ==
    ASSUME RowsOwned, TimePasses \/ UNCHANGED vars
    PROVE  RowsOwned'
<1>1. UNCHANGED <<rows, calls, runs, overtaken>>
  BY TimeStands
<1>2. Working' = Working /\ \A d \in Working : Slot(d)' = Slot(d)
  BY <1>1 DEF Working, Slot
<1>3. \A d \in Working' : Slot(d)'[1] \notin overtaken' => OwnsRow(d)'
  BY <1>1, <1>2 DEF RowsOwned, OwnsRow, Id, WalLink, Linked
<1>4. RowsNamed'
  BY <1>1 DEF RowsOwned, RowsNamed
<1>5. \A slot \in DOMAIN rows' : slot[1] \notin overtaken' => RunsTold(slot)'
  BY <1>1 DEF RowsOwned, RunsTold
<1>6. \A d, e \in Working' :
         Slot(d)' = Slot(e)' /\ Slot(d)'[1] \notin overtaken' => d = e
  BY <1>1, <1>2 DEF RowsOwned
<1> QED
  BY <1>1, <1>3, <1>4, <1>5, <1>6, RowsOwnedNext DEF RowsOwned

\* Every step keeps the rows with their workers.
LEMMA RowsStep ==
    ASSUME TypeInv, RowsOwned, [Next]_vars
    PROVE  RowsOwned'
<1>1. ASSUME NEW c, StepsAside(c) \/ Begins(c) \/ Works(c) \/ Settles(c)
      PROVE  RowsOwned'
  BY <1>1, AsideRows, BeginRows, WorkRows, SettleRows
<1>2. ASSUME NEW p \in Procs, Crash(p) \/ Open(p) PROVE RowsOwned'
  BY <1>2, CrashRows, OpenRows
<1>3. CASE OperatorAbandons
  BY <1>3, AbandonRows
<1>4. CASE TimePasses \/ UNCHANGED vars
  BY <1>4, TimeRows
<1> QED
  BY <1>1, <1>2, <1>3, <1>4, EveryStep

-----------------------------------------------------------------------------
(* The links.                                                               *)

\* A row that keeps its links tells as much, if its state changes at most to
\* one that promises less.
LEMMA LinksKept ==
    ASSUME TypeInv, LedgerKeeps, overtaken \subseteq overtaken',
           NEW slot \in DOMAIN rows, LinksTell(slot),
           rows'[slot].links = rows[slot].links,
           \/ rows'[slot].state.kind = rows[slot].state.kind
           \/ rows'[slot].state.kind \in {"outcome_unknown", "abandoned"}
           \/ /\ rows[slot].state.kind = "reserved"
              /\ rows'[slot].state.kind = "suspended"
    PROVE  LinksTell(slot)'
<1>1. \A i \in 1..acked : i \in 1..acked' /\ trail'[i] = trail[i]
  BY SyncedStays
<1>2. rows'[slot].state.kind \in {"reserved", "suspended"} => rows'[slot].links = <<>>
  BY DEF LinksTell
<1>3. ASSUME NEW i \in DOMAIN rows[slot].links
      PROVE  LinkTells(slot, rows[slot].links[i])'
  <2>1. PICK link : link = rows[slot].links[i] /\ link = rows'[slot].links[i]
    OBVIOUS
  <2>2. LinkTells(slot, link)
    BY <1>3, <2>1 DEF LinksTell
  <2>3. link.record \in 1..acked' /\ trail'[link.record] = trail[link.record]
    BY <1>1, <2>2 DEF LinkTells
  <2>4. OutcomeOwned(slot, link) => OutcomeOwned(slot, link)'
    BY <2>3 DEF OutcomeOwned, Linked, Settled
  <2>5. LinkTells(slot, link)'
    BY <2>2, <2>3, <2>4 DEF LinkTells
  <2> QED
    BY <2>1, <2>5
<1> QED
  BY <1>2, <1>3 DEF LinksTell

\* A call that another one's step leaves where it was has begun on no more rows
\* than before, and on none whose outcome has changed.
LEMMA OthersStand ==
    ASSUME LinksTold, NEW d \in DOMAIN calls,
           calls'[d].request = calls[d].request, calls'[d].wal = calls[d].wal,
           calls'[d].answer \in Settled => calls'[d].answer = calls[d].answer,
           calls'[d].pc = "begin" => calls[d].pc = "begin",
           \A slot \in DOMAIN rows' : Begun(slot, d)' =>
              /\ Begun(slot, d)
              /\ \/ rows'[slot].state.kind = rows[slot].state.kind
                 \/ rows[slot].state.kind \notin Settled
    PROVE  /\ \A slot \in DOMAIN rows' : calls'[d].pc = "begin" => ~Begun(slot, d)'
           /\ AnswerStands(d)'
<1>1. \A slot \in DOMAIN rows' : calls'[d].pc = "begin" => ~Begun(slot, d)'
  BY DEF LinksTold, Begun
<1>2. PICK slot : slot = Slot(d) /\ slot = Slot(d)'
  BY DEF Slot
<1>3. ASSUME calls'[d].answer \in Settled, Begun(slot, d)'
      PROVE  rows'[slot].state.kind = calls'[d].answer
  <2>1. slot \in DOMAIN rows'
    BY <1>3 DEF Begun
  <2>2. Begun(slot, d) /\ calls[d].answer \in Settled
    BY <1>3, <2>1
  <2>3. rows[slot].state.kind = calls[d].answer
    BY <1>2, <2>2 DEF LinksTold, AnswerStands
  <2> QED
    BY <1>3, <2>1, <2>2, <2>3
<1> QED
  BY <1>1, <1>2, <1>3 DEF AnswerStands

\* A call that was not told how its effect ended has been told nothing wrong.
LEMMA UntoldStands ==
    ASSUME NEW c, calls'[c].answer \notin Settled
    PROVE  AnswerStands(c)'
  BY DEF AnswerStands

\* What is done aside of the effects adds no link.
LinksAside ==
    \A slot \in DOMAIN rows' :
        \/ slot \in DOMAIN rows /\ rows'[slot] = rows[slot]
        \/ rows'[slot].state.kind = "reserved" /\ rows'[slot].links = <<>>
        \/ /\ slot \in DOMAIN rows /\ rows'[slot].links = rows[slot].links
           /\ rows[slot].state.kind = "reserved"
           /\ rows'[slot].state.kind = "suspended"

\* Purges, reservations and suspensions are such changes.
LEMMA RowsAsideLinks ==
    ASSUME NEW call, RowsAside(call)
    PROVE  LinksAside
<1>1. CASE RowsStand({})
  BY <1>1 DEF RowsStand, LinksAside
<1>2. ASSUME NEW slot \in DOMAIN rows', RowsStand({slot}),
             rows'[slot].state = Plain("reserved"), rows'[slot].links = <<>>
      PROVE  LinksAside
  BY <1>2, ReservedKind DEF RowsStand, LinksAside
<1>3. ASSUME NEW slot \in DOMAIN rows, RowsStand({slot}),
             rows[slot].state = Plain("reserved"),
             rows'[slot].state.kind = "suspended",
             rows'[slot].links = rows[slot].links
      PROVE  LinksAside
  BY <1>3, ReservedKind DEF RowsStand, LinksAside
<1> QED
  BY <1>1, <1>2, <1>3 DEF RowsAside

\* So no further row names a call's authorization.
LEMMA AsideBegun ==
    ASSUME LinksAside, NEW d, calls'[d].wal = calls[d].wal,
           NEW slot \in DOMAIN rows', Begun(slot, d)'
    PROVE  /\ Begun(slot, d)
           /\ \/ rows'[slot].state.kind = rows[slot].state.kind
              \/ rows[slot].state.kind \notin Settled
<1>1. WalLink(d)' = WalLink(d)
  BY DEF WalLink
<1>2. PICK i \in DOMAIN rows'[slot].links : rows'[slot].links[i] = WalLink(d)
  BY <1>1 DEF Begun, Linked
<1>3. rows'[slot].links # <<>>
  BY <1>2
<1>4. CASE slot \in DOMAIN rows /\ rows'[slot] = rows[slot]
  BY <1>2, <1>4 DEF Begun, Linked
<1>5. CASE /\ slot \in DOMAIN rows /\ rows'[slot].links = rows[slot].links
           /\ rows[slot].state.kind = "reserved"
  BY <1>2, <1>5 DEF Begun, Linked, Settled
<1> QED
  BY <1>3, <1>4, <1>5 DEF LinksAside

\* No row names an authorization that was only appended now.
LEMMA NotYetBegun ==
    ASSUME TypeInv, LinksTold, LinksAside, NEW c, calls'[c].wal = NextSequence,
           NEW slot \in DOMAIN rows'
    PROVE  ~Begun(slot, c)'
<1> SUFFICES ASSUME Begun(slot, c)' PROVE FALSE
  OBVIOUS
<1>1. WalLink(c)'.record = NextSequence
  BY DEF WalLink, AuditLink
<1>2. PICK i \in DOMAIN rows'[slot].links : rows'[slot].links[i].record = NextSequence
  BY <1>1 DEF Begun, Linked
<1>3. rows'[slot].links # <<>>
  BY <1>2
<1>4. slot \in DOMAIN rows /\ rows'[slot].links = rows[slot].links
  BY <1>3 DEF LinksAside
<1>5. rows[slot].links[i].record \in 1..acked
  BY <1>2, <1>4 DEF LinksTold, LinksTell, LinkTells
<1>6. NextSequence \notin 1..acked
  BY TypeInvLedger DEF LedgerOK, NextSequence
<1> QED
  BY <1>2, <1>4, <1>5, <1>6

\* What is done aside of the effects leaves the links telling what they told.
LEMMA AsideLinks ==
    ASSUME TypeInv, LinksTold, NEW c, StepsAside(c)
    PROVE  LinksTold'
<1>1. PICK call :
        /\ Moves(c, call)
        /\ call.answer \notin Settled
        /\ c \in DOMAIN calls => call.request = calls[c].request
        /\ \/ /\ call.pc # "begin"
              /\ call.wal = IF c \in DOMAIN calls THEN calls[c].wal ELSE 0
           \/ call.pc = "begin" /\ call.wal = NextSequence
        /\ RowsAside(call)
        /\ UNCHANGED overtaken
  BY DEF StepsAside
<1>2. /\ DOMAIN calls' = DOMAIN calls \cup {c} /\ calls'[c] = call
      /\ \A d \in DOMAIN calls \ {c} : calls'[d] = calls[d]
  BY <1>1 DEF Moves
<1>3. LinksAside
  BY <1>1, RowsAsideLinks
<1>4. LedgerKeeps
  <2>1. PICK next : CallStep(c, next)
    BY AsideIsStep
  <2> QED
    BY <2>1, RecordKeeps
<1>5. ASSUME NEW slot \in DOMAIN rows' PROVE LinksTell(slot)'
  <2>1. CASE rows'[slot].state.kind = "reserved" /\ rows'[slot].links = <<>>
    BY <2>1 DEF LinksTell
  <2>2. CASE /\ slot \in DOMAIN rows /\ rows'[slot].links = rows[slot].links
             /\ \/ rows'[slot].state.kind = rows[slot].state.kind
                \/ /\ rows[slot].state.kind = "reserved"
                   /\ rows'[slot].state.kind = "suspended"
    BY <1>1, <1>4, <2>2, LinksKept DEF LinksTold
  <2> QED
    BY <1>3, <2>1, <2>2 DEF LinksAside
<1>6. ASSUME NEW d \in DOMAIN calls \ {c}
      PROVE  /\ \A slot \in DOMAIN rows' : calls'[d].pc = "begin" => ~Begun(slot, d)'
             /\ AnswerStands(d)'
  BY <1>2, <1>3, <1>6, AsideBegun, OthersStand
<1>7. \A slot \in DOMAIN rows' : calls'[c].pc = "begin" => ~Begun(slot, c)'
  BY <1>1, <1>2, <1>3, NotYetBegun
<1>8. AnswerStands(c)'
  BY <1>1, <1>2, UntoldStands
<1> QED
  BY <1>2, <1>5, <1>6, <1>7, <1>8 DEF LinksTold

\* A row that another call appends its link to names no more authorizations of
\* the others.
LEMMA AppendedBegun ==
    ASSUME NEW slot \in DOMAIN rows, rows[slot].links \in Seq(AuditLinks), NEW link,
           rows'[slot].links = Append(rows[slot].links, link),
           NEW d, calls'[d].wal = calls[d].wal, link # WalLink(d), Begun(slot, d)'
    PROVE  Begun(slot, d)
<1>1. WalLink(d)' = WalLink(d)
  BY DEF WalLink
<1>2. PICK i \in DOMAIN rows'[slot].links : rows'[slot].links[i] = WalLink(d)
  BY <1>1 DEF Begun, Linked
<1>3. i \in DOMAIN rows[slot].links /\ rows[slot].links[i] = WalLink(d)
  BY <1>2
<1> QED
  BY <1>3 DEF Begun, Linked

\* A row that is untouched names the same ones.
LEMMA SameBegun ==
    ASSUME NEW slot \in DOMAIN rows, rows'[slot] = rows[slot],
           NEW d, calls'[d].wal = calls[d].wal, Begun(slot, d)'
    PROVE  Begun(slot, d) /\ rows'[slot].state.kind = rows[slot].state.kind
  BY DEF Begun, Linked, WalLink

\* A call that begins has an authorization of its own.
LEMMA OwnWal ==
    ASSUME TypeInv, WalHeld, NEW c \in DOMAIN calls,
           calls[c].pc \in {"begin"} \cup WorkingPcs,
           NEW d \in DOMAIN calls \ {c}
    PROVE  WalLink(d) # WalLink(c)
<1>1. calls[c].wal # 0
  BY DEF TypeInv, CallsGood, GoodCall
<1>2. calls[c].wal # calls[d].wal
  BY <1>1 DEF WalHeld
<1>3. WalLink(d).record = calls[d].wal /\ WalLink(c).record = calls[c].wal
  BY DEF WalLink, AuditLink
<1> QED
  BY <1>2, <1>3

\* The row that begins had no link, and now has the call's.
LEMMA BeginLinks ==
    ASSUME TypeInv, WalHeld, RowsOwned, LinksTold, NEW c, Begins(c)
    PROVE  LinksTold'
<1>1. PICK call, from :
        /\ CallStep(c, call)
        /\ Moves(c, call) /\ c \in DOMAIN calls
        /\ call.request = calls[c].request
        /\ calls[c].pc = "begin" /\ call.pc = "execute"
        /\ call.wal = calls[c].wal /\ call.answer \notin Settled
        /\ from.kind \in {"reserved", "suspended"}
        /\ Swaps(Id(c), from, Plain("pending"), WalLink(c))
        /\ UNCHANGED overtaken
  BY DEF Begins, CallStep
<1>2. /\ DOMAIN calls' = DOMAIN calls /\ calls'[c] = call
      /\ \A d \in DOMAIN calls \ {c} : calls'[d] = calls[d]
  BY <1>1 DEF Moves
<1>3. LedgerKeeps
  BY <1>1, RecordKeeps
<1>4. PICK slot \in DOMAIN rows :
        /\ DOMAIN rows' = DOMAIN rows
        /\ \A other \in DOMAIN rows \ {slot} : rows'[other] = rows[other]
        /\ rows[slot].state.kind \in {"reserved", "suspended"}
        /\ rows'[slot].state.kind = "pending"
        /\ rows'[slot].links = Append(rows[slot].links, WalLink(c))
  BY <1>1, ReservedKind DEF Swaps, WalLink, AuditLink, RowsStand
<1>5. rows[slot].links = <<>> /\ rows[slot].links \in Seq(AuditLinks)
  BY <1>4 DEF LinksTold, LinksTell, TypeInv, InvocationTypeOK, TypeOK, StoredInvocations
<1>6. calls[c].wal \in 1..acked /\ WalLink(c) = AuditLink("authorization", calls[c].wal)
  BY <1>1 DEF WalHeld, WalLink, TypeInv, CallsGood, GoodCall
<1>7. LinksTell(slot)'
  <2>1. PICK link : link = WalLink(c) /\ link.record \in 1..acked' /\ link.kind # "outcome"
    BY <1>3, <1>6, SyncedStays DEF AuditLink
  <2>2. \A i \in DOMAIN rows'[slot].links : rows'[slot].links[i] = link
    BY <1>4, <1>5, <2>1
  <2>3. LinkTells(slot, link)'
    BY <2>1 DEF LinkTells
  <2> QED
    BY <1>4, <2>2, <2>3 DEF LinksTell
<1>8. ASSUME NEW other \in DOMAIN rows' PROVE LinksTell(other)'
  <2>1. CASE other # slot
    BY <1>1, <1>3, <1>4, <2>1, LinksKept DEF LinksTold
  <2> QED
    BY <1>7, <2>1
<1>9. ASSUME NEW d \in DOMAIN calls \ {c}
      PROVE  /\ \A other \in DOMAIN rows' : calls'[d].pc = "begin" => ~Begun(other, d)'
             /\ AnswerStands(d)'
  <2>1. calls'[d] = calls[d] /\ WalLink(d) # WalLink(c)
    BY <1>1, <1>2, OwnWal
  <2>2. ASSUME NEW other \in DOMAIN rows', Begun(other, d)'
        PROVE  /\ Begun(other, d)
               /\ \/ rows'[other].state.kind = rows[other].state.kind
                  \/ rows[other].state.kind \notin Settled
    <3>1. CASE other = slot
      BY <1>4, <1>5, <2>1, <2>2, <3>1, AppendedBegun DEF Settled
    <3>2. CASE other # slot
      BY <1>4, <2>1, <2>2, <3>2, SameBegun
    <3> QED
      BY <3>1, <3>2
  <2> QED
    BY <2>1, <2>2, OthersStand
<1>10. calls'[c].pc # "begin" /\ AnswerStands(c)'
  BY <1>1, <1>2, UntoldStands
<1> QED
  BY <1>2, <1>8, <1>9, <1>10 DEF LinksTold

\* A call that goes on or ends without an outcome leaves the links alone.
LEMMA WorkLinks ==
    ASSUME TypeInv, LinksTold, NEW c, Works(c)
    PROVE  LinksTold'
<1>1. PICK call :
        /\ CallStep(c, call)
        /\ Moves(c, call) /\ c \in DOMAIN calls
        /\ call.pc \in RecordedPcs \cup {"done"}
        /\ call.answer \notin Settled
        /\ UNCHANGED <<rows, overtaken>>
  BY DEF Works, CallStep
<1>2. /\ DOMAIN calls' = DOMAIN calls /\ calls'[c] = call
      /\ \A d \in DOMAIN calls \ {c} : calls'[d] = calls[d]
  BY <1>1 DEF Moves
<1>3. LedgerKeeps
  BY <1>1, RecordKeeps
<1>4. \A slot \in DOMAIN rows' : LinksTell(slot)'
  BY <1>1, <1>3, LinksKept DEF LinksTold
<1>5. ASSUME NEW d \in DOMAIN calls \ {c}
      PROVE  /\ \A slot \in DOMAIN rows' : calls'[d].pc = "begin" => ~Begun(slot, d)'
             /\ AnswerStands(d)'
  BY <1>1, <1>2, <1>5, SameBegun, OthersStand
<1>6. calls'[c].pc # "begin" /\ AnswerStands(c)'
  BY <1>1, <1>2, UntoldStands DEF RecordedPcs
<1> QED
  BY <1>2, <1>4, <1>5, <1>6 DEF LinksTold

\* An outcome is linked behind the authorization of the call that ran.
LEMMA SettleLinks ==
    ASSUME TypeInv, WalHeld, RowsOwned, LinksTold, NEW c, Settles(c)
    PROVE  LinksTold'
<1>1. PICK call :
        /\ CallStep(c, call)
        /\ Moves(c, call) /\ c \in DOMAIN calls
        /\ call.request = calls[c].request
        /\ calls[c].pc \in {"settle", "fallback"} /\ call.pc = "done"
        /\ call.wal = calls[c].wal
        /\ call.answer \in {calls[c].result, "outcome_unknown"}
        /\ call.answer \in OutcomeKinds
        /\ Swaps(Id(c), Plain("pending"), Plain(call.answer), OutcomeLink(c))
        /\ UNCHANGED overtaken
  BY DEF Settles, CallStep
<1>2. /\ DOMAIN calls' = DOMAIN calls /\ calls'[c] = call
      /\ \A d \in DOMAIN calls \ {c} : calls'[d] = calls[d]
  BY <1>1 DEF Moves
<1>3. LedgerKeeps
  BY <1>1, RecordKeeps
<1>4. Plain(call.answer).kind = call.answer
  BY <1>1, PlainIsState DEF OutcomeKinds, PlainKinds
<1>5. PICK slot \in DOMAIN rows :
        /\ DOMAIN rows' = DOMAIN rows
        /\ \A other \in DOMAIN rows \ {slot} : rows'[other] = rows[other]
        /\ rows[slot].id = Id(c)
        /\ rows[slot].state.kind = "pending"
        /\ rows'[slot].state.kind = call.answer
        /\ rows'[slot].links = IF OutcomeLink(c).kind = "none" THEN rows[slot].links
                                  ELSE Append(rows[slot].links, OutcomeLink(c))
  BY <1>1, <1>4, ReservedKind DEF Swaps, RowsStand
<1>6. slot = Slot(c) /\ slot = Slot(c)'
  BY <1>1, <1>2, <1>5, FoundByCall DEF RowsOwned, Slot
<1>7. /\ rows[slot].links \in Seq(AuditLinks)
      /\ \A i \in DOMAIN rows[slot].links :
            rows[slot].links[i].record \in 1..acked /\ rows[slot].links[i].kind # "outcome"
  BY <1>5 DEF LinksTold, LinksTell, LinkTells, TypeInv, InvocationTypeOK, TypeOK,
              StoredInvocations
<1>8. call.answer \notin {"reserved", "suspended", "pending"}
  BY <1>1 DEF OutcomeKinds
\* The links that were there, and the one that is new.
<1>9. ASSUME NEW link, NEW i \in DOMAIN rows[slot].links, link = rows[slot].links[i]
      PROVE  LinkTells(slot, link)'
  <2>1. link.record \in 1..acked /\ link.kind # "outcome"
    BY <1>7, <1>9
  <2>2. link.record \in 1..acked'
    BY <1>3, <2>1, SyncedStays
  <2> QED
    BY <2>1, <2>2 DEF LinkTells
<1>10. ASSUME NEW link, link = OutcomeLink(c), calls[c].receipt # 0
       PROVE  LinkTells(slot, link)'
  <2>1. /\ calls[c].receipt \in 1..acked
        /\ trail[calls[c].receipt] = Outcome(Id(c), calls[c].wal, calls[c].result)
    BY <1>1, <1>10 DEF WalHeld
  <2>2. link.record = calls[c].receipt
    BY <1>10 DEF OutcomeLink, AuditLink
  <2>3. /\ link.record \in 1..acked'
        /\ trail'[link.record] = Outcome(Id(c), calls[c].wal, calls[c].result)
    BY <1>3, <2>1, <2>2, SyncedStays
  <2>4. ASSUME slot[1] \notin overtaken PROVE OutcomeOwned(slot, link)'
    <3>1. c \in Working
      BY <1>1 DEF Working, WorkingPcs
    <3>2. Linked(slot, WalLink(c))
      BY <1>6, <2>4, <3>1 DEF RowsOwned, OwnsRow
    <3>3. PICK i \in DOMAIN rows[slot].links : rows[slot].links[i] = WalLink(c)
      BY <3>2 DEF Linked
    <3>4. i \in DOMAIN rows'[slot].links /\ rows'[slot].links[i] = WalLink(c)
      BY <1>5, <1>7, <3>3
    <3>5. /\ trail'[link.record].writeAhead = calls[c].wal
          /\ trail'[link.record].outcome = calls[c].result
      BY <2>3 DEF Outcome
    <3> QED
      BY <1>1, <1>5, <3>4, <3>5 DEF OutcomeOwned, Linked, WalLink, Settled
  <2> QED
    BY <1>1, <1>5, <1>8, <2>3, <2>4 DEF LinkTells
<1>11. LinksTell(slot)'
  <2>1. CASE OutcomeLink(c).kind = "none"
    BY <1>5, <1>8, <1>9, <2>1 DEF LinksTell
  <2>2. CASE OutcomeLink(c).kind # "none"
    <3>1. calls[c].receipt # 0
      BY <2>2 DEF OutcomeLink, NoAudit
    <3>2. PICK link : link = OutcomeLink(c) /\ LinkTells(slot, link)'
      BY <1>10, <3>1
    <3>3. \A i \in DOMAIN rows'[slot].links :
             \/ rows'[slot].links[i] = link
             \/ i \in DOMAIN rows[slot].links /\ rows'[slot].links[i] = rows[slot].links[i]
      BY <1>5, <1>7, <2>2, <3>2
    <3> QED
      BY <1>5, <1>8, <1>9, <3>2, <3>3 DEF LinksTell
  <2> QED
    BY <2>1, <2>2
<1>12. ASSUME NEW other \in DOMAIN rows' PROVE LinksTell(other)'
  <2>1. CASE other # slot
    BY <1>1, <1>3, <1>5, <2>1, LinksKept DEF LinksTold
  <2> QED
    BY <1>11, <2>1
<1>13. ASSUME NEW d \in DOMAIN calls \ {c}
       PROVE  /\ \A other \in DOMAIN rows' : calls'[d].pc = "begin" => ~Begun(other, d)'
              /\ AnswerStands(d)'
  <2>1. calls'[d] = calls[d]
    BY <1>2
  <2>2. OutcomeLink(c).kind # "none" => OutcomeLink(c) # WalLink(d)
    BY DEF OutcomeLink, WalLink, AuditLink, NoAudit
  <2>3. ASSUME NEW other \in DOMAIN rows', Begun(other, d)'
        PROVE  /\ Begun(other, d)
               /\ \/ rows'[other].state.kind = rows[other].state.kind
                  \/ rows[other].state.kind \notin Settled
    <3>1. CASE other = slot /\ OutcomeLink(c).kind # "none"
      BY <1>5, <1>7, <2>1, <2>2, <2>3, <3>1, AppendedBegun DEF Settled
    <3>2. CASE other = slot /\ OutcomeLink(c).kind = "none"
      BY <1>5, <2>1, <2>3, <3>2 DEF Begun, Linked, WalLink, Settled
    <3>3. CASE other # slot
      BY <1>5, <2>1, <2>3, <3>3, SameBegun
    <3> QED
      BY <3>1, <3>2, <3>3
  <2> QED
    BY <2>1, <2>3, OthersStand
<1>14. calls'[c].pc # "begin" /\ AnswerStands(c)'
  BY <1>1, <1>2, <1>5, <1>6 DEF AnswerStands
<1> QED
  BY <1>2, <1>12, <1>13, <1>14 DEF LinksTold

\* A crash ends calls without telling them anything, and keeps rows or loses
\* them all.
LEMMA CrashLinks ==
    ASSUME TypeInv, LinksTold, NEW p \in Procs, Crash(p)
    PROVE  LinksTold'
<1>1. /\ DOMAIN calls' = DOMAIN calls /\ LedgerKeeps
      /\ \A c \in DOMAIN calls :
            /\ calls'[c].request = calls[c].request
            /\ calls'[c].wal = calls[c].wal
            /\ c \in Dropped(p) => calls'[c].pc = "done" /\ calls'[c].answer = "dropped"
            /\ c \notin Dropped(p) => calls'[c] = calls[c]
      /\ IF Durable THEN UNCHANGED rows ELSE rows' = <<>>
  BY CrashDrops
<1>2. UNCHANGED overtaken
  BY DEF Crash, DropCalls, Land
<1>3. \A slot \in DOMAIN rows' : slot \in DOMAIN rows /\ rows'[slot] = rows[slot]
  BY <1>1
<1>4. \A slot \in DOMAIN rows' : LinksTell(slot)'
  BY <1>1, <1>2, <1>3, LinksKept DEF LinksTold
<1>5. ASSUME NEW c \in DOMAIN calls
      PROVE  /\ \A slot \in DOMAIN rows' : calls'[c].pc = "begin" => ~Begun(slot, c)'
             /\ AnswerStands(c)'
  <2>1. /\ calls'[c].answer \in Settled => calls'[c].answer = calls[c].answer
        /\ calls'[c].pc = "begin" => calls[c].pc = "begin"
    BY <1>1 DEF Settled
  <2> QED
    BY <1>1, <1>3, <2>1, SameBegun, OthersStand
<1> QED
  BY <1>1, <1>4, <1>5 DEF LinksTold

\* The environment leaves every call and every link, and what it does to a
\* state is no outcome.
LEMMA StandingLinks ==
    ASSUME TypeInv, LinksTold, CallsStand, DOMAIN rows' = DOMAIN rows,
           \A slot \in DOMAIN rows :
              /\ rows'[slot].links = rows[slot].links
              /\ \/ rows'[slot].state.kind = rows[slot].state.kind
                 \/ /\ rows[slot].state.kind \notin Settled
                    /\ rows'[slot].state.kind \in {"outcome_unknown", "abandoned"}
    PROVE  LinksTold'
<1>1. UNCHANGED <<ledgerVars, calls>> /\ overtaken \subseteq overtaken'
  BY DEF CallsStand
<1>2. LedgerKeeps
  BY <1>1, TypeInvLedger, LedgerStays
<1>3. \A slot \in DOMAIN rows' : LinksTell(slot)'
  BY <1>1, <1>2, LinksKept DEF LinksTold
<1>4. ASSUME NEW c \in DOMAIN calls
      PROVE  /\ \A slot \in DOMAIN rows' : calls'[c].pc = "begin" => ~Begun(slot, c)'
             /\ AnswerStands(c)'
  <2>1. \A slot \in DOMAIN rows' : Begun(slot, c)' => Begun(slot, c)
    BY <1>1 DEF Begun, Linked, WalLink
  <2> QED
    BY <1>1, <2>1, OthersStand
<1> QED
  BY <1>1, <1>3, <1>4 DEF LinksTold

\* Every step keeps the links telling the story of their rows.
LEMMA LinksStep ==
    ASSUME TypeInv, WalHeld, RowsOwned, LinksTold, [Next]_vars
    PROVE  LinksTold'
<1>1. ASSUME NEW c, StepsAside(c) \/ Begins(c) \/ Works(c) \/ Settles(c)
      PROVE  LinksTold'
  BY <1>1, AsideLinks, BeginLinks, WorkLinks, SettleLinks
<1>2. ASSUME NEW p \in Procs, Crash(p) PROVE LinksTold'
  BY <1>2, CrashLinks
<1>3. ASSUME NEW p \in Procs, Open(p) PROVE LinksTold'
  <2>1. CallsStand
    BY <1>3, EnvironmentStands
  <2> QED
    BY <1>3, <2>1, OpenRecovers, StandingLinks DEF Settled
<1>4. CASE OperatorAbandons
  <2>1. CallsStand
    BY <1>4, EnvironmentStands
  <2>2. PICK slot \in DOMAIN rows :
           /\ rows[slot].state.kind = "outcome_unknown"
           /\ DOMAIN rows' = DOMAIN rows
           /\ \A other \in DOMAIN rows \ {slot} : rows'[other] = rows[other]
           /\ rows'[slot].links = rows[slot].links
           /\ rows'[slot].state.kind = "abandoned"
    BY <1>4, AbandonGivesUp
  <2> QED
    BY <2>1, <2>2, StandingLinks DEF Settled
<1>5. CASE TimePasses \/ UNCHANGED vars
  BY <1>5, EnvironmentStands, TimeStands, StandingLinks
<1> QED
  BY <1>1, <1>2, <1>3, <1>4, <1>5, EveryStep

-----------------------------------------------------------------------------
(* The invariant, and what follows from it.                                 *)

\* The invariant holds at first, when there is nothing, and every step keeps it.
THEOREM EffectInvariant == Spec => []EffectInv
<1>1. Init => EffectInv
  <2> SUFFICES ASSUME Init PROVE EffectInv
    OBVIOUS
  <2>1. TypeInv /\ WalHeld /\ LeasesHeld /\ DOMAIN calls = {} /\ DOMAIN rows = {}
    BY NothingAtFirst
  <2>2. Working = {} /\ overtaken = {}
    BY <2>1 DEF Working, Init
  <2>3. RowsOwned
    BY <2>1, <2>2 DEF RowsOwned, RowsNamed
  <2>4. LinksTold
    BY <2>1 DEF LinksTold
  <2> QED
    BY <2>1, <2>3, <2>4 DEF EffectInv
<1>2. EffectInv /\ [Next]_vars => EffectInv'
  BY TypeStep, RecordsStep, RowsStep, LinksStep, LeasesStep DEF EffectInv
<1> QED
  BY <1>1, <1>2, PTL DEF Spec

\* Every variable of the composition has its type, whatever its calls do.
THEOREM InvocationTypeCorrect == Spec => []InvocationTypeOK
<1>1. EffectInv => InvocationTypeOK
  BY DEF EffectInv, TypeInv
<1> QED
  BY <1>1, EffectInvariant, PTL

\* The invocation service calls the store only as the store's own module allows:
\* what is proved of the store holds of it in use.
THEOREM StoreImplemented == Spec => ImplementsStore
<1>1. Init => StoreInit
  BY NothingAtFirst
<1>2. EffectInv /\ [Next]_vars => [StoreNext]_storeVars
  BY NextIsStoreStep DEF EffectInv
<1> QED
  BY <1>1, <1>2, EffectInvariant, PTL DEF Spec, ImplementsStore, StoreSpec

\* No effect runs without a durable authorization record of its own before it.
THEOREM EffectsWriteAhead == Spec => []WriteAhead
<1>1. EffectInv => WriteAhead
  <2> SUFFICES ASSUME TypeInv, WalHeld PROVE WriteAhead
    BY DEF EffectInv
  <2>1. \A i \in 1..acked : i \in DOMAIN trail
    BY TypeInvLedger DEF LedgerOK
  <2>2. ASSUME NEW c \in Executing
        PROVE  /\ c \in DOMAIN calls /\ calls[c].wal # 0
               /\ calls[c].wal \in 1..acked
               /\ trail[calls[c].wal].type = "authorization"
               /\ trail[calls[c].wal].id = Id(c)
               /\ calls[c].wal \notin executed
    <3>1. c \in DOMAIN calls /\ calls[c].pc = "execute" /\ calls[c].wal # 0
      BY DEF Executing, TypeInv, CallsGood, GoodCall, WorkingPcs
    <3> QED
      BY <3>1 DEF WalHeld
  <2>3. \A i \in executed : i \in 1..acked /\ trail[i].type = "authorization"
    BY DEF WalHeld
  <2>4. \A c, d \in Executing : calls[c].wal = calls[d].wal => c = d
    BY <2>2 DEF WalHeld
  <2> QED
    BY <2>1, <2>2, <2>3, <2>4 DEF WriteAhead
<1> QED
  BY <1>1, EffectInvariant, PTL

\* In a scope that is still fenced, no abandoned call is at work.
LEMMA FencedScope ==
    ASSUME RowsOwned, NEW scope, Fenced(scope)
    PROVE  scope \notin overtaken
  BY DEF RowsOwned, Fenced

\* However often a request is made, resumed, cancelled, crashed on and retried,
\* its effect runs at most once under a row.
THEOREM RunAtMostOnce == Spec => []AtMostOnce
<1>1. EffectInv => AtMostOnce
  BY FencedScope DEF EffectInv, AtMostOnce, RowsOwned, RunsTold
<1> QED
  BY <1>1, EffectInvariant, PTL

\* A row that is shown as not begun, denied or ended is what it is shown as.
THEOREM StatusIsTrue == Spec => []StatusTellsTruth
<1>1. EffectInv => StatusTellsTruth
  <2> SUFFICES ASSUME RowsOwned, NEW slot \in DOMAIN rows, Fenced(slot[1])
               PROVE  /\ rows[slot].state.kind \in {"reserved", "suspended", "denied"} =>
                            runs[slot] = 0 /\ \A c \in Executing : Slot(c) # slot
                      /\ rows[slot].state.kind \in {"succeeded", "failed"} =>
                            runs[slot] = 1
    BY DEF EffectInv, StatusTellsTruth
  <2>1. slot[1] \notin overtaken /\ RunsTold(slot)
    BY FencedScope DEF RowsOwned
  <2>2. ASSUME NEW c \in Executing, Slot(c) = slot
        PROVE  rows[slot].state.kind \in {"pending", "outcome_unknown"}
    <3>1. c \in Working
      BY DEF Executing, Working, WorkingPcs
    <3> QED
      BY <2>1, <2>2, <3>1 DEF RowsOwned, OwnsRow
  <2> QED
    BY <2>1, <2>2 DEF RunsTold, Settled
<1> QED
  BY <1>1, EffectInvariant, PTL

\* Two effects never run at once in a scope, under whichever keys: each owns a
\* row that fences it, and the store keeps one of those per scope.
THEOREM EffectsExclude == Spec => []ExclusiveEffects
<1>1. EffectInv /\ ScopeFence => ExclusiveEffects
  <2> SUFFICES ASSUME RowsOwned, ScopeFence,
                      NEW c \in Executing, NEW d \in Executing,
                      Slot(c)[1] = Slot(d)[1], Fenced(Slot(c)[1])
               PROVE  c = d
    BY DEF EffectInv, ExclusiveEffects
  <2>1. c \in Working /\ d \in Working
    BY DEF Executing, Working, WorkingPcs
  <2>2. Slot(c)[1] \notin overtaken /\ Slot(d)[1] \notin overtaken
    BY FencedScope
  <2>3. /\ Slot(c) \in DOMAIN rows /\ Fences(rows[Slot(c)].state)
        /\ Slot(d) \in DOMAIN rows /\ Fences(rows[Slot(d)].state)
    BY <2>1, <2>2, OwnedFences DEF RowsOwned
  <2>4. Slot(c) = Slot(d)
    BY <2>3 DEF ScopeFence
  <2> QED
    BY <2>1, <2>2, <2>4 DEF RowsOwned
<1>2. Spec => StoreSpec
  BY StoreImplemented DEF ImplementsStore
<1> QED
  BY <1>1, <1>2, EffectInvariant, ScopeFenced, PTL

\* The outcome a row links was recorded under the authorization it links, and
\* says what the row says.
THEOREM OutcomesLinked == Spec => []OutcomesBelong
<1>1. EffectInv => OutcomesBelong
  <2> SUFFICES ASSUME RowsOwned, LinksTold,
                      NEW slot \in DOMAIN rows, Fenced(slot[1]),
                      NEW i \in DOMAIN rows[slot].links,
                      rows[slot].links[i].kind = "outcome"
               PROVE  OutcomeOwned(slot, rows[slot].links[i])
    BY DEF EffectInv, OutcomesBelong, OutcomeOwned, Settled
  <2> QED
    BY FencedScope DEF LinksTold, LinksTell, LinkTells
<1> QED
  BY <1>1, EffectInvariant, PTL

\* What a caller was told of its effect stays what the row says.
THEOREM AnswersHold == Spec => []AnswersStand
<1>1. EffectInv => AnswersStand
  BY DEF EffectInv, LinksTold, AnswerStands, Begun, WalLink, AnswersStand, Settled
<1> QED
  BY <1>1, EffectInvariant, PTL

\* A checkpoint is in flight exactly while one live resume holds its lease.
THEOREM LeasesHaveOwners == Spec => []LeasesOwned
<1>1. EffectInv => LeasesOwned
  <2> SUFFICES ASSUME LeasesHeld, NEW p \in Procs, NEW checkpoint \in Checkpoints
               PROVE  LET holders == {c \in Active : /\ HoldsLease(calls[c])
                                                     /\ LeaseOf(c) = <<p, checkpoint>>}
                      IN  IF leases[<<p, checkpoint>>] = "in_flight"
                            THEN Cardinality(holders) = 1
                            ELSE holders = {}
    BY DEF EffectInv, LeasesOwned
  <2> DEFINE holders == {c \in Active : /\ HoldsLease(calls[c])
                                        /\ LeaseOf(c) = <<p, checkpoint>>}
  <2>1. \A c \in holders : c \in DOMAIN calls
    BY DEF Active
  <2>2. \A c \in DOMAIN calls : HoldsLease(calls[c]) => c \in Active
    BY DEF HoldsLease, ActivePcs, Active
  <2>3. ASSUME leases[<<p, checkpoint>>] = "in_flight"
        PROVE  Cardinality(holders) = 1
    <3>1. PICK c \in DOMAIN calls : HoldsLease(calls[c]) /\ LeaseOf(c) = <<p, checkpoint>>
      BY <2>3 DEF LeasesHeld
    <3>2. holders = {c}
      BY <2>1, <2>2, <3>1 DEF LeasesHeld
    <3> HIDE DEF holders
    <3> QED
      BY <3>2, FS_Singleton
  <2>4. ASSUME leases[<<p, checkpoint>>] # "in_flight"
        PROVE  holders = {}
    BY <2>1, <2>4 DEF LeasesHeld
  <2> QED
    BY <2>3, <2>4
<1> QED
  BY <1>1, EffectInvariant, PTL
=============================================================================
