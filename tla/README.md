# Kiteframe, specified

TLA+ modules, TLC runs and TLAPS proofs for Kiteframe: the toolchain that locks
and compiles an agent package, the admission that turns its locked requirements
into grants, and the enforcement plane that decides whether a capability an
agent invokes may have its effect, and has to know afterwards whether it had it.

## The system

Kiteframe turns a declared agent package into a locked, resolved artifact
(Rust: `kiteframe-core`, `-contract`, `-resolver`), admits it against the
authority of the people and workloads it acts for, and then enforces every
single invocation at its point of use (`kiteframe-provider`). Python adapters
(`kiteframe`, `kiteframe_deepagents`) put admitted capabilities in front of a
language model as tools.

| Component | State it keeps | Operations | Hard behaviour | What makes it correct |
|---|---|---|---|---|
| Invocation store (`status.rs`, `kiteframe-provider-sqlite`) | one row per (scope, idempotency key); audit links; a trusted clock | `reserve_or_get`, `transition`, `status`, `abandon`; recovery on `open`; purge of expired rows | clock read before the lock; restart in mid-effect; two processes; retention | one unresolved row per scope; rows kept as long as promised; receipts account for states |
| Invocation service (`invocation.rs`) | map of suspended checkpoints with their leases; everything else is in a call's stack | `invoke`, `resume` (validate, suspend, `execute_effect`) | every `await` is an interleaving point; futures dropped; audit or store failing midway | authorize first, run at most once, alone in the scope; answers and records true |
| Audit ledger (`audit.rs`, `kiteframe-audit`) | append-only file per tenant, hash chained | `append`, `verify_partition` | crash in mid-line; sync failing after the write | an outcome belongs to an earlier authorization; receipts name durable entries |
| Admission (`admission.rs`, `authorization.rs`) | grant sets, in memory | `admit`, `load` | revisions read before the checks they vouch for | a grant never exceeds any authority plane, and is bound to the revisions it was checked under |
| Authority (`authority.rs`, `resource.rs`, `principal.rs`) | none (pure) | envelope intersection | many partial orders | the intersection is a lower bound of each envelope |
| Operation registry (`operation.rs`) | immutable table | `resolve`, preconditions | stale preconditions | only locked, effect-compatible operations run |
| OpenFGA client (`kiteframe-openfga`) | pinned store and model ids | `check`, `list_objects`, `revisions` | stale reads, pagination | a decision is as fresh as the grant demands |
| HTTP server (`kiteframe-provider-http`) | none | routes, authentication | request shapes | principals come from credentials only |
| Contract, schema (`kiteframe-contract`, `-schema`) | none | validated types | canonical digests, two notions of a resource's subset | a grant set answers its request and narrows its locks |
| Package loading (`kiteframe-core`) | none | `load_package`: a bounded depth-first walk over files | the author saves between two reads | one tree, no identity or file in it twice |
| Resolver and lock (`kiteframe-resolver`) | `capability.lock` of every package | `lock_package`, `verify_lock`, `write_lock_atomic`, `resolve_agent` | drift between package, lock and catalog; a crash or power loss in mid-write | a resolution is the one that was locked; lock files are whole |
| CLI (`kiteframe-cli`), Python binding (`kiteframe-py`) | none | `lock`, `compile`, `check`, `explain` | two commands on one tree | a compiled agent is of one package and its locks |
| Python provider client, registry | connections | HTTP calls | a timeout, while the provider is still at it | a request goes out once, its failure is told |
| Deep Agents tools and suspension (`tools.py`, `suspension.py`) | persisted idempotency keys, LangGraph checkpoints | tool call, interrupt, resume | replays of a node after an interrupt or a crash; one resume value for all tasks of a thread | one identity per task, one effect; evidence goes with the invocation it was given for |
| Deep Agents middleware, delegation | none beyond the session | tool filtering, child envelopes | authority changed across an await | a child's envelope narrows its parent's |

How they interact. An author locks and compiles a package tree: `lock` selects
the newest versions a catalog offers and replaces `capability.lock`; `compile`
loads the tree, reads the lock of every package in it, verifies each against
what it loaded and emits a resolved agent. A client presents its locks to
`POST /v1/capability-admissions`: the provider correlates the request with
verified credentials, asks the relationship store about every resource, and
intersects what six authority planes state into grants, kept in memory and
answered. Then, for each invocation, a client (HTTP or the Python
tools) calls `InvocationService::invoke`. `validate` loads the admission, checks
freshness, principals, evidence, preconditions and authorization. Missing
evidence suspends the invocation: a row in the store and a checkpoint in the
service's map, and a later `resume` presents that checkpoint. An effect goes
through `execute_effect`: reserve a row, append an authorization record,
compare-and-swap the row to pending, run the operation, append an outcome
record, swap the row to its final state. An operator may `abandon` a row whose
outcome nobody knows; `SqliteInvocationStore::open` puts every row that was
under way in doubt.

## Modules

| Module | Models |
|---|---|
| `EffectFence` | the abstract promise: a scope is a lock, with owners in doubt |
| `InvocationStore` | the store, both implementations (constant `Durable`) |
| `MCInvocationStore` | its symmetry for TLC |
| `AuditSink` | the ledger as an invocation sees it |
| `EffectInvocation` | service, store, ledger, processes and faults composed |
| `MCEffectInvocation` | requests, records and symmetry for TLC |
| `InvocationStoreProofs` | theorems about `InvocationStore`, for TLAPS |
| `FenceProofs` | the proof that the durable store implements `EffectFence` |
| `EffectProofs` | theorems about `EffectInvocation`, for TLAPS |
| `AuditLedger` | the file ledger: locks, lines, hashes, sync, power loss |
| `MCAuditLedger` | its threads and symmetry for TLC |
| `LedgerProofs` | theorems about `AuditLedger`, for TLAPS |
| `Authority` | selectors, grants, their intersection and subset relations, as operators |
| `Admission` | the admission service, await by await, with principals and the relationship client |
| `PointOfUse` | invocations over admission: every check of `validate`, suspension, resume, redeployment |
| `MCPointOfUse` | deployments, requests, credentials and relations for TLC |
| `AdmissionProofs` | selectors and intersection, and the invariant of admission, for TLAPS |
| `PointOfUseProofs` | theorems about `PointOfUse`, for TLAPS |
| `PackageTree` | the walk of `load_package` over a package's files |
| `CapabilityLock` | locking, verification of locks, resolution of an agent, as operators |
| `Toolchain` | `lock` and `compile` at work while files, catalog and machine change |
| `MCToolchain` | a package with a subagent, edits and catalogs for TLC |
| `ToolchainProofs` | theorems about `Toolchain`, for TLAPS |
| `CapabilityTool` | tool calls of the Deep Agents adapter, their suspension and replays, over HTTP and a provider's rows |
| `MCCapabilityTool` | its symmetry for TLC |
| `ToolProofs` | theorems about `CapabilityTool`, for TLAPS |

`EffectInvocation` is composed of `InvocationStore` and `AuditSink`,
`PointOfUse` of `Admission` and `Authority`, `Toolchain` of `CapabilityLock` and
`PackageTree`. `PointOfUse` and `EffectInvocation` are two views of one service:
the first has each check of `validate` and hands an effect over in one step; the
second has `execute_effect` step by step and leaves to a free choice which check
fails. They meet at `Dispatch`, where the first hands over what the second
reserves.

### InvocationStore

`rows` maps a slot `<<scope, key>>` to a record with the columns that decide
anything: id, request digest, status context, state, audit links, and the three
timestamps. Projections, result payloads and the abandonment record are left
out. A state is a kind and, for a suspension, its checkpoint: the SQLite store
compares the encoded state, so two suspensions at different checkpoints differ.

Every trait call is one atomic step, since the code holds a mutex or a
`BEGIN IMMEDIATE` transaction; but each call reads the clock before it gets
there, so `now` ranges over `Readings`, up to `ClockLag` ticks old. The three
answers of `reserve_or_get` are three actions (`ReserveNew`, `ReserveExisting`,
`ReserveRefused`), so that a caller can compose each with what it does next.
The two implementations differ in three places: a refused reservation rolls the
purge back in SQLite and keeps it in memory; abandonment uses the clock in
SQLite and `updated_at + 1` in memory; a restart recovers in SQLite and loses
everything in memory.

### EffectInvocation

A call is a record whose `pc` names the await it stands at; an action is what
the code does from one await to the next, with every early return. The ledger
is `AuditSink`, brought in by INSTANCE; `runs`, `executed` and `overtaken` are
history variables. `Land` is the operation itself: the effect happens between the call
to `operation.execute` and its return, and when a call is dropped there, the
effect may have happened or not.

Which of `validate`'s checks fails is a free choice of `ValidateRefuses`; only
the retry class of the answer is kept, because `finish_resume` keeps the
checkpoint for answers that can be retried. A resume may present the checkpoint
of another request (`Matches`); such a call can only be refused. Faults are a
constant: `crash` (a process dies; its map of leases with it), `cancel` (a
future is dropped at an await), `audit` (an append fails, with the entry
complete, absent, or torn), `storage` (a store call fails and its transaction
is rolled back).

A client draws a fresh invocation id for every new request (`tools.py` takes a
UUIDv7), and a proposal's digest covers the id: `InvocationAssumption` says that
neither belongs to two requests. Records are the sequence numbers there are; an
append beyond the last is refused, as an exhausted sequence is in the code.

With two processes on one database, the second one to open it puts what the
first is running in doubt, and an operator may then abandon it while it runs.
From there on that scope is open to other keys although the first call still has
its effect. `overtaken` remembers such scopes, and what is claimed about the
effects of a scope is claimed while it is `Fenced`: not overtaken, or there is one
process, to which this cannot happen (`RowsOwned` proves it).

Definitions marked `Faulty` are not used by the model. Each is a slip somebody
could make in the definition that follows it, and the project's checks
substitute it and expect a property to fail.

### AuditLedger

The state is what is on disk: per partition the complete lines, whether the file
ends within a line, and how many lines are synced; besides that, what each
thread is doing, and the receipts that were returned. An append goes through
`append_sync` call by call: the process's mutex for the partition, the lock on
the file (exclusive for an append, shared for `verify_partition`),
`read_and_verify` with the linkage check, the line, its end, the sync. Any of
them can fail, and a write can stop midway. Locks are not variables: `HoldsMutex`
and `HoldsFile` read off the `pc`s who holds one, which is what a guard that
falls with its scope amounts to, and a crash releases them of itself. A hash is
the tuple of what it is a hash of (no collisions), so chaining is structural
equality; nobody edits a file.

`SinkSpec` says that each partition, seen by callers, is the atomic `AuditSink`
that `EffectInvocation` is built over. An append becomes visible when its sync
ends or is given up, not when the line is written (`InSync`), and a partition is
torn when no live append stands within its line (`InLine`). `AuditSink` knows
how many entries are synced (`acked`), and `Forget` loses others: what a power
loss does. `EffectInvocation` takes `Forget` with the crash of its last process.

No counter overflows in the model: a sequence number is 64 bits wide in the
code and refused when exhausted.

### Authority and Admission

A selector is its segments and separators; a grant is a record of what
`EffectiveCapabilityGrant` holds. Effects, times and bounds on ages are numbers,
an absent requirement is `Unset`, lists that the code sorts and deduplicates are
sets, and a digest or an id is the record it stands for. `IntersectAuthority` is
the fold of `intersect_authority`, with its three outcomes: no grant, an error,
a grant. The contract and the provider have different notions of a subset of
resources, and both are there: `ContractSubset` (a trailing `:*` covers any text)
where requests and grant sets are validated, `SelectorSubset` (a wildcard is one
segment) everywhere else.

An admission under way is a record with a `pc`, as a call is in
`EffectInvocation`. `Admit` goes from the route to the first await: credentials,
correlation (at the time the grants are issued, which is what the code passes,
not at the time of the request), locks, the one-to-one mapping. Then come the
revisions, and for each requirement in turn a question to the relationship store
for each resource, each with its freshness check; `Decide` is the loop's body
after the answers; `Persist` validates the grant set against its request and
keeps it. A request that a guard refuses leaves no trace and is no step.
`Relate` changes the relationship store under it, `Tick` the clock, `Redeploy`
the planes: the provider stops, its memory is lost, and another deployment
starts. `answered` is what clients still hold from before.

One consequence of the two notions is worth knowing. `MeetIsGreatest` shows that
the provider's meet is exact; but where a meet is not covered by the request in
the contract's sense (the request says `case:*/note`, a plane says `case:c1/*`),
`ValidatesAgainst` refuses the whole grant set, and the admission fails for every
capability in it. That is the code's behaviour and no property is about it.

### PointOfUse

A use is an `invoke` or a `resume` under way. Its actions are the awaits of
`validate` in the order of the code: load and grant (`Validate`), principals
(`Verify`), revisions, freshness, resource and proposal (`CheckFreshness`),
evidence, a kind at a time (`CheckEvidence`), preconditions, the authorization
(`AskCheck`, `Evaluate`), and the last check with a clock read again
(`Dispatch`). The code reads the clock where the model does: `started` once, and
`now` at the question and at the dispatch. Missing evidence suspends an effect
(`PersistSuspension`, `Publish`); a resume takes the lease of the suspension in
memory, or restores it from the store after a redeployment (`Restore`,
`RestoreSuspension`, `TakeLease`). `Drop` is a future dropped at an await or an
await that fails.

Two variables are histories. `seen` collects, for a use that has asked, the
relations the store has held since its question; `dispatched` holds the last
dispatch, emptied when the next use begins. Of the invocation store only
suspended and handed-over rows are kept: its own steps are `InvocationStore`'s.

### PackageTree, CapabilityLock and Toolchain

A disk is a function from paths to files; a load opens one file at a time, so
that an edit can fall between any two reads. A frame of the walk is a package
being assembled, with the checks of `load.rs` where the code has them: folded
paths and identities seen so far, the depth, the bytes left. Digests are what
they digest. `portable_digest` puts prompts and skills of one path into one map
(`canonical.rs:36-69`), so a package whose prompt and skill are one file that
changes between the two reads has the digest of the skill's text twice; the model
has it so, and `CompiledAsLocked` claims nothing of such a prompt. A package keeps
its digest, and the set of packages below it (`nested`), so that no operator
recurs on the tree.

Two packages of one load can come from one directory: a manifest that delegates to
one file twice, or to itself, is opened again, and if the author has saved another
identity meanwhile the load goes on; its paths are registered already, as the same
entries. `LoadedSound` says "one directory, one file" of them and "never" of all
others.

`CapabilityLock` computes what the code computes: `LockOf`, `VerifyLock`,
`ResolvedAgent` and when each fails. A version requirement is the set of versions
it matches, and `TextOrder` is the order of identities as texts, in which version
10 comes before 8: the lock is searched in that order. What is sorted and has no
duplicates, as `lock_package` leaves it and `verify_capability_order` demands, is a
function from identities; that a package locks none twice is `LockedOnce`.

`Toolchain` runs commands. `lock` writes a temporary file, syncs it, renames it,
syncs the directory and reports; each is a step, and `PowerLoss` brings back any
lock of a directory since its last sync, torn if the file was not synced.
`compile` reads the lock of the root and then the children's, in any order.
`check` and `explain` change nothing and emit nothing that outlives them. The
binding, the target and the component catalog do not change during a run.

### CapabilityTool

A task is a LangGraph task that makes one tool call. Its node is a record whose
`pc` names the await that `CapabilityTool._arun` stands at: load a correlation or
generate one (`Correlate`), persist it for suspendable tools
(`PersistCorrelation`) and its idempotency key (`PersistKey`), send the
invocation or a status query (`Send`), take the answer in (`Receive`). An answer
"suspended" leads to the bridge (`Suspend`): without a resume value the task is
interrupted (`Interrupt`), with one that was given for another suspension the
run dies (`Raise`), with its own the invocation goes out again with the evidence
(`Present`). `Approve` is a person resolving the evidence and the checkpointer
accepting the write.

What survives the process are the checkpoint store (`correlations`, `keys`) and
LangGraph's checkpointer (`saved`, `interrupts`, `resume`, `resumes`). LangGraph
is not part of the repository. It is modelled as the adapter relies on it: a run
executes every task that is not saved from the start of its node; the value a
thread is resumed with goes to the first interrupted task that asks, and stays
with the task that took it; when a run ends or dies, any of the tasks that were
over may be saved or not.

At the other end a request goes through the provider: the row is reserved,
suspended, moved to pending and settled by compare-and-swap, as in
`EffectInvocation`, of which this is the part that rows and answers show. The
constant `Resumes` is the difference between two providers. With `TRUE` it is
the one that the adapter's tests play (`test_suspension.py`), which takes an
invocation with evidence as the resume of the suspended one. With `FALSE` it is
`EnforcedInvocationPlane`, which does not (see Findings). The theorems cover
both.

Faults are a constant again: the agent crashes, a message or a handler with its
connection is lost, the provider goes down and recovers, a write fails at either
end, a check of `validate` refuses. Left out: two tasks in one idempotency scope
(the fence between them is `ScopeFence`); the purge of settled rows, expiry of
evidence and of resume credentials, a second kind of evidence, each of which only
makes a request be refused or the row be there no more; and LangGraph's refusal of
a plain resume when several interrupts are pending, so that the model allows more
deliveries than the library does.

## Runs

| Run | Instance | Shows |
|---|---|---|
| `store_sqlite` | 2 scopes, 2 keys, 2 ids, 2 digests, clock lag 1, clock to 2 | type invariant, `ScopeFence`, `OneRowPerId` across scopes, `RetentionPromised`; resolved rows stay until their retention ends, unresolved ones for good; `EffectFence` implemented |
| `store_memory` | in-memory store, 1 scope, 2 contexts, 2 records, clock lag 1 | receipts account for states where refusals keep the purge |
| `effect_single` | 1 process, 3 calls, 2 rival requests, all four faults, clock to 1 | `WriteAhead`, `AtMostOnce`, `StatusTellsTruth`, `ExclusiveEffects`, `AnswersStand`, `OutcomesBelong` |
| `effect_pair` | 2 processes, 2 calls, 2 rival requests, crashes | `ExclusiveEffects` between processes; the composition implements `StoreSpec` |
| `effect_live` | 1 process, 3 calls of one request, crashes and dropped tasks, fairness | leases are owned, calls end, reservations settle |
| `effect_unrecorded` | 1 process, 1 call, crash | a violation: see Findings |
| `ledger` | 2 tenants, 1 id, 3 threads in 2 processes, 2 entries each, power loss | chains never fork, receipts stay true, no reader meets a live half-written line, outcomes answer authorizations of their own tenant; the file implements `AuditSink` |
| `authority` | 1 admission and 1 use at a time, 3 capabilities, 2 deployments, 2 humans, relations revoked and restored, clock to 2 | grants are the meet of all planes; what is dispatched is within every plane, as granted, with its own evidence, still related, and as suspended |
| `authority_age` | the same | a violation: see Findings |
| `toolchain` | 2 commands at a time, 3 in all, 1 edit of 5, 2 catalogs, power loss | loaded trees are sound, lock files whole, reported locks stay; a compiled agent is what was locked, with the versions selected then and models that suffice |
| `tools` | 2 suspendable tools and a restartable one in one graph, 4 requests, 2 faults of any kind, a provider that resumes | `EffectOncePerTask`, `ToldTruth`, `EvidenceForOwnSuspension` |
| `tools_approved` | a suspendable tool and another, no faults, the repository's provider | a violation: see Findings |

**Bounds.** Two keys in one scope are the fewest that can compete, two scopes
the fewest that an id can straddle. `Retention = 1` and a clock to 1 or 2 let a
row expire while others live. One reservation needs two calls to be raced and
three to be raced, dropped and retried. `ClockLag` is 0 in the composition: a
stale reading there makes a swap be refused, which the storage fault does as
well, and the store's own runs use lag 1. One checkpoint per request is enough
for a collision, since a retry of a suspended invoke may draw the same one.
For the ledger, three threads in two processes contend for both locks, and
two entries per tenant let an outcome be linked to a lost, an unsynced or a wrong
line, or to another tenant's of the same number.

`authority` has one use at a time because uses share only what they read, the
leases of suspensions, and rows; the proofs cover any number. Its instance is made for the cases that
matter: a plane with a wildcard against one with a name, a human plane that is
wider after a redeployment with unchanged revisions, a capability that one plane
allows and denies at once, a session plane that demands confirmation, a read with
an age bound of one tick, two humans behind one actor, a request that can never
be admitted, and an admission of the first deployment presented to the second.
With grants that live 2 or 3 ticks, evidence that lives 1 and a clock to 2,
expiry falls between any two checks.

`toolchain`: two commands are what a race takes, a third one compiles after the
race. The edits change a prompt and change it back, replace a child's prompt by a
link, add an overlapping requirement, and add a subagent with the identity of
another; the second catalog offers version 10, whose text sorts first.

`tools`: two suspendable tasks are what it takes to hand one's evidence to the
other, and the restartable one is the task without a gate. Two correlations per
task are enough for a second identity to show. Four requests are an invocation,
its replay, the resume and a status query of one task, or two tasks in
competition; two faults are, for instance, a lost answer and a crash. The
theorems have no bounds.

`AtMostOnce` and its like are checked with one process, where every scope is fenced
for good (`effect_single`); with two, `effect_pair` checks what the second process
endangers first, `ExclusiveEffects`, and the theorems cover any number. What
`Fenced` excludes does happen: with two processes and time, a row can be put in
doubt by the second, abandoned, expire and be reserved afresh while the first call
still runs, and the effect runs twice under one key. The wave-5 plan documents the
SQLite store as single-node only.

`CHECK_DEADLOCK FALSE` except for the ledger, which can always be called: a store
that nobody calls any more, with its clock at the bound, calls that are all done,
a toolchain whose commands and edits are used up, and tools whose requests are
used up or whose tasks are all saved, are legitimate ends.
`authority` can always redeploy, so that TLC could find no deadlock in it.

**Fairness.** `FairSpec` asks that a task that can go on is polled again (Tokio
does, and every await in the model is on an operation that returns), and that a
process that died is started again (`Open`), as a supervisor does. No client,
operator, crash or tick is forced. `CallsEnd` then holds. `ReservationsSettle`
holds with crashes, because `open` recovers. A call dropped at an await is the
exception it states: what that leaves reserved or pending waits for the next
restart, which nothing obliges to come. It is not claimed with failing audit or
storage, for the same reason. Nothing is claimed of the tools' progress: that a
person approves and that a run is started again is up to people.

## Proofs

`InvocationStoreProofs` proves for all scopes, keys, ids, digests, contexts,
checkpoints and records, every retention and clock lag, both stores:

| Theorem | Property |
|---|---|
| `TypeCorrect` | `TypeOK` |
| `ScopeFenced` | `ScopeFence` |
| `IdsNameRows` | `OneRowPerId` |
| `RowsAccounted` | `AuditTrail` |
| `RetentionKept` | `RetentionPromised` |
| `ResolvedKept` | `ResolvedUntilRetention`, if `Durable` |
| `UnresolvedKept` | `UnresolvedNeverDropped`, if `Durable` |
| `FenceImplemented` (`FenceProofs`) | `FenceSpec`, if `Durable` |

The only assumption is `StoreAssumption`: a positive retention, naturals for lag
and bound, and a `NoCheckpoint` that is no checkpoint and no id.

The argument. None of the properties is about one action; each says what a row
becomes over a step. So one lemma, `StoreStepShape`, goes through the actions
once and says: of every row, either it is gone (and was resolved and expired,
or the store is not durable), or it *follows* the row that stood there: same
identity, links extended, time not moved back, unresolved only if it was
unresolved before, still accounted for; and at most one slot holds a new row,
reserved in a scope with no unresolved row left and under an id not in use.
Each theorem is then an induction in which a step is one application of that
lemma. `TypeOK` is inductive as it stands and is the invariant the lemma needs.
`ScopeFence` is inductive over `TypeOK` because no row ever turns from resolved
to unresolved: the one fact `reserve_or_get` relies on without checking it.

`FenceImplemented` is the refinement. Under `ScopeFence` the owner of a scope and
its doubt can be read off one row (`OwnerIsUnresolved`), whatever `CHOOSE` would
pick. A purge changes neither (`PurgeIsStutter`); a reservation is `Take`, free
because the fence is looked up among the rows that survive the purge
(`ReserveIsTake`); a swap or an abandonment of an unresolved row is `Release` or
`FallInDoubt` (`ReplaceIsLockStep`); recovery brings any number of scopes into
doubt at once (`RecoveryIsDoubt`), which is why `FallInDoubt` takes a set. The
in-memory store does not implement the lock: `Lose` forgets every owner.

`EffectProofs` is about the composition: any processes, calls and requests, either
store, every combination of crashes, dropped tasks and failing appends and writes:

| Theorem | Property |
|---|---|
| `EffectInvariant` | the inductive invariant `EffectInv` |
| `InvocationTypeCorrect` | `InvocationTypeOK` |
| `StoreImplemented` | `ImplementsStore` |
| `EffectsWriteAhead` | `WriteAhead` |
| `RunAtMostOnce` | `AtMostOnce` |
| `StatusIsTrue` | `StatusTellsTruth` |
| `EffectsExclude` | `ExclusiveEffects` |
| `OutcomesLinked` | `OutcomesBelong` |
| `AnswersHold` | `AnswersStand` |
| `LeasesHaveOwners` | `LeasesOwned` |

They assume `StoreAssumption` and `InvocationAssumption`. No bound, no fairness.

The argument. None of these properties is inductive: which effect may run depends
on the row, the ledger and every other call. `EffectInv` has five parts. `TypeInv`:
what a call carries fits where it stands, and calls under way are those of
processes that run. `WalHeld`: a receipt that a call holds is of a synced record
that says what it should, and no two calls hold the same authorization. So it
stays true whatever is appended, torn or forgotten (`SyncedStays`). `RowsOwned`,
the heart: between the swap to pending and its end a call is the only one at work
on its row, which is pending or in doubt, names the call's authorization and has
seen exactly the runs that the call's place says. It holds because the swap is
compared and because every way in which a row stops being unresolved (an outcome, an
abandonment, a purge) is the owner's own, or marks the scope overtaken, or spares
unresolved rows. `LinksTold`: an outcome on a row was recorded under an
authorization on the same row, a reserved or suspended row has no links, and what
was answered is what the row says; a settled row is never written again.
`LeasesHeld`: a lease in flight has one holder, any other none.

The actions are sorted into kinds first (`EveryStep`): a call does something aside
of the effects (`StepsAside`: it purges, reserves, suspends, appends its
authorization), begins (`Begins`), works (`Works`) or settles (`Settles`); a process
crashes or opens the store; an operator abandons; time passes. Each part of the
invariant is then kept by each kind, in one lemma per kind (`AsideRows`, `BeginRows`,
`WorkRows`, `SettleRows`, `CrashRows`, ...), and the three parts that do not depend on
rows need only `CallStep`, what all steps of one call have in common.

`StoreImplemented` lifts the store's theorems: `EffectsExclude` takes `ScopeFenced`
through it. Two effects in one scope would own two unresolved rows of it.

`LedgerProofs` is about any partitions, processes, threads, ids and outcomes, and
files of any length (`MaxEntries` plays no part in it):

| Theorem | Property |
|---|---|
| `LedgerInvariant` | the inductive invariant `LedgerInv` |
| `ChainsVerify` | `ChainsHold` |
| `ReceiptsKept` | `ReceiptsStand` |
| `LinesReadWhole` | `ReadersSeeWholeLines` |
| `OutcomesAnswerOwn` | `OutcomesOfOwnTenant` |
| `SinkImplemented` | `SinkSpec` |

Its only assumption is `LedgerAssumption`, and of that only what outcomes there are.
`ChainsHold` is not inductive: an append reads and verifies the file several calls
before it writes. `Exclusive` (an append that holds the file's lock is alone) and
`InHand` bridge them: at the line and its end, the entry in hand is the one that
would be made of the file as it is now, and at the sync it is the file's last line.
A crash drops the lock with the hand that held it, so nothing stale is ever
written. `ReceiptsSynced` makes every receipt one of a synced line, which a power
loss cuts no further than. The proof never needs the process's mutex: the file's
lock, which belongs to the open handle, excludes threads of one process as well.
Hashes nest without end, so no set of entries is at hand; `IsSeq` says that a file
is a sequence without one, and the lemmas on `Append` and `SubSeq` are stated over
it. For the refinement, every step is one of the sink's or none, partition by
partition: `SinkTakes` (a sync that ends, or a call that fails or dies after its
line was whole), `SinkTears` (one that fails or dies within its line),
`SinkForgets` (power loss), `SinkStutters` (all else). `EntryTaken` is where the
linkage by receipt becomes the sink's linkage by number: in a verified file a
receipt of a line bears the line's number.

`AdmissionProofs` and `PointOfUseProofs` are about any
deployments, requests, credentials and relations, any bounds, and any number of
admissions and uses under way:

| Theorem | Says |
|---|---|
| `MeetIsGreatest` | the meet of two selectors reaches exactly the concrete resources that both reach |
| `MeetOfSetsIsGreatest` | the same of two sets of selectors |
| `FoldIsGreatest` | the same of any finite family of sets, folded in any order |
| `IntersectionNarrows` | a grant is within the limits of every term it was made of, none of which is a deny |
| `IntersectionReaches` | a grant reaches exactly what the locked requirement and all of its terms reach |
| `AdmissionInvariant` | grants, collected or kept, are within every plane of the running deployment (`OfPlanes`) and reach exactly what the request, its lock and all planes reach (`ReachesTheMeet`) |
| `GrantsKeptAreMeets` | `GrantsAreMeets` |
| `OnlyWithinAuthority` | `DispatchedWithinAuthority` |
| `OnlyAsGranted` | `DispatchedAsGranted` |
| `OnlyWithEvidence` | `EvidenceBound` |
| `OnlyWhileRelated` | `RevokedNeverDispatched` |
| `OnlyAsSuspended` | `ResumedAsSuspended` |

They assume `AdmissionAssumption`: what the constructors of deployments and
requests enforce (`WellDeployed`, `WellRequested`), the types of their numbers and
selectors, and that a deployment has finitely many sources and terms; and
`UseAssumption`, that clients name resources by selectors.

The argument goes bottom up. A grant is a fold over terms; all its parts but the
resources are minima, intersections or unions, so `IntersectionNarrows` follows
from what a minimum is (`TightestIsTight`). The resources are a fold proper,
`FoldFunction(MeetAll, ...)`, and the induction over the family is by a first
counterexample: `FoldExists` shows that the recursive function behind the fold is
there (a size of which it is not would have a least one, `MinOfNaturals`), and
`FoldIsGreatest` that a smallest set of indices at which it is wrong cannot be,
since removing one index is one `MeetOfSetsIsGreatest`. In an admission the
terms are the planes' (`GrantedOfPlanes`, `FinitelyManyTerms`): every plane must
have said something of the capability and nothing it said is a deny.
`GrantedReaches` turns "every term" into what the property says of the request,
the lock and the planes; that no other entry or lock of the request is of the same
capability is what the guards of `Admit` established several awaits before
(`Mapped`, part of the invariant). The invariant has to cover the grants
that an admission has collected between two awaits as well as those kept, and it
survives a redeployment only because that discards both.

The properties of `PointOfUse` are about one step, the dispatch, and rest on
checks made several awaits earlier. The invariant `Sound` says for each later
`pc` what is left of each check: that the admission is there and its revisions
are the provider's, that resource and proposal stand, which kinds of evidence
have been verified so far (`VerifiedFor`, which grows as `left` shrinks), and that
the relations collected since the question include the one that allowed it.
`UseMoves` shows that one use moves along while all others stay sound, provided
the step takes nothing away (`Steady`: admissions only grow, deployment and
relations stay); revocation and redeployment are the two steps that do, and are
treated apart. Time needs no part in it: what expires is checked once more at
dispatch, except the admission's age, which is the finding below.

`ToolProofs` is about any tasks, requests and faults, without bounds, and both
providers:

| Theorem | Property |
|---|---|
| `ToolInvariantHolds` | the inductive invariant `ToolInvariant` |
| `OneEffectPerTask` | `EffectOncePerTask` |
| `TruthTold` | `ToldTruth` |
| `EvidenceKept` | `EvidenceForOwnSuspension` |

Its only assumption is `ToolAssumption`: types of the bounds and a `None` that is
nothing else. The argument is about identity. `Keyed`: once a correlation is
persisted, every node, request and row of the task has that one, because a load
prefers it and the first await that follows a new one writes it. So all requests
of the task are about one row (`OneRow`). `Effected`: the swap to pending is
compared, so one request of the row is at work (`OneAtWork`), and the count of
effects can be read off the row and the place of that request (`WorkIsPending`,
`EffectsStored`); an answer of success or failure is a state that no step leaves,
which is why it is still true when it reaches the tool (`OutcomesStored`,
`AnswersStored`). `Suspended`: a row is suspended at most once, so evidence that
matches the answer at hand matches the row for good (`EvidenceHeld`). Steps of
the provider are alike in all that does not concern their own request and row
(`CallsServed`, `RowsServed`), and steps of the agent leave rows alone; the lemmas
about both are stated once for each.

`ToolchainProofs` is about any files, trees of packages, edits, catalogs, bindings
and components, any limits, and any number of commands, kills and power losses:

| Theorem | Property |
|---|---|
| `ToolchainInvariant` | the inductive invariant `ToolchainInv` |
| `LoadsAreSound` | `LoadedSound` |
| `LocksAreWhole` | `LocksWhole` |
| `ReportsLast` | `ReportedLocksStay` |
| `CompiledIsLocked` | `CompiledAsLocked` |
| `SelectionIsKept` | `SelectionKept` |
| `ModelsDoSuffice` | `ModelsSuffice` |

It assumes `ToolchainAssumption`, that manifests are lists of paths and
requirements and catalogs are finite, each descriptor under its name and a version
(what parsing and `validate_catalog` make sure of), and `OrderAssumption`, that
`TextOrder` is a sequence. No bound plays a part.

The argument has three parts. A load: `Entered` says of a walk under way that no
two of its frames and finished packages have one identity, that all of their
references are registered and none collide (`IsLoad`), and that what was read is
what the manifest, as it was read, refers to (`ReadSoFar`); the disk is no part of
it, so edits keep it. Each way a step of the load goes has a lemma
(`OpenedSound`, `ReadReferenceSound`, `LoadedWhole`, `ChildKept`), and `LoadStepSound`
joins them. The lock files: `Made` ties a lock to the sealed package and the catalog
it was made from, `LockStands` says it of every lock a power loss may bring back and
bounds their generations from below by what was reported; a command may only report
a generation that is visible, or older than the visible one. The resolution: what
was emitted was resolved with locks that were made (`EmittedStands`), so the theorems
about it are about operators. `DigestTells`: packages of one digest have the same
manifest and texts. `NewestTaken`: the first match of a lock in text order is the
newest in the catalog, although text order is not the order of versions. Suppose
some requirement misses its newest, and take the newest version so missed. It is
locked, so some other requirement finds it (`CapabilitiesMet`); that one's own newest
is newer, since no identity is locked twice, and is therefore not missed; but a
requirement finds only one.
`NewestExists` and `LeastOfNaturals` are the inductions on finite sets it takes.

Only model-checked: liveness (`CallsEnd`, `ReservationsSettle`), which is out of
the prover's reach.

## Findings

`effect_unrecorded`: `recover_incomplete_effects`
(`kiteframe-provider-sqlite/src/lib.rs:104-127`) settles rows as outcome_unknown
and appends nothing to the ledger. The design document
(`docs/superpowers/specs/2026-07-25-kiteframe-declarative-agent-harness-design.md:967-968`)
says the provider appends an outcome record after execution. After a crash
between effect and append, the ledger holds an authorization with no outcome
for good. The run shows the shortest such history.

`authority_age`: `validate_freshness` (`invocation.rs:1673-1706`) compares the
admission's age with the clock that `validate` read at its start. The last check
before an operation runs, `validate_final_point_of_use` (`1760-1787`), reads the
clock again and rechecks grant set, grant, credentials and evidence, but not the
age. The wave-5 plan
(`docs/superpowers/plans/2026-07-25-kiteframe-v1-wave-5-enforcement-plane.md:25`)
says "Policy that is older than the descriptor/admission freshness requirement
fails with `KF-AUTH-004`." The run shows a read dispatched under an admission that
grew too old between the two checks.

`tools_approved`: the route for invocations calls `InvocationService::invoke`
(`kiteframe-provider-http/src/routes.rs:93`), and nothing in the servers calls
`resume`. The adapter resumes by sending the invocation again, with evidence
(`suspension.py:865-914`); a request has no field for a checkpoint. Validated as a
new invocation, it finds its own row suspended, which `execute_effect` answers
with deferred (`invocation.rs:785-790`, `1342-1354`); a replay without the evidence
is issued another checkpoint, which `persist_suspension` refuses
(`1018-1022`). The design document (`:637-638`) says "`suspendable`: may return a
durable confirmation, approval, or consent suspension that is resumed from a
checkpoint." The run shows a tool call that was approved, met no failure, and
ended without its effect.

Observations that are not runs:

- The design document (`:656-660`) demands a status query after a transport
  failure and no new key until the outcome is resolved. `_arun` answers
  `PROVIDER_UNAVAILABLE` at once (`tools.py:710`); a further call of the tool is
  another task with another key. Which call is a retry is known only to the
  language model, so no property of the program is stated.
- A store that can persist keys but not load them gives a replay a new key. Such
  tasks are in neither `Gated` nor `Restartable`, and nothing is claimed of them.
- `persist_suspension` refuses the suspension of a read-only capability, while
  the adapter's test `test_read_only_restart_uses_new_checkpointer_and_same_invocation`
  assumes that one can be suspended.
- An abandoned row is projected as denied (`status.rs:769-806`), also when the
  effect happened. `ToldTruth` is therefore about success and failure only.

## Not modelled

Of what has a module: tampering with the ledger's file, and the directory entry of
a new one (which the code never syncs); overflow of timestamps; a clock that steps
backwards (refused by the stores); a service without an enforcement plane (refuses
effects); portable projections and events. A failing SQLite call is taken to leave
its transaction rolled back. Operations' schemas of arguments and of resource
selectors; `OperationRegistry::execute`, a path to operations that checks the
preconditions after the authorization and that none of the repository's servers
calls. Limits on the sizes of requests, tracing, and the wording and order of
diagnostics. Of the toolchain: YAML and its limits, symbolic links other than as a
file that is refused, `lock --output`, `verify_catalog` and the policies for
candidates, which no command calls, and the file that `compile` writes its output
to, a plain write that nothing reads back.

Without a module:

- the JSON schema generator and the encodings of contract types: functions from
  data to text, with golden tests of their own;
- the Python binding: it validates documents that others made and keeps no state;
- the Deep Agents guard, which filters the tools and messages of a model call by
  the session's grants and keeps no state of its own; it reads authority, tools
  and clock around two awaits, and what it lets through too late meets the
  provider's checks, which `PointOfUse` has one by one;
- the Deep Agents delegation, which builds child agents when they are constructed;
  what a provider accepts of a delegation is `WellDelegated` in `Admission`.

## Plan

Done so far: the store, the ledger, the effect protocol over both; admission,
authority and the point of use; the toolchain; the capability tools. Next, in
this order:

1. **Guard** and **Delegation**: authority read around awaits; a child's envelope
   within its parent's, with `Authority`'s operators as the reference.
2. **PointOfUse** over **EffectInvocation**: `Dispatch` refined by
   `execute_effect`, which needs a smaller instance of both; and the rows of
   `CapabilityTool` as a refinement mapping of that composition.

Every safety property of the runs has its theorem. Those of the modules to come
are the theorems still to prove.
