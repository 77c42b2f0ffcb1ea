----------------------------- MODULE AuditLedger ------------------------------
(***************************************************************************)
(* The file ledger of kiteframe-audit (chain.rs): one append-only file per   *)
(* partition, its lines chained by hashes, written by threads of several     *)
(* processes under a mutex per process and partition and a lock on the file. *)
(*                                                                          *)
(* A hash is modelled by what it is a hash of, so that two hashes are equal  *)
(* just when everything they cover is.  The locks are guards that fall with  *)
(* the call that holds them: who holds one is read off the callers' pcs.     *)
(*                                                                          *)
(* Definitions marked Faulty are wrong on purpose, as in InvocationStore.    *)
(***************************************************************************)
EXTENDS Integers, Sequences, FiniteSets

CONSTANTS
    Partitions,     \* tenants, each with a file of its own
    Ids,            \* invocation ids, standing for every correlation field
    Outcomes,       \* the outcomes callers report
    Procs,          \* processes with the ledger's directory open
    Threads,        \* their threads, each a process and a name
    NoReceipt,      \* the write-ahead link of an authorization
    MaxEntries      \* bound on the entries of all files, for model checking

ASSUME LedgerAssumption ==
    /\ Outcomes \subseteq {"succeeded", "failed", "outcome_unknown"}
    /\ \A t \in Threads : t[1] \in Procs
    /\ MaxEntries \in Nat

VARIABLES
    file,           \* the complete lines of each partition
    partial,        \* the partitions whose file ends within a line
    synced,         \* how many lines of each partition are synced to disk
    jobs,           \* what each thread is doing
    receipts        \* the receipts ever returned

vars == <<file, partial, synced, jobs, receipts>>

-----------------------------------------------------------------------------
(* Records, entries, receipts.                                              *)

Zero == <<>>

RecordHash(partition, sequence, previous, record) ==
    <<partition, sequence, previous, record>>

Receipt(partition, sequence, hash) ==
    [partition |-> partition, sequence |-> sequence, hash |-> hash]

ReceiptOf(partition, entry) == Receipt(partition, entry.sequence, entry.hash)

\* Callers link an outcome to a receipt they were given, not always the right
\* one.
RecordsFor(tenant) ==
    [type : {"authorization"}, tenant : {tenant}, id : Ids,
     writeAhead : {NoReceipt}, outcome : {"none"}]
        \cup [type : {"outcome"}, tenant : {tenant}, id : Ids,
              writeAhead : receipts, outcome : Outcomes]

\* Faulty: any authorization will do.
LinksSomewhere(partition, record, prior) ==
    /\ record.tenant = partition
    /\ record.type = "outcome" =>
          \E i \in DOMAIN prior : prior[i].record.type = "authorization"

\* Faulty: the authorization is looked up by its number alone.
LinksByNumber(partition, record, prior) ==
    /\ record.tenant = partition
    /\ record.type = "outcome" =>
          \E i \in DOMAIN prior :
              /\ prior[i].sequence = record.writeAhead.sequence
              /\ prior[i].record.type = "authorization"
              /\ prior[i].record.id = record.id

\* validate_record_linkage.
Links(partition, record, prior) ==
    /\ record.tenant = partition
    /\ record.type = "outcome" =>
          \E i \in DOMAIN prior :
              /\ ReceiptOf(partition, prior[i]) = record.writeAhead
              /\ prior[i].record.type = "authorization"
              /\ prior[i].record.id = record.id

PreviousHash(lines) ==
    IF lines = <<>> THEN Zero ELSE lines[Len(lines)].hash

NextEntry(partition, record) ==
    LET sequence == Len(file[partition]) + 1
        previous == PreviousHash(file[partition])
    IN  [sequence |-> sequence, previous |-> previous, record |-> record,
         hash |-> RecordHash(partition, sequence, previous, record)]

\* What read_and_verify demands of the complete lines.
Verified(partition, lines) ==
    \A i \in DOMAIN lines :
        LET before == SubSeq(lines, 1, i - 1)
        IN  /\ lines[i].sequence = i
            /\ lines[i].previous = PreviousHash(before)
            /\ lines[i].hash = RecordHash(partition, i, lines[i].previous,
                                          lines[i].record)
            /\ Links(partition, lines[i].record, before)

\* read_and_verify.
Readable(partition) ==
    partition \notin partial /\ Verified(partition, file[partition])

-----------------------------------------------------------------------------
(* Locks.                                                                   *)

Idle == [pc |-> "idle"]

At(t, pc) == jobs[t].pc = pc

\* with_partition_lock: the process's mutex is taken before, and released
\* after, the file's own lock.
HoldsMutex(t, partition) ==
    /\ ~At(t, "idle") /\ ~At(t, "mutex")
    /\ jobs[t].partition = partition

HoldsFile(t, partition) ==
    HoldsMutex(t, partition) /\ ~At(t, "lock")

GoTo(t, pc) == jobs' = [jobs EXCEPT ![t].pc = pc]

\* The call returns and its guards fall.
Release(t) == jobs' = [jobs EXCEPT ![t] = Idle]

-----------------------------------------------------------------------------
(* append and verify_partition.                                             *)

Job(op, partition, record) ==
    [pc |-> "mutex", op |-> op, partition |-> partition, record |-> record]

Appending(partition) ==
    {t \in Threads : /\ ~At(t, "idle")
                     /\ jobs[t].op = "append"
                     /\ jobs[t].partition = partition}

StartAppend(t) ==
    /\ At(t, "idle")
    /\ \E partition \in Partitions : \E record \in RecordsFor(partition) :
          /\ Len(file[partition]) + Cardinality(Appending(partition)) < MaxEntries
          /\ jobs' = [jobs EXCEPT ![t] = Job("append", partition, record)]
    /\ UNCHANGED <<file, partial, synced, receipts>>

StartVerify(t) ==
    /\ At(t, "idle")
    /\ \E partition \in Partitions :
          jobs' = [jobs EXCEPT ![t] = Job("verify", partition, NoReceipt)]
    /\ UNCHANGED <<file, partial, synced, receipts>>

TakeMutex(t) ==
    /\ At(t, "mutex")
    /\ \A u \in Threads :
          u[1] = t[1] => ~HoldsMutex(u, jobs[t].partition)
    /\ GoTo(t, "lock")
    /\ UNCHANGED <<file, partial, synced, receipts>>

\* Faulty: verification reads without the shared lock.
LockFileToAppendOnly(t) ==
    /\ At(t, "lock")
    /\ jobs[t].op = "append" =>
          \A u \in Threads : ~HoldsFile(u, jobs[t].partition)
    /\ GoTo(t, "read")
    /\ UNCHANGED <<file, partial, synced, receipts>>

\* Faulty: the file is locked by readers alone.
LockFileToVerifyOnly(t) ==
    /\ At(t, "lock")
    /\ jobs[t].op = "verify" =>
          \A u \in Threads :
              HoldsFile(u, jobs[t].partition) => jobs[u].op = "verify"
    /\ GoTo(t, "read")
    /\ UNCHANGED <<file, partial, synced, receipts>>

\* file.lock excludes every other holder, file.lock_shared only appends.
LockFile(t) ==
    /\ At(t, "lock")
    /\ \A u \in Threads :
          HoldsFile(u, jobs[t].partition) =>
             jobs[t].op = "verify" /\ jobs[u].op = "verify"
    /\ GoTo(t, "read")
    /\ UNCHANGED <<file, partial, synced, receipts>>

\* read_and_verify, then for an append the linkage and the entry to write.
Read(t) ==
    /\ At(t, "read")
    /\ LET partition == jobs[t].partition
       IN  IF /\ jobs[t].op = "append"
              /\ Readable(partition)
              /\ Links(partition, jobs[t].record, file[partition])
             THEN jobs' = [jobs EXCEPT
                      ![t] = [pc |-> "line", op |-> "append",
                              partition |-> partition,
                              entry |-> NextEntry(partition, jobs[t].record)]]
             ELSE Release(t)
    /\ UNCHANGED <<file, partial, synced, receipts>>

\* Opening, locking or reading the file fails.
ReadFails(t) ==
    /\ At(t, "lock") \/ At(t, "read")
    /\ Release(t)
    /\ UNCHANGED <<file, partial, synced, receipts>>

\* The line is written without its end, perhaps in part ...
WriteLine(t) ==
    /\ At(t, "line")
    /\ partial' = partial \cup {jobs[t].partition}
    /\ GoTo(t, "newline") \/ Release(t)
    /\ UNCHANGED <<file, synced, receipts>>

\* ... and then its end.
WriteNewline(t) ==
    /\ At(t, "newline")
    /\ \/ /\ file' = [file EXCEPT ![jobs[t].partition] =
                         Append(@, jobs[t].entry)]
          /\ partial' = partial \ {jobs[t].partition}
          /\ GoTo(t, "sync")
       \/ Release(t) /\ UNCHANGED <<file, partial>>
    /\ UNCHANGED <<synced, receipts>>

\* Faulty: a flush is taken for durable.
SyncIsFlush(t) ==
    /\ At(t, "sync")
    /\ LET partition == jobs[t].partition
       IN  receipts' = receipts \cup {ReceiptOf(partition, jobs[t].entry)}
    /\ Release(t)
    /\ UNCHANGED <<file, partial, synced>>

Sync(t) ==
    /\ At(t, "sync")
    /\ \/ LET partition == jobs[t].partition
          IN  /\ synced' = [synced EXCEPT ![partition] = Len(file[partition])]
              /\ receipts' = receipts \cup {ReceiptOf(partition, jobs[t].entry)}
       \/ UNCHANGED <<synced, receipts>>
    /\ Release(t)
    /\ UNCHANGED <<file, partial>>

-----------------------------------------------------------------------------
(* Crashes.                                                                 *)

\* A process dies; the system closes its files and so drops its locks.
Crash(p) ==
    /\ jobs' = [t \in Threads |-> IF t[1] = p THEN Idle ELSE jobs[t]]
    /\ UNCHANGED <<file, partial, synced, receipts>>

\* The machine goes down, and with every process dead the end of a file that
\* was never synced may be lost, or part of a line be left of it.
PowerLoss(partition) ==
    /\ \A t \in Threads : At(t, "idle")
    /\ \E kept \in synced[partition]..Len(file[partition]) :
          /\ file' = [file EXCEPT ![partition] = SubSeq(@, 1, kept)]
          /\ \/ partial' = partial \ {partition}
             \/ /\ partition \in partial \/ kept < Len(file[partition])
                /\ partial' = partial \cup {partition}
    /\ UNCHANGED <<synced, jobs, receipts>>

-----------------------------------------------------------------------------
Init ==
    /\ file = [partition \in Partitions |-> <<>>]
    /\ partial = {}
    /\ synced = [partition \in Partitions |-> 0]
    /\ jobs = [t \in Threads |-> Idle]
    /\ receipts = {}

Step(t) ==
    \/ StartAppend(t) \/ StartVerify(t)
    \/ TakeMutex(t) \/ LockFile(t) \/ Read(t) \/ ReadFails(t)
    \/ WriteLine(t) \/ WriteNewline(t) \/ Sync(t)

Next ==
    \/ \E t \in Threads : Step(t)
    \/ \E p \in Procs : Crash(p)
    \/ \E partition \in Partitions : PowerLoss(partition)

Spec == Init /\ [][Next]_vars

-----------------------------------------------------------------------------
(* Properties.                                                              *)

\* Whatever processes write, crash or lose, the complete lines of every file
\* verify: they are numbered, chained and linked without a gap or a fork.
ChainsHold == \A partition \in Partitions : Verified(partition, file[partition])

\* A receipt, once returned, names a line that stays: neither another process,
\* a crash nor a power loss takes it away or puts another in its place.
ReceiptsStand ==
    \A receipt \in receipts :
        LET lines == file[receipt.partition]
        IN  /\ receipt.sequence \in DOMAIN lines
            /\ lines[receipt.sequence].hash = receipt.hash

\* An outcome answers one authorization of its own tenant, in full: a receipt
\* that another tenant was given for the same number does not stand in for it.
OutcomesOfOwnTenant ==
    \A partition \in Partitions :
        LET lines == file[partition]
            AnsweredBy(record, before) ==
                \E j \in DOMAIN before :
                    /\ before[j].hash = record.writeAhead.hash
                    /\ before[j].record = [record EXCEPT
                           !.type = "authorization", !.writeAhead = NoReceipt,
                           !.outcome = "none"]
        IN  \A i \in DOMAIN lines :
               lines[i].record.type = "outcome" =>
                  AnsweredBy(lines[i].record, SubSeq(lines, 1, i - 1))

\* Nobody reads a file while a live append stands within its line: a line is
\* only ever found incomplete after a crash or a failed write.
ReadersSeeWholeLines ==
    \A t, u \in Threads :
        At(t, "read") /\ At(u, "newline") =>
            jobs[t].partition # jobs[u].partition

\* The ledger as an invocation sees it.  An append takes place when its sync
\* ends, or when it is given up.
InSync(partition) ==
    \E t \in Threads : At(t, "sync") /\ jobs[t].partition = partition

InLine(partition) ==
    \E t \in Threads : At(t, "newline") /\ jobs[t].partition = partition

Abstract(entry) ==
    LET record == entry.record
    IN  [type |-> record.type, id |-> record.id,
         writeAhead |-> IF record.type = "outcome"
                          THEN record.writeAhead.sequence ELSE 0,
         outcome |-> record.outcome]

Trail(partition) ==
    LET lines == file[partition]
        length == IF InSync(partition) THEN Len(lines) - 1 ELSE Len(lines)
    IN  [i \in 1..length |-> Abstract(lines[i])]

Sink(partition) == INSTANCE AuditSink WITH
    Records <- Nat \ {0},
    trail <- Trail(partition),
    torn <- partition \in partial /\ ~InLine(partition),
    acked <- synced[partition]

\* Every partition, with its locks, hashes and half-written lines, is to its
\* callers the atomic sink that the invocation service is modelled over.
SinkSpec ==
    /\ \A partition \in Partitions : Sink(partition)!AuditInit
    /\ [][\A partition \in Partitions :
             \/ Sink(partition)!AuditNext
             \/ UNCHANGED Sink(partition)!auditVars]_vars

=============================================================================
