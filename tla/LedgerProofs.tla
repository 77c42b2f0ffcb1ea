----------------------------- MODULE LedgerProofs -----------------------------
(***************************************************************************)
(* What holds of the file ledger for every set of partitions, processes,     *)
(* threads, ids and outcomes, whatever crashes and is lost.                  *)
(*                                                                          *)
(* First what appending to a file and cutting its end off do to a chain;     *)
(* then one lemma per step, and with them that every partition is, to its    *)
(* callers, the atomic sink of AuditSink.                                    *)
(***************************************************************************)
EXTENDS AuditLedger, SequenceTheorems, TLAPS

-----------------------------------------------------------------------------
(* The inductive invariant.                                                 *)

\* A sequence of some set's elements: hashes nest without end, so that no set
\* of entries is at hand to say it with.
IsSeq(s) == s \in Seq({s[i] : i \in DOMAIN s})

\* The shape of the variables.
Shapes ==
    /\ file = [partition \in Partitions |-> file[partition]]
    /\ synced = [partition \in Partitions |-> synced[partition]]
    /\ jobs = [t \in Threads |-> jobs[t]]
    /\ partial \subseteq Partitions
    /\ \A partition \in Partitions :
          /\ IsSeq(file[partition])
          /\ synced[partition] \in 0..Len(file[partition])

\* A call that has not read the file yet carries its record ...
Waiting(t) ==
    /\ jobs[t].pc \in {"mutex", "lock", "read"}
    /\ jobs[t].op \in {"append", "verify"}
    /\ jobs[t].partition \in Partitions
    /\ jobs[t].op = "append" => jobs[t].record \in RecordsFor(jobs[t].partition)
    /\ jobs[t] = [pc |-> jobs[t].pc, op |-> jobs[t].op,
                  partition |-> jobs[t].partition, record |-> jobs[t].record]

\* ... and one that has, the entry it makes of it.
Writing(t) ==
    /\ jobs[t].pc \in {"line", "newline", "sync"}
    /\ jobs[t].op = "append"
    /\ jobs[t].partition \in Partitions
    /\ jobs[t] = [pc |-> jobs[t].pc, op |-> "append",
                  partition |-> jobs[t].partition, entry |-> jobs[t].entry]

\* The lock on the file: an append that has it is alone.
Exclusive ==
    \A t, u \in Threads : \A partition \in Partitions :
        t # u /\ HoldsFile(t, partition) /\ HoldsFile(u, partition) =>
            jobs[t].op = "verify" /\ jobs[u].op = "verify"

\* What an append that stands in its line writes still follows the file ...
Follows(partition, entry) ==
    /\ entry.record \in RecordsFor(partition)
    /\ Links(partition, entry.record, file[partition])
    /\ entry = NextEntry(partition, entry.record)

\* ... and what one that awaits its sync has written is the last line.
Ends(partition, entry) ==
    /\ file[partition] # <<>>
    /\ entry = file[partition][Len(file[partition])]

InHand(t) ==
    LET partition == jobs[t].partition
    IN  /\ At(t, "line") =>
              partition \notin partial /\ Follows(partition, jobs[t].entry)
        /\ At(t, "newline") =>
              partition \in partial /\ Follows(partition, jobs[t].entry)
        /\ At(t, "sync") =>
              partition \notin partial /\ Ends(partition, jobs[t].entry)

JobStands(t) == (jobs[t] = Idle \/ Waiting(t) \/ Writing(t)) /\ InHand(t)

JobsStand == \A t \in Threads : JobStands(t)

\* The lines hold records that callers wrote.
RecordsKept ==
    \A partition \in Partitions : \A i \in DOMAIN file[partition] :
        file[partition][i].record \in RecordsFor(partition)

\* A receipt is of a synced line.
ReceiptsSynced ==
    \A receipt \in receipts :
        /\ receipt.partition \in Partitions
        /\ receipt.sequence \in 1..synced[receipt.partition]
        /\ receipt = ReceiptOf(receipt.partition,
                               file[receipt.partition][receipt.sequence])

LedgerInv ==
    /\ Shapes
    /\ JobsStand
    /\ Exclusive
    /\ RecordsKept
    /\ ChainsHold
    /\ ReceiptsSynced

-----------------------------------------------------------------------------
(* Sequences.                                                               *)

\* A sequence has a length, and that many elements.
LEMMA SeqShape ==
    ASSUME NEW s, IsSeq(s)
    PROVE  /\ Len(s) \in Nat
           /\ DOMAIN s = 1..Len(s)
           /\ s = [i \in 1..Len(s) |-> s[i]]
           /\ s = <<>> <=> Len(s) = 0
  <1> DEFINE S == {s[i] : i \in DOMAIN s}
  <1> HIDE DEF S
  <1>1. s \in Seq(S)
    BY DEF IsSeq, S
  <1>2. Len(s) \in Nat /\ DOMAIN s = 1..Len(s) /\ s \in [1..Len(s) -> S]
    BY <1>1, LenProperties
  <1>3. s = <<>> <=> Len(s) = 0
    BY <1>1, <1>2, EmptySeq
  <1>4. QED
    BY <1>2, <1>3

\* Whatever has the length and the elements of a sequence is one.
LEMMA ShapeIsSeq ==
    ASSUME NEW s, NEW n \in Nat, s = [i \in 1..n |-> s[i]]
    PROVE  IsSeq(s) /\ Len(s) = n
  <1> DEFINE S == {s[i] : i \in DOMAIN s}
  <1>1. DOMAIN s = 1..n
    OBVIOUS
  <1>2. \A i \in 1..n : s[i] \in S
    BY <1>1
  <1> HIDE DEF S
  <1>3. s \in [1..n -> S]
    BY <1>2
  <1>4. s \in Seq(S)
    BY <1>3, SeqDef
  <1>5. Len(s) \in Nat /\ DOMAIN s = 1..Len(s)
    BY <1>4, LenProperties
  <1>6. Len(s) = n
    BY <1>1, <1>5
  <1>7. QED
    BY <1>4, <1>6 DEF IsSeq, S

\* The empty sequence is a sequence.
LEMMA EmptyIsSeq == IsSeq(<<>>) /\ Len(<<>>) = 0
  BY EmptySeq DEF IsSeq

\* A sequence with an element appended.
LEMMA AppendShape ==
    ASSUME NEW s, IsSeq(s), NEW e
    PROVE  /\ IsSeq(Append(s, e))
           /\ Len(Append(s, e)) = Len(s) + 1
           /\ Append(s, e)[Len(s) + 1] = e
           /\ \A i \in 1..Len(s) : Append(s, e)[i] = s[i]
  <1> DEFINE S == {s[i] : i \in DOMAIN s}
             T == S \cup {e}
  <1>1. s \in Seq(S) /\ S \subseteq T /\ e \in T
    BY DEF IsSeq
  <1> HIDE DEF S, T
  <1>2. s \in Seq(T)
    BY <1>1, SeqMonotonic
  <1>3. /\ Append(s, e) \in Seq(T)
        /\ Len(Append(s, e)) = Len(s) + 1
        /\ \A i \in 1..Len(s) : Append(s, e)[i] = s[i]
        /\ Append(s, e)[Len(s) + 1] = e
    BY <1>1, <1>2, AppendProperties
  <1>4. /\ Len(Append(s, e)) \in Nat
        /\ Append(s, e) \in [1..Len(Append(s, e)) -> T]
    BY <1>3, LenProperties
  <1> DEFINE long == Append(s, e)
  <1> HIDE DEF long
  <1>5. Len(long) \in Nat /\ long = [i \in 1..Len(long) |-> long[i]]
    BY <1>4 DEF long
  <1>6. IsSeq(long)
    BY <1>5, ShapeIsSeq
  <1>7. QED
    BY <1>3, <1>6 DEF long

\* The beginning of a sequence.
LEMMA PrefixShape ==
    ASSUME NEW s, IsSeq(s), NEW k \in 0..Len(s)
    PROVE  /\ IsSeq(SubSeq(s, 1, k))
           /\ Len(SubSeq(s, 1, k)) = k
           /\ SubSeq(s, 1, k) = [i \in 1..k |-> s[i]]
           /\ \A i \in 1..k : SubSeq(s, 1, k)[i] = s[i]
  <1> DEFINE S == {s[i] : i \in DOMAIN s}
  <1>1. DOMAIN s = 1..Len(s) /\ Len(s) \in Nat
    BY SeqShape
  <1>2. \A i \in 1..k : s[i] \in S
    BY <1>1
  <1> HIDE DEF S
  <1>3. /\ SubSeq(s, 1, k) \in Seq(S)
        /\ Len(SubSeq(s, 1, k)) = IF 1 <= k THEN k - 1 + 1 ELSE 0
        /\ \A i \in 1..k - 1 + 1 : SubSeq(s, 1, k)[i] = s[1 + i - 1]
    BY <1>1, <1>2, SubSeqProperties
  <1> DEFINE short == SubSeq(s, 1, k)
  <1> HIDE DEF short
  <1>4. short \in Seq(S) /\ Len(short) = k /\ \A i \in 1..k : short[i] = s[i]
    BY <1>1, <1>3 DEF short
  <1>5. short \in [1..k -> S]
    BY <1>4, LenProperties
  <1>6. short = [i \in 1..k |-> short[i]]
    BY <1>5
  <1>7. IsSeq(short) /\ Len(short) = k
    BY <1>1, <1>6, ShapeIsSeq
  <1>8. short = [i \in 1..k |-> s[i]]
    BY <1>4, <1>6
  <1>9. QED
    BY <1>4, <1>7, <1>8 DEF short

\* The whole of a sequence.
LEMMA PrefixWhole ==
    ASSUME NEW s, IsSeq(s)
    PROVE  SubSeq(s, 1, Len(s)) = s
  BY SeqShape, PrefixShape

\* Two sequences that agree up to some point have the same beginnings.
LEMMA PrefixesAgree ==
    ASSUME NEW s, IsSeq(s), NEW u, IsSeq(u), NEW n \in 0..Len(s), n <= Len(u),
           \A i \in 1..n : s[i] = u[i],
           NEW k \in 0..n
    PROVE  SubSeq(s, 1, k) = SubSeq(u, 1, k)
  <1>1. Len(s) \in Nat /\ Len(u) \in Nat
    BY SeqShape
  <1>2. SubSeq(s, 1, k) = [i \in 1..k |-> s[i]]
    BY <1>1, PrefixShape
  <1>3. SubSeq(u, 1, k) = [i \in 1..k |-> u[i]]
    BY <1>1, PrefixShape
  <1>4. \A i \in 1..k : s[i] = u[i]
    BY <1>1
  <1>5. QED
    BY <1>2, <1>3, <1>4

-----------------------------------------------------------------------------
(* Chains.                                                                  *)

\* A line stands where it does: numbered, chained and linked to those before.
Stands(partition, line, i, before) ==
    /\ line.sequence = i
    /\ line.previous = PreviousHash(before)
    /\ line.hash = RecordHash(partition, i, line.previous, line.record)
    /\ Links(partition, line.record, before)

\* Lines verify when each of them stands.
LEMMA VerifiedByLine ==
    ASSUME NEW partition, NEW lines
    PROVE  Verified(partition, lines) <=>
              \A i \in DOMAIN lines :
                 Stands(partition, lines[i], i, SubSeq(lines, 1, i - 1))
  BY Zenon DEF Verified, Stands

\* An entry made for a file stands at its end.
LEMMA NextEntryStands ==
    ASSUME NEW partition, NEW record,
           Links(partition, record, file[partition])
    PROVE  Stands(partition, NextEntry(partition, record),
                  Len(file[partition]) + 1, file[partition])
  BY DEF NextEntry, Stands

\* No lines verify.
LEMMA EmptyVerified ==
    ASSUME NEW partition
    PROVE  Verified(partition, <<>>)
  BY EmptyIsSeq, SeqShape, VerifiedByLine

\* A line that stands at the end of verified lines may be appended.
LEMMA AppendVerified ==
    ASSUME NEW partition, NEW lines, IsSeq(lines), Verified(partition, lines),
           NEW entry, Stands(partition, entry, Len(lines) + 1, lines)
    PROVE  Verified(partition, Append(lines, entry))
  <1> DEFINE long == Append(lines, entry)
  <1>1. /\ IsSeq(long)
        /\ Len(long) = Len(lines) + 1
        /\ long[Len(lines) + 1] = entry
        /\ \A i \in 1..Len(lines) : long[i] = lines[i]
    BY AppendShape
  <1> HIDE DEF long
  <1>2. /\ Len(lines) \in Nat
        /\ DOMAIN lines = 1..Len(lines)
        /\ DOMAIN long = 1..Len(lines) + 1
    BY <1>1, SeqShape
  <1>3. \A i \in 1..Len(lines) + 1 :
           SubSeq(long, 1, i - 1) = SubSeq(lines, 1, i - 1)
    <2> SUFFICES ASSUME NEW i \in 1..Len(lines) + 1
                 PROVE  SubSeq(long, 1, i - 1) = SubSeq(lines, 1, i - 1)
      OBVIOUS
    <2>1. i - 1 \in 0..Len(lines) /\ Len(lines) \in 0..Len(long) /\ Len(lines) <= Len(lines)
      BY <1>1, <1>2
    <2>2. QED
      BY <1>1, <2>1, PrefixesAgree
  <1>4. ASSUME NEW i \in 1..Len(lines)
        PROVE  Stands(partition, long[i], i, SubSeq(long, 1, i - 1))
    <2>1. Stands(partition, lines[i], i, SubSeq(lines, 1, i - 1))
      BY <1>2, VerifiedByLine
    <2>2. long[i] = lines[i] /\ SubSeq(long, 1, i - 1) = SubSeq(lines, 1, i - 1)
      BY <1>1, <1>2, <1>3
    <2>3. QED
      BY <2>1, <2>2
  <1>5. Stands(partition, long[Len(lines) + 1], Len(lines) + 1,
               SubSeq(long, 1, Len(lines) + 1 - 1))
    <2>1. SubSeq(long, 1, Len(lines) + 1 - 1) = lines
      BY <1>2, <1>3, PrefixWhole
    <2>2. QED
      BY <1>1, <2>1
  <1>6. \A i \in DOMAIN long :
           Stands(partition, long[i], i, SubSeq(long, 1, i - 1))
    BY <1>2, <1>4, <1>5
  <1>7. QED
    BY <1>6, VerifiedByLine DEF long

\* The beginning of verified lines verifies.
LEMMA PrefixVerified ==
    ASSUME NEW partition, NEW lines, IsSeq(lines), Verified(partition, lines),
           NEW k \in 0..Len(lines)
    PROVE  Verified(partition, SubSeq(lines, 1, k))
  <1> DEFINE short == SubSeq(lines, 1, k)
  <1>1. IsSeq(short) /\ Len(short) = k /\ \A i \in 1..k : short[i] = lines[i]
    BY PrefixShape
  <1> HIDE DEF short
  <1>2. /\ Len(lines) \in Nat
        /\ DOMAIN lines = 1..Len(lines)
        /\ DOMAIN short = 1..k
    BY <1>1, SeqShape
  <1>3. ASSUME NEW i \in 1..k
        PROVE  Stands(partition, short[i], i, SubSeq(short, 1, i - 1))
    <2>1. i \in 1..Len(lines)
      BY <1>2
    <2>2. Stands(partition, lines[i], i, SubSeq(lines, 1, i - 1))
      BY <1>2, <2>1, VerifiedByLine
    <2>3. i - 1 \in 0..k /\ k \in 0..Len(short) /\ k <= Len(lines)
      BY <1>1, <1>2
    <2>4. SubSeq(short, 1, i - 1) = SubSeq(lines, 1, i - 1)
      BY <1>1, <2>3, PrefixesAgree
    <2>5. QED
      BY <1>1, <2>2, <2>4
  <1>4. QED
    BY <1>2, <1>3, VerifiedByLine DEF short

-----------------------------------------------------------------------------
(* What threads are doing.                                                  *)

\* A call whose guards have fallen is idle, and the others go on.
LEMMA Released ==
    ASSUME Shapes, NEW t \in Threads, Release(t)
    PROVE  /\ jobs' = [u \in Threads |-> jobs'[u]]
           /\ jobs'[t] = Idle
           /\ \A u \in Threads : u # t => jobs'[u] = jobs[u]
  BY DEF Release, Shapes

\* A call that goes on before it has read keeps its record ...
LEMMA WaitsOn ==
    ASSUME Shapes, NEW t \in Threads, Waiting(t), NEW pc, GoTo(t, pc)
    PROVE  /\ jobs' = [u \in Threads |-> jobs'[u]]
           /\ jobs'[t].pc = pc
           /\ jobs'[t].op = jobs[t].op
           /\ jobs'[t].partition = jobs[t].partition
           /\ jobs'[t].record = jobs[t].record
           /\ jobs'[t] = [pc |-> pc, op |-> jobs[t].op,
                          partition |-> jobs[t].partition,
                          record |-> jobs[t].record]
           /\ \A u \in Threads : u # t => jobs'[u] = jobs[u]
  BY DEF GoTo, Shapes, Waiting

\* ... and after it its entry.
LEMMA WritesOn ==
    ASSUME Shapes, NEW t \in Threads, Writing(t), NEW pc, GoTo(t, pc)
    PROVE  /\ jobs' = [u \in Threads |-> jobs'[u]]
           /\ jobs'[t].pc = pc
           /\ jobs'[t].op = "append"
           /\ jobs'[t].partition = jobs[t].partition
           /\ jobs'[t].entry = jobs[t].entry
           /\ jobs'[t] = [pc |-> pc, op |-> "append",
                          partition |-> jobs[t].partition,
                          entry |-> jobs[t].entry]
           /\ \A u \in Threads : u # t => jobs'[u] = jobs[u]
  BY DEF GoTo, Shapes, Writing

\* An idle thread has nothing in hand.
LEMMA IdleStands ==
    ASSUME NEW t \in Threads, jobs[t] = Idle
    PROVE  JobStands(t) /\ \A partition : ~HoldsMutex(t, partition)
  BY DEF JobStands, InHand, Idle, At, HoldsMutex

\* Neither has one that has not read.
LEMMA WaitingStands ==
    ASSUME NEW t \in Threads, Waiting(t)
    PROVE  JobStands(t)
  BY DEF JobStands, InHand, Waiting, At

\* At which point of its call a thread is tells what it carries.
LEMMA PointTells ==
    ASSUME NEW t \in Threads, JobStands(t)
    PROVE  /\ At(t, "mutex") \/ At(t, "lock") \/ At(t, "read") => Waiting(t)
           /\ At(t, "line") \/ At(t, "newline") \/ At(t, "sync") => Writing(t)
           /\ Waiting(t) => ~Writing(t) /\ jobs[t] # Idle
           /\ Writing(t) => jobs[t] # Idle
           /\ At(t, "idle") => jobs[t] = Idle
  <1>1. Waiting(t) => jobs[t].pc \in {"mutex", "lock", "read"}
    BY DEF Waiting
  <1>2. Writing(t) => jobs[t].pc \in {"line", "newline", "sync"}
    BY DEF Writing
  <1>3. jobs[t] = Idle => jobs[t].pc = "idle"
    BY DEF Idle
  <1>4. jobs[t] = Idle \/ Waiting(t) \/ Writing(t)
    BY DEF JobStands
  <1>5. QED
    BY <1>1, <1>2, <1>3, <1>4 DEF At

\* A writing thread holds its file ...
LEMMA WriterHolds ==
    ASSUME NEW t \in Threads, Writing(t)
    PROVE  HoldsFile(t, jobs[t].partition)
  BY DEF Writing, HoldsFile, HoldsMutex, At

\* ... and holds it alone.
LEMMA WriterAlone ==
    ASSUME Exclusive, NEW t \in Threads, Writing(t), NEW u \in Threads, u # t,
           HoldsFile(u, jobs[t].partition)
    PROVE  FALSE
  <1>1. HoldsFile(t, jobs[t].partition) /\ jobs[t].partition \in Partitions
    BY WriterHolds DEF Writing
  <1>2. jobs[t].op = "append"
    BY DEF Writing
  <1>3. QED
    BY <1>1, <1>2 DEF Exclusive

\* The records of a partition only grow.
LEMMA RecordsGrow ==
    ASSUME NEW partition, receipts \subseteq receipts',
           NEW record \in RecordsFor(partition)
    PROVE  record \in RecordsFor(partition)'
  BY DEF RecordsFor

\* A job stands as long as nobody touches it or the file it writes.
LEMMA JobKept ==
    ASSUME NEW t \in Threads, JobStands(t), jobs'[t] = jobs[t],
           receipts \subseteq receipts',
           Writing(t) =>
              /\ file'[jobs[t].partition] = file[jobs[t].partition]
              /\ jobs[t].partition \in partial <=> jobs[t].partition \in partial'
    PROVE  JobStands(t)'
  <1>1. CASE jobs[t] = Idle
    BY <1>1 DEF JobStands, InHand, Idle, At
  <1>2. CASE Waiting(t)
    <2>1. Waiting(t)'
      BY <1>2, RecordsGrow DEF Waiting
    <2>2. InHand(t)'
      BY <1>2 DEF InHand, Waiting, At
    <2>3. QED
      BY <2>1, <2>2 DEF JobStands
  <1>3. CASE Writing(t)
    <2> DEFINE partition == jobs[t].partition
               entry == jobs[t].entry
    <2>1. Writing(t)'
      BY <1>3 DEF Writing
    <2>2. Follows(partition, entry) =>
             /\ entry.record \in RecordsFor(partition)'
             /\ Links(partition, entry.record, file'[partition])
             /\ entry = NextEntry(partition, entry.record)'
      BY <1>3, RecordsGrow DEF Follows, NextEntry
    <2>3. InHand(t)
      BY DEF JobStands
    <2>4. InHand(t)'
      BY <1>3, <2>2, <2>3 DEF InHand, Follows, Ends, At
    <2>5. QED
      BY <2>1, <2>4 DEF JobStands
  <1>4. QED
    BY <1>1, <1>2, <1>3 DEF JobStands

\* The lock stays exclusive as long as nobody new takes it.
LEMMA ExclusiveKept ==
    ASSUME Exclusive,
           \A t \in Threads : \A partition \in Partitions :
              HoldsFile(t, partition)' =>
                 HoldsFile(t, partition) /\ jobs'[t].op = jobs[t].op
    PROVE  Exclusive'
  BY DEF Exclusive

\* What the files hold stays true as long as no file is written.
LEMMA FilesKept ==
    ASSUME RecordsKept, ChainsHold, ReceiptsSynced,
           UNCHANGED <<file, synced, receipts>>
    PROVE  RecordsKept' /\ ChainsHold' /\ ReceiptsSynced'
  <1>1. ChainsHold'
    BY DEF ChainsHold
  <1>2. RecordsKept'
    BY DEF RecordsKept, RecordsFor
  <1>3. ReceiptsSynced'
    BY DEF ReceiptsSynced
  <1>4. QED
    BY <1>1, <1>2, <1>3

-----------------------------------------------------------------------------
(* Steps that leave the files alone.                                        *)

LedgerStays == UNCHANGED <<file, partial, synced, receipts>>

\* A step that leaves the files alone keeps the invariant if the jobs stand
\* and the lock stays exclusive.
LEMMA JobsMove ==
    ASSUME LedgerInv, LedgerStays,
           jobs' = [t \in Threads |-> jobs'[t]],
           JobsStand', Exclusive'
    PROVE  LedgerInv'
  <1>1. Shapes'
    BY DEF LedgerInv, LedgerStays, Shapes
  <1>2. RecordsKept' /\ ChainsHold' /\ ReceiptsSynced'
    BY FilesKept DEF LedgerInv, LedgerStays
  <1>3. QED
    BY <1>1, <1>2 DEF LedgerInv

\* The same when one job moves.
LEMMA JobMoves ==
    ASSUME LedgerInv, LedgerStays, NEW t \in Threads,
           jobs' = [u \in Threads |-> jobs'[u]],
           \A u \in Threads : u # t => jobs'[u] = jobs[u],
           JobStands(t)'
    PROVE  /\ JobsStand'
           /\ Exclusive' => LedgerInv'
  <1>1. ASSUME NEW u \in Threads
        PROVE  JobStands(u)'
    <2>1. CASE u = t
      BY <2>1
    <2>2. CASE u # t
      BY <2>2, JobKept DEF LedgerInv, JobsStand, LedgerStays
    <2>3. QED
      BY <2>1, <2>2
  <1>2. JobsStand'
    BY <1>1 DEF JobsStand
  <1>3. QED
    BY <1>2, JobsMove

\* And when it takes no lock.
LEMMA JobMovesUnlocked ==
    ASSUME LedgerInv, LedgerStays, NEW t \in Threads,
           jobs' = [u \in Threads |-> jobs'[u]],
           \A u \in Threads : u # t => jobs'[u] = jobs[u],
           JobStands(t)',
           \A partition \in Partitions :
              HoldsFile(t, partition)' =>
                 HoldsFile(t, partition) /\ jobs'[t].op = jobs[t].op
    PROVE  LedgerInv'
  <1>1. ASSUME NEW u \in Threads, NEW partition \in Partitions,
               HoldsFile(u, partition)'
        PROVE  HoldsFile(u, partition) /\ jobs'[u].op = jobs[u].op
    <2>1. CASE u = t
      BY <1>1, <2>1
    <2>2. CASE u # t
      BY <1>1, <2>2 DEF HoldsFile, HoldsMutex, At
    <2>3. QED
      BY <2>1, <2>2
  <1>2. Exclusive'
    BY <1>1, ExclusiveKept DEF LedgerInv
  <1>3. QED
    BY <1>2, JobMoves

\* A call that returns early, or is refused.
LEMMA ReleaseStep ==
    ASSUME LedgerInv, LedgerStays, NEW t \in Threads, Release(t)
    PROVE  LedgerInv'
  <1>1. /\ jobs' = [u \in Threads |-> jobs'[u]]
        /\ jobs'[t] = Idle
        /\ \A u \in Threads : u # t => jobs'[u] = jobs[u]
    BY Released DEF LedgerInv
  <1>2. JobStands(t)' /\ \A partition : ~HoldsMutex(t, partition)'
    BY <1>1 DEF JobStands, InHand, Idle, At, HoldsMutex
  <1>3. \A partition \in Partitions : ~HoldsFile(t, partition)'
    BY <1>2 DEF HoldsFile
  <1>4. QED
    BY <1>1, <1>2, <1>3, JobMovesUnlocked

\* A call that starts.
LEMMA StartStep ==
    ASSUME LedgerInv, LedgerStays, NEW t \in Threads,
           NEW op \in {"append", "verify"}, NEW partition \in Partitions,
           NEW record, op = "append" => record \in RecordsFor(partition),
           jobs' = [jobs EXCEPT ![t] = Job(op, partition, record)]
    PROVE  LedgerInv'
  <1>1. /\ jobs' = [u \in Threads |-> jobs'[u]]
        /\ jobs'[t] = Job(op, partition, record)
        /\ \A u \in Threads : u # t => jobs'[u] = jobs[u]
    BY DEF LedgerInv, Shapes
  <1>2. op = "append" => record \in RecordsFor(partition)'
    BY RecordsGrow DEF LedgerStays
  <1>3. Waiting(t)'
    BY <1>1, <1>2 DEF Waiting, Job
  <1>4. JobStands(t)'
    BY <1>3 DEF JobStands, InHand, Waiting, At
  <1>5. \A q \in Partitions : ~HoldsFile(t, q)'
    BY <1>1 DEF HoldsFile, HoldsMutex, At, Job
  <1>6. QED
    BY <1>1, <1>4, <1>5, JobMovesUnlocked

\* StartAppend.
LEMMA StartAppendStep ==
    ASSUME LedgerInv, NEW t \in Threads, StartAppend(t)
    PROVE  LedgerInv'
  <1>1. PICK partition \in Partitions :
           \E record \in RecordsFor(partition) :
              jobs' = [jobs EXCEPT ![t] = Job("append", partition, record)]
    BY DEF StartAppend
  <1>2. PICK record \in RecordsFor(partition) :
           jobs' = [jobs EXCEPT ![t] = Job("append", partition, record)]
    BY <1>1
  <1>3. LedgerStays
    BY DEF StartAppend, LedgerStays
  <1>4. QED
    BY <1>2, <1>3, StartStep

\* StartVerify.
LEMMA StartVerifyStep ==
    ASSUME LedgerInv, NEW t \in Threads, StartVerify(t)
    PROVE  LedgerInv'
  <1>1. PICK partition \in Partitions :
           jobs' = [jobs EXCEPT ![t] = Job("verify", partition, NoReceipt)]
    BY DEF StartVerify
  <1>2. LedgerStays
    BY DEF StartVerify, LedgerStays
  <1>3. QED
    BY <1>1, <1>2, StartStep

\* A call that goes on before it has read.
LEMMA WaitStep ==
    ASSUME LedgerInv, LedgerStays, NEW t \in Threads, Waiting(t),
           NEW pc \in {"mutex", "lock", "read"}, GoTo(t, pc)
    PROVE  JobsStand' /\ (Exclusive' => LedgerInv')
  <1>1. /\ jobs' = [u \in Threads |-> jobs'[u]]
        /\ jobs'[t] = [pc |-> pc, op |-> jobs[t].op,
                       partition |-> jobs[t].partition,
                       record |-> jobs[t].record]
        /\ \A u \in Threads : u # t => jobs'[u] = jobs[u]
    BY WaitsOn DEF LedgerInv
  <1>2. \A partition, record :
           record \in RecordsFor(partition) => record \in RecordsFor(partition)'
    BY RecordsGrow DEF LedgerStays
  <1>3. Waiting(t)'
    BY <1>1, <1>2 DEF Waiting
  <1>4. JobStands(t)'
    BY <1>3 DEF JobStands, InHand, Waiting, At
  <1>5. QED
    BY <1>1, <1>4, JobMoves

\* TakeMutex.
LEMMA TakeMutexStep ==
    ASSUME LedgerInv, NEW t \in Threads, TakeMutex(t)
    PROVE  LedgerInv'
  <1>1. LedgerStays /\ GoTo(t, "lock")
    BY DEF TakeMutex, LedgerStays
  <1>2. Waiting(t)
    BY PointTells DEF TakeMutex, LedgerInv, JobsStand
  <1>3. /\ jobs'[t].pc = "lock"
        /\ \A u \in Threads : u # t => jobs'[u] = jobs[u]
    BY <1>1, <1>2, WaitsOn DEF LedgerInv
  <1>4. ASSUME NEW u \in Threads, NEW partition \in Partitions,
               HoldsFile(u, partition)'
        PROVE  HoldsFile(u, partition) /\ jobs'[u].op = jobs[u].op
    <2>1. u # t
      BY <1>3, <1>4 DEF HoldsFile, At
    <2>2. QED
      BY <1>3, <1>4, <2>1 DEF HoldsFile, HoldsMutex, At
  <1>5. Exclusive'
    BY <1>4, ExclusiveKept DEF LedgerInv
  <1>6. QED
    BY <1>1, <1>2, <1>5, WaitStep

\* LockFile: an append finds no other holder, a verification none but its like.
LEMMA LockFileStep ==
    ASSUME LedgerInv, NEW t \in Threads, LockFile(t)
    PROVE  LedgerInv'
  <1>1. LedgerStays /\ GoTo(t, "read")
    BY DEF LockFile, LedgerStays
  <1>2. Waiting(t)
    BY PointTells DEF LockFile, LedgerInv, JobsStand
  <1>3. /\ jobs'[t].op = jobs[t].op
        /\ jobs'[t].partition = jobs[t].partition
        /\ \A u \in Threads : u # t => jobs'[u] = jobs[u]
    BY <1>1, <1>2, WaitsOn DEF LedgerInv
  <1>4. ASSUME NEW u \in Threads, u # t, NEW partition \in Partitions,
               HoldsFile(t, partition)', HoldsFile(u, partition)'
        PROVE  jobs'[t].op = "verify" /\ jobs'[u].op = "verify"
    <2>1. partition = jobs[t].partition
      BY <1>3, <1>4 DEF HoldsFile, HoldsMutex
    <2>2. HoldsFile(u, partition)
      BY <1>3, <1>4 DEF HoldsFile, HoldsMutex, At
    <2>3. jobs[t].op = "verify" /\ jobs[u].op = "verify"
      BY <2>1, <2>2 DEF LockFile
    <2>4. QED
      BY <1>3, <1>4, <2>3
  <1>5. ASSUME NEW u \in Threads, NEW v \in Threads, u # v,
               NEW partition \in Partitions,
               HoldsFile(u, partition)', HoldsFile(v, partition)'
        PROVE  jobs'[u].op = "verify" /\ jobs'[v].op = "verify"
    <2>1. CASE u = t \/ v = t
      BY <1>4, <1>5, <2>1
    <2>2. CASE u # t /\ v # t
      <3>1. HoldsFile(u, partition) /\ HoldsFile(v, partition)
        BY <1>3, <1>5, <2>2 DEF HoldsFile, HoldsMutex, At
      <3>2. jobs[u].op = "verify" /\ jobs[v].op = "verify"
        BY <1>5, <3>1 DEF LedgerInv, Exclusive
      <3>3. QED
        BY <1>3, <2>2, <3>2
    <2>3. QED
      BY <2>1, <2>2
  <1>6. Exclusive'
    BY <1>5 DEF Exclusive
  <1>7. QED
    BY <1>1, <1>2, <1>6, WaitStep

\* An append whose record links to what it read makes an entry of it.
LEMMA EntryStep ==
    ASSUME LedgerInv, LedgerStays, NEW t \in Threads,
           NEW partition \in Partitions, NEW record \in RecordsFor(partition),
           HoldsFile(t, partition), jobs[t].op = "append",
           partition \notin partial, Links(partition, record, file[partition]),
           NEW entry, entry = NextEntry(partition, record),
           jobs' = [jobs EXCEPT ![t] = [pc |-> "line", op |-> "append",
                                        partition |-> partition,
                                        entry |-> entry]]
    PROVE  LedgerInv'
  <1>1. /\ jobs' = [u \in Threads |-> jobs'[u]]
        /\ jobs'[t] = [pc |-> "line", op |-> "append",
                       partition |-> partition, entry |-> entry]
        /\ \A u \in Threads : u # t => jobs'[u] = jobs[u]
    BY DEF LedgerInv, Shapes
  <1>2. Writing(t)'
    BY <1>1 DEF Writing
  <1>3. entry.record = record
    BY DEF NextEntry
  <1>4. entry = NextEntry(partition, entry.record)
    BY <1>3
  <1>5. Follows(partition, entry)
    BY <1>3, <1>4 DEF Follows
  <1>6. Follows(partition, entry)'
    <2>1. entry.record \in RecordsFor(partition)'
      BY <1>3, RecordsGrow DEF LedgerStays
    <2>2. QED
      BY <1>5, <2>1 DEF Follows, NextEntry, LedgerStays
  <1>7. partition \notin partial'
    BY DEF LedgerStays
  <1>8. JobStands(t)'
    BY <1>1, <1>2, <1>6, <1>7 DEF JobStands, InHand, At
  <1>9. \A q \in Partitions :
           HoldsFile(t, q)' => HoldsFile(t, q) /\ jobs'[t].op = jobs[t].op
    BY <1>1 DEF HoldsFile, HoldsMutex, At
  <1>10. QED
    BY <1>1, <1>8, <1>9, JobMovesUnlocked

\* Read: what it finds verified, an append may add to.
LEMMA ReadStep ==
    ASSUME LedgerInv, NEW t \in Threads, Read(t)
    PROVE  LedgerInv'
  <1>1. LedgerStays
    BY DEF Read, LedgerStays
  <1>2. Waiting(t) /\ At(t, "read")
    BY PointTells DEF Read, LedgerInv, JobsStand
  <1>3. PICK partition, record :
           partition = jobs[t].partition /\ record = jobs[t].record
    OBVIOUS
  <1>4. CASE Release(t)
    BY <1>1, <1>4, ReleaseStep
  <1>5. CASE /\ jobs[t].op = "append"
             /\ Readable(partition)
             /\ Links(partition, record, file[partition])
             /\ jobs' = [jobs EXCEPT
                    ![t] = [pc |-> "line", op |-> "append",
                            partition |-> partition,
                            entry |-> NextEntry(partition, record)]]
    <2>1. partition \in Partitions /\ record \in RecordsFor(partition)
      BY <1>2, <1>3, <1>5 DEF Waiting
    <2>2. HoldsFile(t, partition)
      BY <1>2, <1>3 DEF HoldsFile, HoldsMutex, At
    <2>3. partition \notin partial
      BY <1>5 DEF Readable
    <2>4. PICK entry : entry = NextEntry(partition, record)
      OBVIOUS
    <2>5. QED
      BY <1>1, <1>5, <2>1, <2>2, <2>3, <2>4, EntryStep
  <1>6. QED
    BY <1>3, <1>4, <1>5 DEF Read

\* ReadFails.
LEMMA ReadFailsStep ==
    ASSUME LedgerInv, NEW t \in Threads, ReadFails(t)
    PROVE  LedgerInv'
  BY ReleaseStep DEF ReadFails, LedgerStays

\* Crash: its threads' locks fall.
LEMMA CrashStep ==
    ASSUME LedgerInv, NEW p \in Procs, Crash(p)
    PROVE  LedgerInv'
  <1>1. LedgerStays
    BY DEF Crash, LedgerStays
  <1>2. /\ jobs' = [t \in Threads |-> jobs'[t]]
        /\ \A t \in Threads : jobs'[t] = Idle \/ jobs'[t] = jobs[t]
    BY DEF Crash
  <1>3. ASSUME NEW t \in Threads
        PROVE  JobStands(t)'
    <2>1. CASE jobs'[t] = Idle
      BY <2>1 DEF JobStands, InHand, Idle, At
    <2>2. CASE jobs'[t] = jobs[t]
      BY <1>1, <2>2, JobKept DEF LedgerInv, JobsStand, LedgerStays
    <2>3. QED
      BY <1>2, <2>1, <2>2
  <1>4. ASSUME NEW t \in Threads, NEW partition \in Partitions,
               HoldsFile(t, partition)'
        PROVE  HoldsFile(t, partition) /\ jobs'[t].op = jobs[t].op
    <2>1. jobs'[t] # Idle
      BY <1>4 DEF HoldsFile, HoldsMutex, At, Idle
    <2>2. jobs'[t] = jobs[t]
      BY <1>2, <2>1
    <2>3. QED
      BY <1>4, <2>2 DEF HoldsFile, HoldsMutex, At
  <1>5. JobsStand' /\ Exclusive'
    BY <1>3, <1>4, ExclusiveKept DEF LedgerInv, JobsStand
  <1>6. QED
    BY <1>1, <1>2, <1>5, JobsMove

-----------------------------------------------------------------------------
(* Steps of a writer, and power loss.                                       *)

\* When a writer moves on or gives up, touching no file but its own, the other
\* jobs stand, and its lock with them.
LEMMA WriterMoves ==
    ASSUME LedgerInv, NEW t \in Threads, Writing(t),
           NEW partition, partition = jobs[t].partition,
           \A u \in Threads : u # t => jobs'[u] = jobs[u],
           receipts \subseteq receipts',
           \A q \in Partitions : q # partition =>
              file'[q] = file[q] /\ (q \in partial <=> q \in partial'),
           JobStands(t)',
           \/ jobs'[t] = Idle
           \/ /\ jobs'[t].op = "append"
              /\ jobs'[t].partition = partition
    PROVE  JobsStand' /\ Exclusive'
  <1>1. ASSUME NEW u \in Threads, u # t
        PROVE  JobStands(u)'
    <2>1. ASSUME Writing(u)
          PROVE  jobs[u].partition # partition
      BY <1>1, <2>1, WriterHolds, WriterAlone DEF LedgerInv
    <2>2. Writing(u) =>
             /\ file'[jobs[u].partition] = file[jobs[u].partition]
             /\ jobs[u].partition \in partial <=> jobs[u].partition \in partial'
      BY <2>1 DEF Writing
    <2>3. QED
      BY <1>1, <2>2, JobKept DEF LedgerInv, JobsStand
  <1>2. ASSUME NEW u \in Threads, NEW q \in Partitions, HoldsFile(u, q)'
        PROVE  HoldsFile(u, q) /\ jobs'[u].op = jobs[u].op
    <2>1. CASE u = t
      <3>1. jobs'[t] # Idle
        BY <1>2, <2>1 DEF HoldsFile, HoldsMutex, At, Idle
      <3>2. q = partition
        BY <1>2, <2>1, <3>1 DEF HoldsFile, HoldsMutex
      <3>3. QED
        BY <2>1, <3>1, <3>2, WriterHolds DEF Writing
    <2>2. CASE u # t
      BY <1>2, <2>2 DEF HoldsFile, HoldsMutex, At
    <2>3. QED
      BY <2>1, <2>2
  <1>3. Exclusive'
    BY <1>2, ExclusiveKept DEF LedgerInv
  <1>4. QED
    BY <1>1, <1>3 DEF JobsStand

\* A call that has returned leaves nothing in hand.
LEMMA ReturnedStands ==
    ASSUME NEW t \in Threads, jobs'[t] = Idle
    PROVE  JobStands(t)'
  BY DEF JobStands, InHand, Idle, At

\* WriteLine.
LEMMA WriteLineStep ==
    ASSUME LedgerInv, NEW t \in Threads, WriteLine(t)
    PROVE  LedgerInv'
  <1>1. Writing(t) /\ At(t, "line")
    BY PointTells DEF WriteLine, LedgerInv, JobsStand
  <1>2. PICK partition : partition = jobs[t].partition
    OBVIOUS
  <1>3. partition \in Partitions
    BY <1>1, <1>2 DEF Writing
  <1>4. UNCHANGED <<file, synced, receipts>> /\ partial' = partial \cup {partition}
    BY <1>2 DEF WriteLine
  <1>5. /\ jobs' = [u \in Threads |-> jobs'[u]]
        /\ \A u \in Threads : u # t => jobs'[u] = jobs[u]
        /\ \/ jobs'[t] = Idle
           \/ jobs'[t] = [pc |-> "newline", op |-> "append",
                          partition |-> partition, entry |-> jobs[t].entry]
    <2>1. CASE Release(t)
      BY <2>1, Released DEF LedgerInv
    <2>2. CASE GoTo(t, "newline")
      BY <1>1, <1>2, <2>2, WritesOn DEF LedgerInv
    <2>3. QED
      BY <2>1, <2>2 DEF WriteLine
  <1>6. JobStands(t)'
    <2>1. CASE jobs'[t] = Idle
      BY <2>1, ReturnedStands
    <2>2. CASE jobs'[t] = [pc |-> "newline", op |-> "append",
                           partition |-> partition, entry |-> jobs[t].entry]
      <3>1. PICK entry : entry = jobs[t].entry
        OBVIOUS
      <3>2. Follows(partition, entry)
        BY <1>1, <1>2, <3>1 DEF LedgerInv, JobsStand, JobStands, InHand
      <3>3. Follows(partition, entry)'
        BY <1>4, <3>2 DEF Follows, RecordsFor, NextEntry
      <3>4. Writing(t)'
        BY <1>3, <2>2, <3>1 DEF Writing
      <3>5. QED
        BY <1>4, <2>2, <3>1, <3>3, <3>4 DEF JobStands, InHand, At
    <2>3. QED
      BY <1>5, <2>1, <2>2
  <1>7. JobsStand' /\ Exclusive'
    BY <1>1, <1>2, <1>4, <1>5, <1>6, WriterMoves
  <1>8. Shapes'
    BY <1>3, <1>4, <1>5 DEF LedgerInv, Shapes
  <1>9. RecordsKept' /\ ChainsHold' /\ ReceiptsSynced'
    BY <1>4, FilesKept DEF LedgerInv
  <1>10. QED
    BY <1>7, <1>8, <1>9 DEF LedgerInv

\* A newline gives a file one more line.
LEMMA FileGrows ==
    ASSUME LedgerInv, NEW partition \in Partitions, NEW entry,
           Follows(partition, entry),
           file' = [file EXCEPT ![partition] = Append(@, entry)],
           UNCHANGED <<synced, receipts>>
    PROVE  /\ file' = [q \in Partitions |-> file'[q]]
           /\ \A q \in Partitions : q # partition => file'[q] = file[q]
           /\ \A q \in Partitions :
                 IsSeq(file'[q]) /\ synced'[q] \in 0..Len(file'[q])
           /\ Ends(partition, entry)'
           /\ RecordsKept' /\ ChainsHold' /\ ReceiptsSynced'
  <1>1. /\ file' = [q \in Partitions |-> file'[q]]
        /\ file'[partition] = Append(file[partition], entry)
        /\ \A q \in Partitions : q # partition => file'[q] = file[q]
    BY DEF LedgerInv, Shapes
  <1>2. \A q \in Partitions : IsSeq(file[q]) /\ synced[q] \in 0..Len(file[q])
    BY DEF LedgerInv, Shapes
  <1>3. \A q \in Partitions : Len(file[q]) \in Nat /\ DOMAIN file[q] = 1..Len(file[q])
    BY <1>2, SeqShape
  <1> DEFINE n == Len(file[partition])
  <1>4. /\ IsSeq(file'[partition])
        /\ Len(file'[partition]) = n + 1
        /\ file'[partition][n + 1] = entry
        /\ \A i \in 1..n : file'[partition][i] = file[partition][i]
    BY <1>1, <1>2, AppendShape
  <1>5. DOMAIN file'[partition] = 1..n + 1
    BY <1>4, SeqShape
  <1>6. \A q \in Partitions :
           IsSeq(file'[q]) /\ synced'[q] \in 0..Len(file'[q])
    BY <1>1, <1>2, <1>3, <1>4
  <1>7. Ends(partition, entry)'
    <2>1. Len(file'[partition]) # 0 /\ file'[partition][Len(file'[partition])] = entry
      BY <1>3, <1>4
    <2>2. file'[partition] # <<>>
      BY <1>4, <2>1, SeqShape
    <2>3. QED
      BY <2>1, <2>2 DEF Ends
  <1>8. RecordsKept'
    <2>1. \A q : RecordsFor(q)' = RecordsFor(q)
      BY DEF RecordsFor
    <2>2. \A q \in Partitions : \A i \in DOMAIN file[q] :
             file[q][i].record \in RecordsFor(q)
      BY DEF LedgerInv, RecordsKept
    <2>3. entry.record \in RecordsFor(partition)
      BY DEF Follows
    <2>4. \A i \in 1..n + 1 : file'[partition][i].record \in RecordsFor(partition)
      BY <1>3, <1>4, <2>2, <2>3
    <2>5. ASSUME NEW q \in Partitions, NEW i \in DOMAIN file'[q]
          PROVE  file'[q][i].record \in RecordsFor(q)'
      <3>1. CASE q = partition
        BY <1>5, <2>1, <2>4, <2>5, <3>1
      <3>2. CASE q # partition
        BY <1>1, <2>1, <2>2, <2>5, <3>2
      <3>3. QED
        BY <3>1, <3>2
    <2>6. QED
      BY <2>5 DEF RecordsKept
  <1>9. ChainsHold'
    <2>1. Stands(partition, entry, n + 1, file[partition])
      BY NextEntryStands DEF Follows
    <2>2. Verified(partition, file[partition])
      BY DEF LedgerInv, ChainsHold
    <2>3. Verified(partition, file'[partition])
      BY <1>1, <1>2, <2>1, <2>2, AppendVerified
    <2>4. \A q \in Partitions : Verified(q, file'[q])
      BY <1>1, <2>3 DEF LedgerInv, ChainsHold
    <2>5. QED
      BY <2>4 DEF ChainsHold
  <1>10. ReceiptsSynced'
    <2>1. ASSUME NEW receipt \in receipts
          PROVE  /\ receipt.partition \in Partitions
                 /\ receipt.sequence \in 1..synced'[receipt.partition]
                 /\ receipt = ReceiptOf(receipt.partition,
                                file'[receipt.partition][receipt.sequence])
      <3>1. /\ receipt.partition \in Partitions
            /\ receipt.sequence \in 1..synced[receipt.partition]
            /\ receipt = ReceiptOf(receipt.partition,
                                   file[receipt.partition][receipt.sequence])
        BY DEF LedgerInv, ReceiptsSynced
      <3>2. receipt.sequence \in 1..Len(file[receipt.partition])
        BY <1>2, <1>3, <3>1
      <3>3. file'[receipt.partition][receipt.sequence]
               = file[receipt.partition][receipt.sequence]
        BY <1>1, <1>4, <3>1, <3>2
      <3>4. QED
        BY <3>1, <3>3
    <2>2. QED
      BY <2>1 DEF ReceiptsSynced
  <1>11. QED
    BY <1>1, <1>6, <1>7, <1>8, <1>9, <1>10

\* WriteNewline.
LEMMA WriteNewlineStep ==
    ASSUME LedgerInv, NEW t \in Threads, WriteNewline(t)
    PROVE  LedgerInv'
  <1>1. Writing(t) /\ At(t, "newline")
    BY PointTells DEF WriteNewline, LedgerInv, JobsStand
  <1>2. PICK partition, entry :
           partition = jobs[t].partition /\ entry = jobs[t].entry
    OBVIOUS
  <1>3. partition \in Partitions
    BY <1>1, <1>2 DEF Writing
  <1>4. CASE Release(t) /\ UNCHANGED <<file, partial>>
    <2>1. LedgerStays
      BY <1>4 DEF WriteNewline, LedgerStays
    <2>2. QED
      BY <1>4, <2>1, ReleaseStep
  <1>5. CASE /\ file' = [file EXCEPT ![partition] = Append(@, entry)]
             /\ partial' = partial \ {partition}
             /\ GoTo(t, "sync")
    <2>1. UNCHANGED <<synced, receipts>>
      BY DEF WriteNewline
    <2>2. Follows(partition, entry)
      BY <1>1, <1>2 DEF LedgerInv, JobsStand, JobStands, InHand
    <2>3. /\ file' = [q \in Partitions |-> file'[q]]
          /\ \A q \in Partitions : q # partition => file'[q] = file[q]
          /\ \A q \in Partitions :
                IsSeq(file'[q]) /\ synced'[q] \in 0..Len(file'[q])
          /\ Ends(partition, entry)'
          /\ RecordsKept' /\ ChainsHold' /\ ReceiptsSynced'
      BY <1>3, <1>5, <2>1, <2>2, FileGrows
    <2>4. /\ jobs' = [u \in Threads |-> jobs'[u]]
          /\ \A u \in Threads : u # t => jobs'[u] = jobs[u]
          /\ jobs'[t] = [pc |-> "sync", op |-> "append",
                         partition |-> partition, entry |-> entry]
      BY <1>1, <1>2, <1>5, WritesOn DEF LedgerInv
    <2>5. Writing(t)'
      BY <1>3, <2>4 DEF Writing
    <2>6. JobStands(t)'
      BY <1>5, <2>3, <2>4, <2>5 DEF JobStands, InHand, At
    <2>7. JobsStand' /\ Exclusive'
      BY <1>1, <1>2, <1>5, <2>1, <2>3, <2>4, <2>6, WriterMoves
    <2>8. Shapes'
      BY <1>5, <2>1, <2>3, <2>4 DEF LedgerInv, Shapes
    <2>9. QED
      BY <2>3, <2>7, <2>8 DEF LedgerInv
  <1>6. QED
    BY <1>2, <1>4, <1>5 DEF WriteNewline

\* A line of a verified file bears its own number.
LEMMA LineNumbered ==
    ASSUME LedgerInv, NEW partition \in Partitions,
           NEW i \in DOMAIN file[partition]
    PROVE  file[partition][i].sequence = i
  BY VerifiedByLine DEF LedgerInv, ChainsHold, Stands

\* A finished sync answers with a receipt of the last line.
LEMMA SyncEndsStep ==
    ASSUME LedgerInv, NEW t \in Threads, Writing(t), At(t, "sync"), Release(t),
           NEW partition, partition = jobs[t].partition,
           NEW entry, entry = jobs[t].entry,
           synced' = [synced EXCEPT ![partition] = Len(file[partition])],
           receipts' = receipts \cup {ReceiptOf(partition, entry)},
           UNCHANGED <<file, partial>>
    PROVE  LedgerInv'
  <1>1. partition \in Partitions /\ Ends(partition, entry)
    BY DEF Writing, LedgerInv, JobsStand, JobStands, InHand
  <1>2. \A q \in Partitions :
           /\ IsSeq(file[q]) /\ synced[q] \in 0..Len(file[q])
           /\ Len(file[q]) \in Nat /\ DOMAIN file[q] = 1..Len(file[q])
           /\ file[q] = <<>> <=> Len(file[q]) = 0
    BY SeqShape DEF LedgerInv, Shapes
  <1>3. /\ jobs' = [u \in Threads |-> jobs'[u]]
        /\ jobs'[t] = Idle
        /\ \A u \in Threads : u # t => jobs'[u] = jobs[u]
    BY Released DEF LedgerInv
  <1>4. /\ synced' = [q \in Partitions |-> synced'[q]]
        /\ synced'[partition] = Len(file[partition])
        /\ \A q \in Partitions : q # partition => synced'[q] = synced[q]
    BY <1>1 DEF LedgerInv, Shapes
  <1>5. Shapes'
    BY <1>2, <1>3, <1>4 DEF LedgerInv, Shapes
  <1>6. JobsStand' /\ Exclusive'
    BY <1>3, ReturnedStands, WriterMoves
  <1>7. ChainsHold'
    BY DEF LedgerInv, ChainsHold
  <1>8. RecordsKept'
    BY RecordsGrow DEF LedgerInv, RecordsKept
  <1>9. ReceiptsSynced'
    <2> DEFINE Synced(receipt, lines, length) ==
               /\ receipt.sequence \in 1..length
               /\ receipt = ReceiptOf(receipt.partition, lines[receipt.sequence])
    <2>1. ASSUME NEW receipt \in receipts
          PROVE  /\ receipt.partition \in Partitions
                 /\ Synced(receipt, file[receipt.partition],
                           synced'[receipt.partition])
      <3>1. /\ receipt.partition \in Partitions
            /\ Synced(receipt, file[receipt.partition],
                      synced[receipt.partition])
        BY DEF LedgerInv, ReceiptsSynced
      <3>2. /\ synced[receipt.partition] <= synced'[receipt.partition]
            /\ synced[receipt.partition] \in Nat
            /\ synced'[receipt.partition] \in Nat
        BY <1>2, <1>4, <3>1
      <3>3. QED
        BY <3>1, <3>2
    <2>2. PICK receipt : receipt = ReceiptOf(partition, entry)
      OBVIOUS
    <2>3. PICK n : n = Len(file[partition])
      OBVIOUS
    <2>4. n \in 1..n /\ n \in DOMAIN file[partition] /\ entry = file[partition][n]
      BY <1>1, <1>2, <2>3 DEF Ends
    <2>5. entry.sequence = n
      BY <1>1, <2>4, LineNumbered
    <2>6. receipt.partition = partition /\ receipt.sequence = n
      BY <2>2, <2>5 DEF ReceiptOf, Receipt
    <2>7. /\ receipt.partition \in Partitions
          /\ Synced(receipt, file[receipt.partition], synced'[receipt.partition])
      BY <1>1, <1>4, <2>2, <2>3, <2>4, <2>6
    <2>8. \A r \in receipts' :
             /\ r.partition \in Partitions
             /\ Synced(r, file[r.partition], synced'[r.partition])
      BY <2>1, <2>2, <2>7
    <2>9. QED
      BY <2>8 DEF ReceiptsSynced
  <1>10. QED
    BY <1>5, <1>6, <1>7, <1>8, <1>9 DEF LedgerInv

\* Sync.
LEMMA SyncStep ==
    ASSUME LedgerInv, NEW t \in Threads, Sync(t)
    PROVE  LedgerInv'
  <1>1. Writing(t) /\ At(t, "sync") /\ Release(t) /\ UNCHANGED <<file, partial>>
    BY PointTells DEF Sync, LedgerInv, JobsStand
  <1>2. PICK partition, entry :
           partition = jobs[t].partition /\ entry = jobs[t].entry
    OBVIOUS
  <1>3. CASE UNCHANGED <<synced, receipts>>
    BY <1>1, <1>3, ReleaseStep DEF LedgerStays
  <1>4. CASE /\ synced' = [synced EXCEPT ![partition] = Len(file[partition])]
             /\ receipts' = receipts \cup {ReceiptOf(partition, entry)}
    BY <1>1, <1>2, <1>4, SyncEndsStep
  <1>5. QED
    BY <1>2, <1>3, <1>4 DEF Sync

\* Power loss cuts off what was never synced, and no receipt is of that.
LEMMA PowerLossStep ==
    ASSUME LedgerInv, NEW partition \in Partitions, PowerLoss(partition)
    PROVE  LedgerInv'
  <1>1. PICK kept \in synced[partition]..Len(file[partition]) :
           /\ file' = [file EXCEPT ![partition] = SubSeq(@, 1, kept)]
           /\ partial' = partial \ {partition} \/ partial' = partial \cup {partition}
    BY DEF PowerLoss
  <1>2. UNCHANGED <<synced, jobs, receipts>>
    BY DEF PowerLoss
  <1>3. \A q \in Partitions :
           /\ IsSeq(file[q]) /\ synced[q] \in 0..Len(file[q])
           /\ Len(file[q]) \in Nat /\ DOMAIN file[q] = 1..Len(file[q])
    BY SeqShape DEF LedgerInv, Shapes
  <1>4. kept \in 0..Len(file[partition]) /\ synced[partition] \in 0..kept
    BY <1>3
  <1>5. /\ file' = [q \in Partitions |-> file'[q]]
        /\ file'[partition] = SubSeq(file[partition], 1, kept)
        /\ \A q \in Partitions : q # partition => file'[q] = file[q]
    BY <1>1 DEF LedgerInv, Shapes
  <1>6. /\ IsSeq(file'[partition])
        /\ Len(file'[partition]) = kept
        /\ \A i \in 1..kept : file'[partition][i] = file[partition][i]
    BY <1>3, <1>4, <1>5, PrefixShape
  <1>7. DOMAIN file'[partition] = 1..kept
    BY <1>6, SeqShape
  <1>8. Shapes'
    <2>1. \A q \in Partitions : IsSeq(file'[q]) /\ synced'[q] \in 0..Len(file'[q])
      BY <1>2, <1>3, <1>4, <1>5, <1>6
    <2>2. QED
      BY <1>1, <1>2, <1>5, <2>1 DEF LedgerInv, Shapes
  <1>9. JobsStand' /\ Exclusive'
    <2>1. \A t \in Threads : jobs'[t] = Idle
      BY <1>2, PointTells DEF PowerLoss, LedgerInv, JobsStand
    <2>2. JobsStand'
      BY <2>1, ReturnedStands DEF JobsStand
    <2>3. \A t \in Threads : \A q \in Partitions : ~HoldsFile(t, q)'
      BY <2>1 DEF HoldsFile, HoldsMutex, At, Idle
    <2>4. QED
      BY <2>2, <2>3 DEF Exclusive
  <1>10. ChainsHold'
    <2>1. \A q \in Partitions : Verified(q, file[q])
      BY DEF LedgerInv, ChainsHold
    <2>2. Verified(partition, file'[partition])
      BY <1>3, <1>4, <1>5, <2>1, PrefixVerified
    <2>3. \A q \in Partitions : Verified(q, file'[q])
      BY <1>5, <2>1, <2>2
    <2>4. QED
      BY <2>3 DEF ChainsHold
  <1>11. RecordsKept'
    <2>1. \A q : RecordsFor(q)' = RecordsFor(q)
      BY <1>2 DEF RecordsFor
    <2>2. \A q \in Partitions : \A i \in DOMAIN file[q] :
             file[q][i].record \in RecordsFor(q)
      BY DEF LedgerInv, RecordsKept
    <2>3. \A i \in 1..kept : i \in DOMAIN file[partition]
      BY <1>3, <1>4
    <2>4. ASSUME NEW q \in Partitions, NEW i \in DOMAIN file'[q]
          PROVE  file'[q][i].record \in RecordsFor(q)'
      <3>1. CASE q = partition
        BY <1>6, <1>7, <2>1, <2>2, <2>3, <2>4, <3>1
      <3>2. CASE q # partition
        BY <1>5, <2>1, <2>2, <2>4, <3>2
      <3>3. QED
        BY <3>1, <3>2
    <2>5. QED
      BY <2>4 DEF RecordsKept
  <1>12. ReceiptsSynced'
    <2>1. ASSUME NEW receipt \in receipts
          PROVE  /\ receipt.partition \in Partitions
                 /\ receipt.sequence \in 1..synced[receipt.partition]
                 /\ receipt = ReceiptOf(receipt.partition,
                                file'[receipt.partition][receipt.sequence])
      <3>1. /\ receipt.partition \in Partitions
            /\ receipt.sequence \in 1..synced[receipt.partition]
            /\ receipt = ReceiptOf(receipt.partition,
                                   file[receipt.partition][receipt.sequence])
        BY DEF LedgerInv, ReceiptsSynced
      <3>2. receipt.partition = partition => receipt.sequence \in 1..kept
        BY <1>4, <3>1
      <3>3. file'[receipt.partition][receipt.sequence]
               = file[receipt.partition][receipt.sequence]
        BY <1>5, <1>6, <3>1, <3>2
      <3>4. QED
        BY <3>1, <3>3
    <2>2. QED
      BY <1>2, <2>1 DEF ReceiptsSynced
  <1>13. QED
    BY <1>8, <1>9, <1>10, <1>11, <1>12 DEF LedgerInv

-----------------------------------------------------------------------------
(* The invariant.                                                           *)

\* It holds of empty files.
LEMMA LedgerStarts ==
    ASSUME Init
    PROVE  LedgerInv
  <1>1. \A partition \in Partitions :
           file[partition] = <<>> /\ synced[partition] = 0
    BY DEF Init
  <1>2. Shapes
    BY <1>1, EmptyIsSeq DEF Init, Shapes
  <1>3. \A t \in Threads : jobs[t] = Idle
    BY DEF Init
  <1>4. JobsStand
    BY <1>3, IdleStands DEF JobsStand
  <1>5. Exclusive
    BY <1>3, IdleStands DEF Exclusive, HoldsFile
  <1>6. DOMAIN <<>> = {}
    BY EmptyIsSeq, SeqShape
  <1>7. RecordsKept
    BY <1>1, <1>6 DEF RecordsKept
  <1>8. ChainsHold
    BY <1>1, EmptyVerified DEF ChainsHold
  <1>9. ReceiptsSynced
    BY DEF Init, ReceiptsSynced
  <1>10. QED
    BY <1>2, <1>4, <1>5, <1>7, <1>8, <1>9 DEF LedgerInv

\* And every step keeps it.
LEMMA LedgerSteps ==
    ASSUME LedgerInv, [Next]_vars
    PROVE  LedgerInv'
  <1>1. ASSUME NEW t \in Threads, Step(t)
        PROVE  LedgerInv'
    <2>1. CASE StartAppend(t)
      BY <2>1, StartAppendStep
    <2>2. CASE StartVerify(t)
      BY <2>2, StartVerifyStep
    <2>3. CASE TakeMutex(t)
      BY <2>3, TakeMutexStep
    <2>4. CASE LockFile(t)
      BY <2>4, LockFileStep
    <2>5. CASE Read(t)
      BY <2>5, ReadStep
    <2>6. CASE ReadFails(t)
      BY <2>6, ReadFailsStep
    <2>7. CASE WriteLine(t)
      BY <2>7, WriteLineStep
    <2>8. CASE WriteNewline(t)
      BY <2>8, WriteNewlineStep
    <2>9. CASE Sync(t)
      BY <2>9, SyncStep
    <2>10. QED
      BY <1>1, <2>1, <2>2, <2>3, <2>4, <2>5, <2>6, <2>7, <2>8, <2>9 DEF Step
  <1>2. ASSUME NEW p \in Procs, Crash(p)
        PROVE  LedgerInv'
    BY <1>2, CrashStep
  <1>3. ASSUME NEW partition \in Partitions, PowerLoss(partition)
        PROVE  LedgerInv'
    BY <1>3, PowerLossStep
  <1>4. CASE UNCHANGED vars
    <2>1. LedgerStays /\ jobs' = jobs
      BY <1>4 DEF vars, LedgerStays
    <2>2. jobs' = [t \in Threads |-> jobs'[t]]
      BY <2>1 DEF LedgerInv, Shapes
    <2>3. JobsStand'
      BY <2>1, JobKept DEF LedgerInv, JobsStand, LedgerStays
    <2>4. Exclusive'
      BY <2>1 DEF LedgerInv, Exclusive, HoldsFile, HoldsMutex, At
    <2>5. QED
      BY <2>1, <2>2, <2>3, <2>4, JobsMove
  <1>5. QED
    BY <1>1, <1>2, <1>3, <1>4 DEF Next

\* Whatever is written, crashes or is lost, the lock is exclusive, what is in
\* hand follows the file, and receipts are of synced lines.
THEOREM LedgerInvariant == Spec => []LedgerInv
  <1>1. Init => LedgerInv
    BY LedgerStarts
  <1>2. LedgerInv /\ [Next]_vars => LedgerInv'
    BY LedgerSteps
  <1>3. QED
    BY <1>1, <1>2, PTL DEF Spec

\* chain.rs, append under with_partition_lock: the complete lines of every file
\* verify at any time, with any number of processes and after any crash.
THEOREM ChainsVerify == Spec => []ChainsHold
  <1>1. LedgerInv => ChainsHold
    BY DEF LedgerInv
  <1>2. QED
    BY <1>1, LedgerInvariant, PTL

\* A receipt that append returned names a line that stays, with its hash.
THEOREM ReceiptsKept == Spec => []ReceiptsStand
  <1>1. ASSUME LedgerInv PROVE ReceiptsStand
    <2>1. ASSUME NEW receipt \in receipts
          PROVE  LET lines == file[receipt.partition]
                 IN  /\ receipt.sequence \in DOMAIN lines
                     /\ lines[receipt.sequence].hash = receipt.hash
      <3>1. /\ receipt.partition \in Partitions
            /\ receipt.sequence \in 1..synced[receipt.partition]
            /\ receipt = ReceiptOf(receipt.partition,
                                   file[receipt.partition][receipt.sequence])
        BY <1>1 DEF LedgerInv, ReceiptsSynced
      <3>2. /\ synced[receipt.partition] \in 0..Len(file[receipt.partition])
            /\ Len(file[receipt.partition]) \in Nat
            /\ DOMAIN file[receipt.partition] = 1..Len(file[receipt.partition])
        BY <1>1, <3>1, SeqShape DEF LedgerInv, Shapes
      <3>3. receipt.sequence \in DOMAIN file[receipt.partition]
        BY <3>1, <3>2
      <3>4. file[receipt.partition][receipt.sequence].hash = receipt.hash
        BY <3>1 DEF ReceiptOf, Receipt
      <3>5. QED
        BY <3>3, <3>4
    <2>2. QED
      BY <2>1 DEF ReceiptsStand
  <1>2. QED
    BY <1>1, LedgerInvariant, PTL

\* with_partition_lock: nobody reads a file while a live append stands within
\* its line.
THEOREM LinesReadWhole == Spec => []ReadersSeeWholeLines
  <1>1. ASSUME LedgerInv PROVE ReadersSeeWholeLines
    <2>1. ASSUME NEW t \in Threads, NEW u \in Threads, At(t, "read"),
                 At(u, "newline"), jobs[t].partition = jobs[u].partition
          PROVE  FALSE
      <3>1. Writing(u) /\ Waiting(t)
        BY <1>1, <2>1, PointTells DEF LedgerInv, JobsStand
      <3>2. t # u
        BY <2>1 DEF At
      <3>3. HoldsFile(t, jobs[u].partition)
        BY <2>1 DEF HoldsFile, HoldsMutex, At
      <3>4. QED
        BY <1>1, <3>1, <3>2, <3>3, WriterAlone DEF LedgerInv
    <2>2. QED
      BY <2>1 DEF ReadersSeeWholeLines
  <1>2. QED
    BY <1>1, LedgerInvariant, PTL

\* What an outcome says of its authorization.
LEMMA AuthorizationOf ==
    ASSUME NEW partition, NEW record \in RecordsFor(partition)
    PROVE  [record EXCEPT !.type = "authorization", !.writeAhead = NoReceipt,
                          !.outcome = "none"] =
              [type |-> "authorization", tenant |-> partition, id |-> record.id,
               writeAhead |-> NoReceipt, outcome |-> "none"]
  <1>1. record = [type |-> record.type, tenant |-> partition, id |-> record.id,
                  writeAhead |-> record.writeAhead, outcome |-> record.outcome]
    BY DEF RecordsFor
  <1> PICK type, id, link, outcome :
         /\ id = record.id
         /\ record = [type |-> type, tenant |-> partition, id |-> id,
                      writeAhead |-> link, outcome |-> outcome]
    BY <1>1
  <1>2. PICK new : new = [record EXCEPT
                 !.type = "authorization", !.writeAhead = NoReceipt,
                 !.outcome = "none"]
    OBVIOUS
  <1>3. DOMAIN new = DOMAIN record
    BY <1>2
  <1>4. /\ new.type = "authorization" /\ new.tenant = partition /\ new.id = id
        /\ new.writeAhead = NoReceipt /\ new.outcome = "none"
    BY <1>2
  <1>5. new = [type |-> "authorization", tenant |-> partition, id |-> id,
               writeAhead |-> NoReceipt, outcome |-> "none"]
    <2>1. new = [i \in DOMAIN record |-> new[i]]
      BY <1>2
    <2>2. DOMAIN record = {"type", "tenant", "id", "writeAhead", "outcome"}
      OBVIOUS
    <2>3. QED
      BY <1>4, <2>1, <2>2
  <1>6. QED
    BY <1>2, <1>5

\* validate_record_linkage: an outcome answers one authorization of its own
\* tenant and of its own correlation.
THEOREM OutcomesAnswerOwn == Spec => []OutcomesOfOwnTenant
  <1> DEFINE AnsweredBy(record, before) ==
               \E j \in DOMAIN before :
                  /\ before[j].hash = record.writeAhead.hash
                  /\ before[j].record = [record EXCEPT
                         !.type = "authorization", !.writeAhead = NoReceipt,
                         !.outcome = "none"]
  <1>1. ASSUME LedgerInv PROVE OutcomesOfOwnTenant
    <2>1. ASSUME NEW partition \in Partitions, NEW i \in DOMAIN file[partition],
                 file[partition][i].record.type = "outcome",
                 NEW record, record = file[partition][i].record,
                 NEW before, before = SubSeq(file[partition], 1, i - 1)
          PROVE  AnsweredBy(record, before)
      <3>1. IsSeq(file[partition])
        BY <1>1 DEF LedgerInv, Shapes
      <3>2. /\ Len(file[partition]) \in Nat
            /\ DOMAIN file[partition] = 1..Len(file[partition])
        BY <3>1, SeqShape
      <3>3. i - 1 \in 0..Len(file[partition])
        BY <3>2
      <3>4. /\ DOMAIN before = 1..i - 1
            /\ \A j \in 1..i - 1 : before[j] = file[partition][j]
        BY <2>1, <3>1, <3>3, PrefixShape, SeqShape
      <3>5. Links(partition, record, before)
        BY <1>1, <2>1, VerifiedByLine DEF LedgerInv, ChainsHold, Stands
      <3>6. PICK j \in DOMAIN before :
               /\ ReceiptOf(partition, before[j]) = record.writeAhead
               /\ before[j].record.type = "authorization"
               /\ before[j].record.id = record.id
        BY <2>1, <3>5 DEF Links
      <3>7. j \in DOMAIN file[partition] /\ before[j] = file[partition][j]
        BY <3>2, <3>4
      <3>8. /\ record \in RecordsFor(partition)
            /\ before[j].record \in RecordsFor(partition)
        BY <1>1, <2>1, <3>7 DEF LedgerInv, RecordsKept
      <3>9. before[j].record =
               [type |-> "authorization", tenant |-> partition,
                id |-> record.id, writeAhead |-> NoReceipt, outcome |-> "none"]
        BY <3>6, <3>8 DEF RecordsFor
      <3>10. [record EXCEPT !.type = "authorization", !.writeAhead = NoReceipt,
                            !.outcome = "none"] =
               [type |-> "authorization", tenant |-> partition,
                id |-> record.id, writeAhead |-> NoReceipt, outcome |-> "none"]
        BY <3>8, AuthorizationOf
      <3>11. before[j].hash = record.writeAhead.hash
        BY <3>6 DEF ReceiptOf, Receipt
      <3>12. QED
        BY <3>9, <3>10, <3>11
    <2>2. \A partition \in Partitions : \A i \in DOMAIN file[partition] :
             file[partition][i].record.type = "outcome" =>
                AnsweredBy(file[partition][i].record,
                           SubSeq(file[partition], 1, i - 1))
      <3> HIDE DEF AnsweredBy
      <3>1. QED
        BY <2>1
    <2>3. QED
      BY <2>2, Zenon DEF OutcomesOfOwnTenant
  <1>2. QED
    BY <1>1, LedgerInvariant, PTL

-----------------------------------------------------------------------------
(* The sink.                                                                *)

\* The complete lines up to one of them, as callers see them.
TrailOf(lines, n) == [i \in 1..n |-> Abstract(lines[i])]

Seen(partition) ==
    IF InSync(partition) THEN Len(file[partition]) - 1 ELSE Len(file[partition])

\* What callers see of a partition.
LEMMA TrailSeen ==
    ASSUME NEW partition
    PROVE  Trail(partition) = TrailOf(file[partition], Seen(partition))
  BY DEF Trail, TrailOf, Seen

Torn(partition) == partition \in partial /\ ~InLine(partition)

\* An entry the sink takes for its trail.
Taken(trail, entry) ==
    /\ \E id \in Ids, writeAhead \in 0..Len(trail),
          outcome \in {"succeeded", "failed", "outcome_unknown"} :
          entry \in {[type |-> "authorization", id |-> id, writeAhead |-> 0,
                      outcome |-> "none"],
                     [type |-> "outcome", id |-> id, writeAhead |-> writeAhead,
                      outcome |-> outcome]}
    /\ entry.type = "outcome" =>
          /\ entry.writeAhead \in DOMAIN trail
          /\ trail[entry.writeAhead].type = "authorization"
          /\ trail[entry.writeAhead].id = entry.id

\* A step of the sink, or none.
SinkMoves(partition) ==
    \/ Sink(partition)!AuditNext
    \/ UNCHANGED Sink(partition)!auditVars

\* The sink stutters when nothing it shows changes.
LEMMA SinkStutters ==
    ASSUME NEW partition, Trail(partition)' = Trail(partition),
           Torn(partition)' <=> Torn(partition),
           synced'[partition] = synced[partition]
    PROVE  SinkMoves(partition)
  <1>1. (partition \in partial /\ ~InLine(partition))' =
           (partition \in partial /\ ~InLine(partition))
    BY DEF Torn
  <1>2. QED
    BY <1>1 DEF SinkMoves, Sink!auditVars

\* It takes an entry, and may know it synced.
LEMMA SinkTakes ==
    ASSUME NEW partition, NEW trail, trail = Trail(partition), NEW entry,
           Len(trail) \in Nat, Taken(trail, entry),
           ~Torn(partition), ~Torn(partition)',
           Trail(partition)' = Append(trail, entry),
           \/ synced'[partition] = Len(trail) + 1
           \/ synced'[partition] = synced[partition]
    PROVE  SinkMoves(partition)
  <1>1. (partition \in partial /\ ~InLine(partition))' =
           (partition \in partial /\ ~InLine(partition))
    BY DEF Torn
  <1>2. PICK id \in Ids, writeAhead \in 0..Len(trail),
           outcome \in {"succeeded", "failed", "outcome_unknown"} :
           entry \in {[type |-> "authorization", id |-> id, writeAhead |-> 0,
                       outcome |-> "none"],
                      [type |-> "outcome", id |-> id, writeAhead |-> writeAhead,
                       outcome |-> outcome]}
    BY DEF Taken
  <1>3. Len(trail) + 1 \in Nat \ {0}
    OBVIOUS
  <1>4. Sink(partition)!Accepts(entry)
    BY <1>3 DEF Sink!Accepts, Sink!Linkable, Sink!NextSequence, Taken, Torn
  <1>5. Sink(partition)!Appended(entry) \/ Sink(partition)!AppendUnacknowledged(entry)
    BY <1>1, <1>4 DEF Sink!Appended, Sink!AppendUnacknowledged, Sink!NextSequence
  <1>6. QED
    BY <1>2, <1>5 DEF SinkMoves, Sink!AuditNext, Sink!OutcomeKinds,
                      Sink!Authorization, Sink!Outcome

\* It refuses to finish an entry it would take, and its last line is torn.
LEMMA SinkTears ==
    ASSUME NEW partition, NEW trail, trail = Trail(partition), NEW entry,
           Len(trail) \in Nat, Taken(trail, entry),
           ~Torn(partition), Torn(partition)',
           Trail(partition)' = trail, synced'[partition] = synced[partition]
    PROVE  SinkMoves(partition)
  <1>1. (partition \in partial /\ ~InLine(partition))' = TRUE
    BY DEF Torn
  <1>2. PICK id \in Ids, writeAhead \in 0..Len(trail),
           outcome \in {"succeeded", "failed", "outcome_unknown"} :
           entry \in {[type |-> "authorization", id |-> id, writeAhead |-> 0,
                       outcome |-> "none"],
                      [type |-> "outcome", id |-> id, writeAhead |-> writeAhead,
                       outcome |-> outcome]}
    BY DEF Taken
  <1>3. Len(trail) + 1 \in Nat \ {0}
    OBVIOUS
  <1>4. Sink(partition)!Accepts(entry)
    BY <1>3 DEF Sink!Accepts, Sink!Linkable, Sink!NextSequence, Taken, Torn
  <1>5. Sink(partition)!AppendTorn(entry)
    BY <1>1, <1>4 DEF Sink!AppendTorn
  <1>6. QED
    BY <1>2, <1>5 DEF SinkMoves, Sink!AuditNext, Sink!OutcomeKinds,
                      Sink!Authorization, Sink!Outcome

\* It forgets what was not synced.
LEMMA SinkForgets ==
    ASSUME NEW partition, NEW trail, trail = Trail(partition),
           NEW kept \in synced[partition]..Len(trail),
           Trail(partition)' = SubSeq(trail, 1, kept),
           Torn(partition)' => Torn(partition) \/ kept < Len(trail),
           synced'[partition] = synced[partition]
    PROVE  SinkMoves(partition)
  <1>1. \/ (partition \in partial /\ ~InLine(partition))' = FALSE
        \/ /\ (partition \in partial /\ ~InLine(partition))' = TRUE
           /\ (partition \in partial /\ ~InLine(partition)) \/ kept < Len(trail)
    BY DEF Torn
  <1>2. Sink(partition)!Forget
    BY <1>1 DEF Sink!Forget
  <1>3. QED
    BY <1>2 DEF SinkMoves, Sink!AuditNext

\* A trail is a sequence of the lines, abstracted.
LEMMA TrailShape ==
    ASSUME NEW lines, NEW n \in Nat
    PROVE  /\ IsSeq(TrailOf(lines, n))
           /\ Len(TrailOf(lines, n)) = n
           /\ DOMAIN TrailOf(lines, n) = 1..n
           /\ \A i \in 1..n : TrailOf(lines, n)[i] = Abstract(lines[i])
  <1>1. PICK trail : trail = TrailOf(lines, n)
    OBVIOUS
  <1>2. trail = [i \in 1..n |-> trail[i]]
    BY <1>1 DEF TrailOf
  <1>3. QED
    BY <1>1, <1>2, ShapeIsSeq DEF TrailOf

\* One line more is one entry more.
LEMMA TrailGrows ==
    ASSUME NEW lines, NEW n \in Nat
    PROVE  TrailOf(lines, n + 1) = Append(TrailOf(lines, n), Abstract(lines[n + 1]))
  <1>1. PICK short, long : short = TrailOf(lines, n) /\ long = TrailOf(lines, n + 1)
    OBVIOUS
  <1>2. PICK entry : entry = Abstract(lines[n + 1])
    OBVIOUS
  <1>3. /\ IsSeq(short) /\ Len(short) = n
        /\ \A i \in 1..n : short[i] = Abstract(lines[i])
    BY <1>1, TrailShape
  <1>4. long = [i \in 1..n + 1 |-> Abstract(lines[i])]
    BY <1>1 DEF TrailOf
  <1>5. PICK both : both = Append(short, entry)
    OBVIOUS
  <1>6. /\ IsSeq(both) /\ Len(both) = n + 1 /\ both[n + 1] = entry
        /\ \A i \in 1..n : both[i] = short[i]
    BY <1>3, <1>5, AppendShape
  <1>7. both = [i \in 1..n + 1 |-> both[i]]
    BY <1>6, SeqShape
  <1>8. \A i \in 1..n + 1 : both[i] = Abstract(lines[i])
    BY <1>2, <1>3, <1>6
  <1>9. both = long
    BY <1>4, <1>7, <1>8
  <1>10. QED
    BY <1>1, <1>2, <1>5, <1>9

\* Lines that agree have the same trail.
LEMMA TrailsAgree ==
    ASSUME NEW lines, NEW others, NEW n \in Nat,
           \A i \in 1..n : lines[i] = others[i]
    PROVE  TrailOf(lines, n) = TrailOf(others, n)
  BY DEF TrailOf

\* The beginning of a trail is the trail of a beginning.
LEMMA TrailCut ==
    ASSUME NEW lines, NEW n \in Nat, NEW k \in 0..n
    PROVE  SubSeq(TrailOf(lines, n), 1, k) = TrailOf(lines, k)
  <1>1. PICK trail : trail = TrailOf(lines, n)
    OBVIOUS
  <1>2. IsSeq(trail) /\ Len(trail) = n /\ \A i \in 1..n : trail[i] = Abstract(lines[i])
    BY <1>1, TrailShape
  <1>3. SubSeq(trail, 1, k) = [i \in 1..k |-> trail[i]]
    BY <1>2, PrefixShape
  <1>4. \A i \in 1..k : trail[i] = Abstract(lines[i])
    BY <1>2
  <1>5. QED
    BY <1>1, <1>3, <1>4 DEF TrailOf

\* The sink takes every entry that may follow verified lines.
LEMMA EntryTaken ==
    ASSUME NEW partition, NEW lines, IsSeq(lines), Verified(partition, lines),
           NEW entry, Links(partition, entry.record, lines),
           entry.record \in RecordsFor(partition)
    PROVE  Taken(TrailOf(lines, Len(lines)), Abstract(entry))
  <1>1. PICK record : record = entry.record
    OBVIOUS
  <1>2. PICK trail, n : n = Len(lines) /\ trail = TrailOf(lines, n)
    OBVIOUS
  <1>3. n \in Nat /\ DOMAIN lines = 1..n
    BY <1>2, SeqShape
  <1>4. /\ Len(trail) = n /\ DOMAIN trail = 1..n
        /\ \A i \in 1..n : trail[i] = Abstract(lines[i])
    BY <1>2, <1>3, TrailShape
  <1>5. CASE record.type = "authorization"
    <2>1. record.id \in Ids /\ record.outcome = "none"
      BY <1>1, <1>5 DEF RecordsFor
    <2>2. PICK id \in Ids : id = record.id
      BY <2>1
    <2>3. Abstract(entry) = [type |-> "authorization", id |-> id,
                             writeAhead |-> 0, outcome |-> "none"]
      BY <1>1, <1>5, <2>1, <2>2 DEF Abstract
    <2>4. PICK abstract : abstract = Abstract(entry)
      OBVIOUS
    <2>5. 0 \in 0..Len(trail) /\ abstract.type # "outcome"
      BY <1>3, <1>4, <2>3, <2>4
    <2>6. Taken(trail, abstract)
      BY <2>3, <2>4, <2>5 DEF Taken
    <2>7. QED
      BY <1>2, <2>4, <2>6
  <1>6. CASE record.type = "outcome"
    <2>1. record.id \in Ids /\ record.outcome \in Outcomes
      BY <1>1, <1>6 DEF RecordsFor
    <2>2. record.outcome \in {"succeeded", "failed", "outcome_unknown"}
      BY <2>1, LedgerAssumption
    <2>3. PICK i \in DOMAIN lines :
             /\ ReceiptOf(partition, lines[i]) = record.writeAhead
             /\ lines[i].record.type = "authorization"
             /\ lines[i].record.id = record.id
      BY <1>1, <1>6 DEF Links
    <2>4. lines[i].sequence = i
      BY VerifiedByLine DEF Stands
    <2>5. record.writeAhead.sequence = i
      BY <2>3, <2>4 DEF ReceiptOf, Receipt
    <2>6. Abstract(entry) = [type |-> "outcome", id |-> record.id,
                             writeAhead |-> i, outcome |-> record.outcome]
      BY <1>1, <1>6, <2>5 DEF Abstract
    <2>7. PICK abstract : abstract = Abstract(entry)
      OBVIOUS
    <2>8. abstract.writeAhead = i /\ abstract.id = record.id
      BY <2>6, <2>7
    <2>9. trail[i].type = "authorization" /\ trail[i].id = record.id
      BY <1>3, <1>4, <2>3 DEF Abstract
    <2>10. i \in 0..Len(trail) /\ i \in DOMAIN trail
      BY <1>3, <1>4
    <2>11. Taken(trail, abstract)
      BY <2>1, <2>2, <2>6, <2>7, <2>8, <2>9, <2>10 DEF Taken
    <2>12. QED
      BY <1>2, <2>7, <2>11
  <1>7. record.type \in {"authorization", "outcome"}
    BY <1>1 DEF RecordsFor
  <1>8. QED
    BY <1>5, <1>6, <1>7

-----------------------------------------------------------------------------
(* Every step is one of the sink.                                           *)

\* A thread that is between the line and the end of its sync.
AtEnd(t, partition) ==
    /\ At(t, "newline") \/ At(t, "sync")
    /\ jobs[t].partition = partition

\* A step that nobody at the end of a line takes, and that leaves the file
\* alone, is not seen.
LEMMA SinkUntouched ==
    ASSUME NEW partition, NEW t \in Threads,
           \A u \in Threads : u # t => jobs'[u] = jobs[u],
           ~AtEnd(t, partition), ~AtEnd(t, partition)',
           file'[partition] = file[partition],
           partition \in partial <=> partition \in partial',
           synced'[partition] = synced[partition]
    PROVE  SinkMoves(partition)
  <1>1. InSync(partition)' <=> InSync(partition)
    BY DEF InSync, AtEnd, At
  <1>2. InLine(partition)' <=> InLine(partition)
    BY DEF InLine, AtEnd, At
  <1>3. Seen(partition)' = Seen(partition)
    BY <1>1 DEF Seen
  <1>4. Trail(partition)' = Trail(partition)
    <2>1. PICK lines, n : lines = file[partition] /\ n = Seen(partition)
      OBVIOUS
    <2>2. Trail(partition) = TrailOf(lines, n)
      BY <2>1, TrailSeen
    <2>3. Trail(partition)' = TrailOf(lines, n)
      BY <1>3, <2>1 DEF Trail, TrailOf, Seen
    <2>4. QED
      BY <2>2, <2>3
  <1>5. Torn(partition)' <=> Torn(partition)
    BY <1>2 DEF Torn
  <1>6. QED
    BY <1>4, <1>5, SinkStutters

\* The trail when a partition's writer awaits its sync, and when none does.
LEMMA TrailAfter ==
    ASSUME NEW partition, NEW lines, lines = file'[partition],
           NEW n, n = IF InSync(partition)' THEN Len(lines) - 1 ELSE Len(lines)
    PROVE  Trail(partition)' = TrailOf(lines, n)
  BY DEF Trail, TrailOf

\* Of a file's writers the one is all there are, before a step of its own ...
LEMMA WriterTells ==
    ASSUME LedgerInv, NEW t \in Threads, Writing(t),
           NEW partition, partition = jobs[t].partition
    PROVE  /\ InSync(partition) <=> At(t, "sync")
           /\ InLine(partition) <=> At(t, "newline")
  <1>1. ASSUME NEW u \in Threads, AtEnd(u, partition)
        PROVE  u = t
    <2>1. HoldsFile(u, partition)
      BY <1>1 DEF AtEnd, HoldsFile, HoldsMutex, At
    <2>2. QED
      BY <2>1, WriterAlone DEF LedgerInv
  <1>2. QED
    BY <1>1 DEF InSync, InLine, AtEnd

\* ... and after it.
LEMMA WriterTellsAfter ==
    ASSUME LedgerInv, NEW t \in Threads, Writing(t),
           NEW partition, partition = jobs[t].partition,
           \A u \in Threads : u # t => jobs'[u] = jobs[u]
    PROVE  /\ InSync(partition)' <=>
                 jobs'[t].pc = "sync" /\ jobs'[t].partition = partition
           /\ InLine(partition)' <=>
                 jobs'[t].pc = "newline" /\ jobs'[t].partition = partition
  <1>1. ASSUME NEW u \in Threads, u # t
        PROVE  ~(jobs'[u].pc \in {"newline", "sync"} /\ jobs'[u].partition = partition)
    <2>1. ~HoldsFile(u, partition)
      BY <1>1, WriterAlone DEF LedgerInv
    <2>2. QED
      BY <1>1, <2>1 DEF HoldsFile, HoldsMutex, At
  <1>2. QED
    BY <1>1 DEF InSync, InLine, At

\* A file without its last line, and that line.
LEMMA LastLine ==
    ASSUME LedgerInv, NEW partition \in Partitions, NEW entry,
           Ends(partition, entry),
           NEW lines, lines = file[partition], NEW n, n = Len(lines) - 1
    PROVE  /\ n \in Nat /\ Len(lines) = n + 1 /\ entry = lines[n + 1]
           /\ Taken(TrailOf(lines, n), Abstract(entry))
           /\ TrailOf(lines, n + 1) = Append(TrailOf(lines, n), Abstract(entry))
  <1>1. IsSeq(lines) /\ lines # <<>> /\ entry = lines[Len(lines)]
    BY DEF LedgerInv, Shapes, Ends
  <1>2. n \in Nat /\ Len(lines) = n + 1 /\ DOMAIN lines = 1..n + 1 /\ entry = lines[n + 1]
    BY <1>1, SeqShape
  <1>3. PICK before : before = SubSeq(lines, 1, n)
    OBVIOUS
  <1>4. n \in 0..Len(lines) /\ n + 1 \in DOMAIN lines /\ n + 1 - 1 = n
    BY <1>2
  <1>5. IsSeq(before) /\ Len(before) = n /\ \A i \in 1..n : before[i] = lines[i]
    BY <1>1, <1>3, <1>4, PrefixShape
  <1>6. Verified(partition, lines)
    BY DEF LedgerInv, ChainsHold
  <1>7. Verified(partition, before)
    BY <1>1, <1>3, <1>4, <1>6, PrefixVerified
  <1>8. Links(partition, entry.record, before)
    BY <1>2, <1>3, <1>4, <1>6, VerifiedByLine DEF Stands
  <1>9. entry.record \in RecordsFor(partition)
    BY <1>2, <1>4 DEF LedgerInv, RecordsKept
  <1>10. Taken(TrailOf(before, n), Abstract(entry))
    BY <1>5, <1>7, <1>8, <1>9, EntryTaken
  <1>11. TrailOf(before, n) = TrailOf(lines, n)
    BY <1>2, <1>5, TrailsAgree
  <1>12. QED
    BY <1>2, <1>10, <1>11, TrailGrows

\* What a writer that stands in its line would add to the trail.
LEMMA LineTaken ==
    ASSUME LedgerInv, NEW partition \in Partitions, NEW entry,
           Follows(partition, entry),
           NEW lines, lines = file[partition]
    PROVE  /\ Len(lines) \in Nat
           /\ Taken(TrailOf(lines, Len(lines)), Abstract(entry))
  <1>1. IsSeq(lines) /\ Verified(partition, lines)
    BY DEF LedgerInv, Shapes, ChainsHold
  <1>2. Links(partition, entry.record, lines) /\ entry.record \in RecordsFor(partition)
    BY DEF Follows
  <1>3. QED
    BY <1>1, <1>2, EntryTaken, SeqShape

\* When a writer gives up, or dies, its entry is torn, or there without its
\* caller knowing, or nothing has happened yet.
LEMMA WriterGivesUp ==
    ASSUME LedgerInv, LedgerStays, NEW t \in Threads, Writing(t),
           NEW partition, partition = jobs[t].partition,
           ~InSync(partition)', ~InLine(partition)'
    PROVE  SinkMoves(partition)
  <1>1. /\ InSync(partition) <=> At(t, "sync")
        /\ InLine(partition) <=> At(t, "newline")
    BY WriterTells
  <1>2. PICK lines, entry : lines = file[partition] /\ entry = jobs[t].entry
    OBVIOUS
  <1>3. partition \in Partitions /\ InHand(t)
    BY DEF Writing, LedgerInv, JobsStand, JobStands
  <1>4. /\ lines = file'[partition]
        /\ synced'[partition] = synced[partition]
        /\ partition \in partial <=> partition \in partial'
    BY <1>2 DEF LedgerStays
  <1>5. PICK before, after : before = Trail(partition) /\ after = Trail(partition)'
    OBVIOUS
  <1>6. after = TrailOf(lines, Len(lines))
    BY <1>4, <1>5, TrailAfter
  <1>7. CASE At(t, "line")
    <2>1. ~InSync(partition) /\ ~InLine(partition)
      BY <1>1, <1>7 DEF At
    <2>2. before = after
      BY <1>2, <1>5, <1>6, <2>1, TrailSeen DEF Seen
    <2>3. Torn(partition)' <=> Torn(partition)
      BY <1>4, <2>1 DEF Torn
    <2>4. QED
      BY <1>4, <1>5, <2>2, <2>3, SinkStutters
  <1>8. CASE At(t, "newline")
    <2>1. ~InSync(partition) /\ InLine(partition)
      BY <1>1, <1>8 DEF At
    <2>2. before = TrailOf(lines, Len(lines)) /\ before = after
      BY <1>2, <1>5, <1>6, <2>1, TrailSeen DEF Seen
    <2>3. partition \in partial /\ Follows(partition, entry)
      BY <1>2, <1>3, <1>8 DEF InHand
    <2>4. ~Torn(partition) /\ Torn(partition)'
      BY <1>4, <2>1, <2>3 DEF Torn
    <2>5. PICK abstract : abstract = Abstract(entry)
      OBVIOUS
    <2>6. Len(lines) \in Nat /\ Taken(before, abstract)
      BY <1>2, <1>3, <2>2, <2>3, <2>5, LineTaken
    <2>7. Len(before) \in Nat
      BY <2>2, <2>6, TrailShape
    <2>8. QED
      BY <1>4, <1>5, <2>2, <2>4, <2>6, <2>7, SinkTears
  <1>9. CASE At(t, "sync")
    <2>1. InSync(partition)
      BY <1>1, <1>9
    <2>2. PICK n : n = Len(lines) - 1
      OBVIOUS
    <2>3. before = TrailOf(lines, n)
      BY <1>2, <1>5, <2>1, <2>2, TrailSeen DEF Seen
    <2>4. partition \notin partial /\ Ends(partition, entry)
      BY <1>2, <1>3, <1>9 DEF InHand
    <2>5. ~Torn(partition) /\ ~Torn(partition)'
      BY <1>4, <2>4 DEF Torn
    <2>6. PICK abstract : abstract = Abstract(entry)
      OBVIOUS
    <2>7. /\ n \in Nat /\ Len(lines) = n + 1
          /\ Taken(before, abstract)
          /\ after = Append(before, abstract)
      BY <1>2, <1>3, <1>6, <2>2, <2>3, <2>4, <2>6, LastLine
    <2>8. Len(before) \in Nat
      BY <2>3, <2>7, TrailShape
    <2>9. QED
      BY <1>4, <1>5, <2>5, <2>7, <2>8, SinkTakes
  <1>10. QED
    BY <1>7, <1>8, <1>9 DEF Writing, At

\* A job that moves before the end of a line is not seen.
LEMMA JobUnseen ==
    ASSUME LedgerStays, NEW t \in Threads,
           \A u \in Threads : u # t => jobs'[u] = jobs[u],
           jobs[t].pc \notin {"newline", "sync"},
           jobs'[t].pc \notin {"newline", "sync"},
           NEW partition
    PROVE  SinkMoves(partition)
  <1>1. ~AtEnd(t, partition) /\ ~AtEnd(t, partition)'
    BY DEF AtEnd, At
  <1>2. /\ file'[partition] = file[partition]
        /\ partition \in partial <=> partition \in partial'
        /\ synced'[partition] = synced[partition]
    BY DEF LedgerStays
  <1>3. QED
    BY <1>1, <1>2, SinkUntouched

\* Whoever leaves the file alone and is not its writer is not seen.
LEMMA OthersUnseen ==
    ASSUME NEW t \in Threads,
           \A u \in Threads : u # t => jobs'[u] = jobs[u],
           NEW own, jobs[t].partition = own,
           jobs'[t] = Idle \/ jobs'[t].partition = own,
           NEW partition, partition # own,
           file'[partition] = file[partition],
           partition \in partial <=> partition \in partial',
           synced'[partition] = synced[partition]
    PROVE  SinkMoves(partition)
  <1>1. ~AtEnd(t, partition) /\ ~AtEnd(t, partition)'
    BY DEF AtEnd, At, Idle
  <1>2. QED
    BY <1>1, SinkUntouched

\* The steps before the line.
LEMMA EarlyUnseen ==
    ASSUME LedgerInv, NEW t \in Threads,
           \/ StartAppend(t) \/ StartVerify(t) \/ TakeMutex(t)
           \/ LockFile(t) \/ Read(t) \/ ReadFails(t),
           NEW partition
    PROVE  SinkMoves(partition)
  <1>1. LedgerStays
    BY DEF StartAppend, StartVerify, TakeMutex, LockFile, Read, ReadFails,
           LedgerStays
  <1>2. jobs[t].pc \in {"idle", "mutex", "lock", "read"}
    BY DEF StartAppend, StartVerify, TakeMutex, LockFile, Read, ReadFails, At
  <1> DEFINE Moved == /\ \A u \in Threads : u # t => jobs'[u] = jobs[u]
                      /\ jobs'[t].pc \in {"idle", "mutex", "lock", "read", "line"}
  <1>3. ASSUME NEW job, jobs' = [jobs EXCEPT ![t] = job],
               job.pc \in {"idle", "mutex", "lock", "read", "line"}
        PROVE  Moved
    BY <1>3 DEF LedgerInv, Shapes
  <1>4. ASSUME NEW pc \in {"lock", "read"}, GoTo(t, pc), Waiting(t)
        PROVE  Moved
    BY <1>4, WaitsOn DEF LedgerInv
  <1>5. ASSUME Release(t)
        PROVE  Moved
    BY <1>5, Released DEF LedgerInv, Idle
  <1> HIDE DEF Moved
  <1>6. Moved
    <2>1. ASSUME NEW op, NEW own, NEW record,
                 jobs' = [jobs EXCEPT ![t] = Job(op, own, record)]
          PROVE  Moved
      <3>1. PICK job : job = Job(op, own, record)
        OBVIOUS
      <3>2. job.pc = "mutex"
        BY <3>1 DEF Job
      <3>3. QED
        BY <1>3, <2>1, <3>1, <3>2
    <2>2. CASE StartAppend(t)
      BY <2>1, <2>2 DEF StartAppend
    <2>3. CASE StartVerify(t)
      BY <2>1, <2>3 DEF StartVerify
    <2>4. CASE TakeMutex(t)
      <3>1. Waiting(t)
        BY <2>4, PointTells DEF TakeMutex, LedgerInv, JobsStand
      <3>2. QED
        BY <1>4, <2>4, <3>1 DEF TakeMutex
    <2>5. CASE LockFile(t)
      <3>1. Waiting(t)
        BY <2>5, PointTells DEF LockFile, LedgerInv, JobsStand
      <3>2. QED
        BY <1>4, <2>5, <3>1 DEF LockFile
    <2>6. CASE Read(t)
      <3>1. ASSUME NEW own, NEW entry,
                   jobs' = [jobs EXCEPT ![t] = [pc |-> "line", op |-> "append",
                               partition |-> own, entry |-> entry]]
            PROVE  Moved
        <4>1. PICK job : job = [pc |-> "line", op |-> "append",
                                partition |-> own, entry |-> entry]
          OBVIOUS
        <4>2. job.pc = "line"
          BY <4>1
        <4>3. QED
          BY <1>3, <3>1, <4>1, <4>2
      <3>2. QED
        BY <1>5, <2>6, <3>1 DEF Read
    <2>7. CASE ReadFails(t)
      BY <1>5, <2>7 DEF ReadFails
    <2>8. QED
      BY <2>2, <2>3, <2>4, <2>5, <2>6, <2>7
  <1>7. QED
    BY <1>1, <1>2, <1>6, JobUnseen DEF Moved

\* WriteLine: the line is torn if the call gives up.
LEMMA WriteLineSeen ==
    ASSUME LedgerInv, NEW t \in Threads, WriteLine(t), NEW partition \in Partitions
    PROVE  SinkMoves(partition)
  <1>1. Writing(t) /\ At(t, "line")
    BY PointTells DEF WriteLine, LedgerInv, JobsStand
  <1>2. PICK own, entry : own = jobs[t].partition /\ entry = jobs[t].entry
    OBVIOUS
  <1>3. UNCHANGED <<file, synced, receipts>> /\ partial' = partial \cup {own}
    BY <1>2 DEF WriteLine
  <1>4. /\ \A u \in Threads : u # t => jobs'[u] = jobs[u]
        /\ \/ jobs'[t] = Idle
           \/ jobs'[t].pc = "newline" /\ jobs'[t].partition = own
    <2>1. CASE Release(t)
      BY <2>1, Released DEF LedgerInv
    <2>2. CASE GoTo(t, "newline")
      BY <1>1, <1>2, <2>2, WritesOn DEF LedgerInv
    <2>3. QED
      BY <2>1, <2>2 DEF WriteLine
  <1>5. CASE partition # own
    BY <1>2, <1>3, <1>4, <1>5, OthersUnseen
  <1>6. CASE partition = own
    <2>1. ~InSync(partition) /\ ~InLine(partition)
      BY <1>1, <1>2, <1>6, WriterTells DEF At
    <2>2. /\ ~InSync(partition)'
          /\ InLine(partition)' <=> jobs'[t] # Idle
      BY <1>1, <1>2, <1>4, <1>6, WriterTellsAfter DEF Idle
    <2>3. partition \notin partial /\ Follows(partition, entry)
      BY <1>1, <1>2, <1>6 DEF LedgerInv, JobsStand, JobStands, InHand
    <2>4. PICK lines : lines = file[partition]
      OBVIOUS
    <2>5. PICK before, after : before = Trail(partition) /\ after = Trail(partition)'
      OBVIOUS
    <2>6. before = TrailOf(lines, Len(lines))
      BY <2>1, <2>4, <2>5, TrailSeen DEF Seen
    <2>7. lines = file'[partition]
      BY <1>3, <2>4
    <2>8. after = TrailOf(lines, Len(lines))
      BY <2>2, <2>5, <2>7, TrailAfter
    <2>9. PICK abstract : abstract = Abstract(entry)
      OBVIOUS
    <2>10. Len(lines) \in Nat /\ Taken(before, abstract)
      BY <2>3, <2>4, <2>6, <2>9, LineTaken
    <2>11. Len(before) \in Nat
      BY <2>6, <2>10, TrailShape
    <2>12. ~Torn(partition) /\ synced'[partition] = synced[partition]
      BY <1>3, <2>3 DEF Torn
    <2>13. CASE jobs'[t] = Idle
      <3>1. Torn(partition)'
        BY <1>3, <1>6, <2>2, <2>13 DEF Torn
      <3>2. QED
        BY <2>5, <2>6, <2>8, <2>10, <2>11, <2>12, <3>1, SinkTears
    <2>14. CASE jobs'[t] # Idle
      <3>1. ~Torn(partition)'
        BY <2>2, <2>14 DEF Torn
      <3>2. QED
        BY <2>5, <2>6, <2>8, <2>12, <3>1, SinkStutters
    <2>15. QED
      BY <2>13, <2>14
  <1>7. QED
    BY <1>5, <1>6

\* WriteNewline: the line is not seen before its sync ends, one way or another.
LEMMA WriteNewlineSeen ==
    ASSUME LedgerInv, NEW t \in Threads, WriteNewline(t),
           NEW partition \in Partitions
    PROVE  SinkMoves(partition)
  <1>1. Writing(t) /\ At(t, "newline")
    BY PointTells DEF WriteNewline, LedgerInv, JobsStand
  <1>2. PICK own, entry : own = jobs[t].partition /\ entry = jobs[t].entry
    OBVIOUS
  <1>3. own \in Partitions /\ UNCHANGED <<synced, receipts>>
    BY <1>1, <1>2 DEF WriteNewline, Writing
  <1>4. CASE Release(t) /\ UNCHANGED <<file, partial>>
    <2>1. jobs'[t] = Idle /\ \A u \in Threads : u # t => jobs'[u] = jobs[u]
      BY <1>4, Released DEF LedgerInv
    <2>2. LedgerStays
      BY <1>3, <1>4 DEF LedgerStays
    <2>3. CASE partition # own
      BY <1>2, <1>3, <1>4, <2>1, <2>3, OthersUnseen
    <2>4. CASE partition = own
      <3>1. ~InSync(partition)' /\ ~InLine(partition)'
        BY <1>1, <1>2, <2>1, <2>4, WriterTellsAfter DEF Idle
      <3>2. QED
        BY <1>1, <1>2, <2>2, <2>4, <3>1, WriterGivesUp
    <2>5. QED
      BY <2>3, <2>4
  <1>5. CASE /\ file' = [file EXCEPT ![own] = Append(@, entry)]
             /\ partial' = partial \ {own}
             /\ GoTo(t, "sync")
    <2>1. /\ \A u \in Threads : u # t => jobs'[u] = jobs[u]
          /\ jobs'[t].pc = "sync" /\ jobs'[t].partition = own
      BY <1>1, <1>2, <1>5, WritesOn DEF LedgerInv
    <2>2. CASE partition # own
      <3>1. file'[partition] = file[partition]
        BY <1>5, <2>2 DEF LedgerInv, Shapes
      <3>2. QED
        BY <1>2, <1>3, <1>5, <2>1, <2>2, <3>1, OthersUnseen
    <2>3. CASE partition = own
      <3>1. ~InSync(partition) /\ InLine(partition)
        BY <1>1, <1>2, <2>3, WriterTells DEF At
      <3>2. InSync(partition)' /\ ~InLine(partition)'
        BY <1>1, <1>2, <2>1, <2>3, WriterTellsAfter
      <3>3. ~Torn(partition) /\ ~Torn(partition)'
        BY <1>5, <2>3, <3>1 DEF Torn
      <3>4. PICK lines, longer : lines = file[partition] /\ longer = file'[partition]
        OBVIOUS
      <3>5. IsSeq(lines) /\ longer = Append(lines, entry)
        BY <1>3, <1>5, <2>3, <3>4 DEF LedgerInv, Shapes
      <3>6. PICK n : n = Len(lines)
        OBVIOUS
      <3>7. n \in Nat /\ Len(longer) = n + 1 /\ \A i \in 1..n : longer[i] = lines[i]
        BY <3>5, <3>6, AppendShape, SeqShape
      <3>8. Trail(partition) = TrailOf(lines, n)
        BY <3>1, <3>4, <3>6, TrailSeen DEF Seen
      <3>9. Len(longer) - 1 = n
        BY <3>7
      <3>10. Trail(partition)' = TrailOf(longer, n)
        BY <3>2, <3>4, <3>9, TrailAfter
      <3>11. Trail(partition)' = Trail(partition)
        BY <3>7, <3>8, <3>10, TrailsAgree
      <3>12. QED
        BY <1>3, <3>3, <3>11, SinkStutters
    <2>4. QED
      BY <2>2, <2>3
  <1>6. QED
    BY <1>2, <1>4, <1>5 DEF WriteNewline

\* Sync: the append takes place, known to be synced or not.
LEMMA SyncSeen ==
    ASSUME LedgerInv, NEW t \in Threads, Sync(t), NEW partition \in Partitions
    PROVE  SinkMoves(partition)
  <1>1. Writing(t) /\ At(t, "sync") /\ UNCHANGED <<file, partial>>
    BY PointTells DEF Sync, LedgerInv, JobsStand
  <1>2. PICK own, entry : own = jobs[t].partition /\ entry = jobs[t].entry
    OBVIOUS
  <1>3. jobs'[t] = Idle /\ \A u \in Threads : u # t => jobs'[u] = jobs[u]
    BY Released DEF Sync, LedgerInv
  <1>4. \/ synced' = [synced EXCEPT ![own] = Len(file[own])]
        \/ synced' = synced
    BY <1>2 DEF Sync
  <1>5. own \in Partitions
    BY <1>1, <1>2 DEF Writing
  <1>6. CASE partition # own
    <2>1. synced'[partition] = synced[partition]
      BY <1>4, <1>6 DEF LedgerInv, Shapes
    <2>2. QED
      BY <1>1, <1>2, <1>3, <1>6, <2>1, OthersUnseen
  <1>7. CASE partition = own
    <2>1. InSync(partition) /\ ~InSync(partition)'
      BY <1>1, <1>2, <1>3, <1>7, WriterTells, WriterTellsAfter DEF Idle
    <2>2. partition \notin partial /\ Ends(partition, entry)
      BY <1>1, <1>2, <1>7 DEF LedgerInv, JobsStand, JobStands, InHand
    <2>3. ~Torn(partition) /\ ~Torn(partition)'
      BY <1>1, <2>2 DEF Torn
    <2>4. PICK lines : lines = file[partition]
      OBVIOUS
    <2>5. lines = file'[partition]
      BY <1>1, <2>4
    <2>6. PICK n : n = Len(lines) - 1
      OBVIOUS
    <2>7. PICK before : before = Trail(partition)
      OBVIOUS
    <2>8. before = TrailOf(lines, n)
      BY <2>1, <2>4, <2>6, <2>7, TrailSeen DEF Seen
    <2>9. Trail(partition)' = TrailOf(lines, Len(lines))
      BY <2>1, <2>5, TrailAfter
    <2>10. PICK abstract : abstract = Abstract(entry)
      OBVIOUS
    <2>11. /\ n \in Nat /\ Len(lines) = n + 1
           /\ Taken(before, abstract)
           /\ Trail(partition)' = Append(before, abstract)
      BY <2>2, <2>4, <2>6, <2>8, <2>9, <2>10, LastLine
    <2>12. Len(before) = n
      BY <2>8, <2>11, TrailShape
    <2>13. \/ synced'[partition] = Len(before) + 1
           \/ synced'[partition] = synced[partition]
      BY <1>4, <1>7, <2>4, <2>11, <2>12 DEF LedgerInv, Shapes
    <2>14. QED
      BY <2>3, <2>7, <2>11, <2>12, <2>13, SinkTakes
  <1>8. QED
    BY <1>6, <1>7

\* Crash: a dying writer gives up, and any other thread is not seen to die.
LEMMA CrashSeen ==
    ASSUME LedgerInv, NEW p \in Procs, Crash(p), NEW partition \in Partitions
    PROVE  SinkMoves(partition)
  <1>1. LedgerStays
    BY DEF Crash, LedgerStays
  <1>2. \A t \in Threads : jobs'[t] = IF t[1] = p THEN Idle ELSE jobs[t]
    BY DEF Crash
  <1>3. CASE \E t \in Threads : t[1] = p /\ AtEnd(t, partition)
    <2>1. PICK t \in Threads : t[1] = p /\ AtEnd(t, partition)
      BY <1>3
    <2>2. Writing(t) /\ partition = jobs[t].partition
      BY <2>1, PointTells DEF AtEnd, LedgerInv, JobsStand
    <2>3. ASSUME NEW u \in Threads
          PROVE  ~(jobs'[u].pc \in {"newline", "sync"} /\ jobs'[u].partition = partition)
      <3>1. CASE jobs'[u] = Idle
        BY <3>1 DEF Idle
      <3>2. CASE jobs'[u] # Idle
        <4>1. u # t /\ jobs'[u] = jobs[u]
          BY <1>2, <2>1, <3>2
        <4>2. ~HoldsFile(u, partition)
          BY <2>2, <4>1, WriterAlone DEF LedgerInv
        <4>3. QED
          BY <4>1, <4>2 DEF HoldsFile, HoldsMutex, At
      <3>3. QED
        BY <3>1, <3>2
    <2>4. ~InSync(partition)' /\ ~InLine(partition)'
      BY <2>3 DEF InSync, InLine, At
    <2>5. QED
      BY <1>1, <2>2, <2>4, WriterGivesUp
  <1>4. CASE ~\E t \in Threads : t[1] = p /\ AtEnd(t, partition)
    <2>1. ASSUME NEW t \in Threads
          PROVE  /\ (At(t, "sync") /\ jobs[t].partition = partition)' <=>
                       At(t, "sync") /\ jobs[t].partition = partition
                 /\ (At(t, "newline") /\ jobs[t].partition = partition)' <=>
                       At(t, "newline") /\ jobs[t].partition = partition
      <3>1. CASE t[1] = p
        BY <1>2, <1>4, <3>1 DEF AtEnd, At, Idle
      <3>2. CASE t[1] # p
        BY <1>2, <3>2 DEF At
      <3>3. QED
        BY <3>1, <3>2
    <2>2. /\ InSync(partition)' <=> InSync(partition)
          /\ InLine(partition)' <=> InLine(partition)
      BY <2>1 DEF InSync, InLine
    <2>3. PICK lines, n : lines = file[partition] /\ n = Seen(partition)
      OBVIOUS
    <2>4. lines = file'[partition] /\ synced'[partition] = synced[partition]
      BY <1>1, <2>3 DEF LedgerStays
    <2>5. n = IF InSync(partition)' THEN Len(lines) - 1 ELSE Len(lines)
      BY <2>2, <2>3 DEF Seen
    <2>6. Trail(partition)' = TrailOf(lines, n)
      BY <2>4, <2>5, TrailAfter
    <2>7. Trail(partition)' = Trail(partition)
      BY <2>3, <2>6, TrailSeen
    <2>8. Torn(partition)' <=> Torn(partition)
      BY <1>1, <2>2 DEF Torn, LedgerStays
    <2>9. QED
      BY <2>4, <2>7, <2>8, SinkStutters
  <1>5. QED
    BY <1>3, <1>4

\* PowerLoss: the sink forgets what the disk does.
LEMMA PowerLossSeen ==
    ASSUME LedgerInv, NEW own \in Partitions, PowerLoss(own),
           NEW partition \in Partitions
    PROVE  SinkMoves(partition)
  <1>1. PICK kept \in synced[own]..Len(file[own]) :
           /\ file' = [file EXCEPT ![own] = SubSeq(@, 1, kept)]
           /\ \/ partial' = partial \ {own}
              \/ /\ own \in partial \/ kept < Len(file[own])
                 /\ partial' = partial \cup {own}
    BY DEF PowerLoss
  <1>2. UNCHANGED <<synced, jobs>>
    BY DEF PowerLoss
  <1>3. \A t \in Threads : jobs[t].pc = "idle" /\ jobs'[t].pc = "idle"
    BY <1>2 DEF PowerLoss, At
  <1>4. /\ ~InSync(partition) /\ ~InSync(partition)'
        /\ ~InLine(partition) /\ ~InLine(partition)'
    BY <1>3 DEF InSync, InLine, At
  <1>5. PICK lines, after : lines = file[partition] /\ after = file'[partition]
    OBVIOUS
  <1>6. IsSeq(lines) /\ Len(lines) \in Nat
    BY <1>5, SeqShape DEF LedgerInv, Shapes
  <1>7. PICK trail : trail = Trail(partition)
    OBVIOUS
  <1>8. trail = TrailOf(lines, Len(lines))
    BY <1>4, <1>5, <1>7, TrailSeen DEF Seen
  <1>9. Trail(partition)' = TrailOf(after, Len(after))
    BY <1>4, <1>5, TrailAfter
  <1>10. CASE partition # own
    <2>1. after = lines
      BY <1>1, <1>5, <1>10 DEF LedgerInv, Shapes
    <2>2. Torn(partition)' <=> Torn(partition)
      BY <1>1, <1>4, <1>10 DEF Torn
    <2>3. QED
      BY <1>2, <1>7, <1>8, <1>9, <2>1, <2>2, SinkStutters
  <1>11. CASE partition = own
    <2>1. after = SubSeq(lines, 1, kept)
      BY <1>1, <1>5, <1>11 DEF LedgerInv, Shapes
    <2>2. kept \in 0..Len(lines)
      BY <1>1, <1>5, <1>6, <1>11 DEF LedgerInv, Shapes
    <2>3. Len(after) = kept /\ \A i \in 1..kept : after[i] = lines[i]
      BY <1>6, <2>1, <2>2, PrefixShape
    <2>4. kept \in Nat /\ TrailOf(after, kept) = TrailOf(lines, kept)
      BY <2>2, <2>3, TrailsAgree
    <2>5. Trail(partition)' = SubSeq(trail, 1, kept)
      BY <1>6, <1>8, <1>9, <2>2, <2>3, <2>4, TrailCut
    <2>6. Len(trail) = Len(lines)
      BY <1>6, <1>8, TrailShape
    <2>7. kept \in synced[partition]..Len(trail)
      BY <1>1, <1>5, <1>11, <2>6
    <2>8. Torn(partition)' => Torn(partition) \/ kept < Len(trail)
      BY <1>1, <1>4, <1>5, <1>11, <2>6 DEF Torn
    <2>9. synced'[partition] = synced[partition]
      BY <1>2
    <2>10. QED
      BY <1>7, <2>5, <2>7, <2>8, <2>9, SinkForgets
  <1>12. QED
    BY <1>10, <1>11

\* An empty file is an empty trail.
LEMMA SinkStarts ==
    ASSUME Init, NEW partition \in Partitions
    PROVE  Sink(partition)!AuditInit
  <1>1. file[partition] = <<>> /\ synced[partition] = 0
    BY DEF Init
  <1>2. ~InSync(partition)
    BY DEF Init, InSync, At, Idle
  <1>3. Seen(partition) = 0
    BY <1>1, <1>2, EmptyIsSeq DEF Seen
  <1>4. Len(TrailOf(<<>>, 0)) = 0 /\ IsSeq(TrailOf(<<>>, 0))
    BY TrailShape
  <1>5. TrailOf(<<>>, 0) = <<>>
    BY <1>4, SeqShape
  <1>6. Trail(partition) = <<>>
    BY <1>1, <1>3, <1>5, TrailSeen
  <1>7. (partition \in partial /\ ~InLine(partition)) = FALSE
    BY DEF Init
  <1>8. QED
    BY <1>1, <1>6, <1>7 DEF Sink!AuditInit

\* The ledger with its locks, hashes and half-written lines implements the sink
\* that module EffectInvocation appends to: appends of one partition take place
\* one at a time, whole or not at all, and what was answered is kept.
THEOREM SinkImplemented == Spec => SinkSpec
  <1> DEFINE AllMove == \A partition \in Partitions :
                           \/ Sink(partition)!AuditNext
                           \/ UNCHANGED Sink(partition)!auditVars
             AllStart == \A partition \in Partitions : Sink(partition)!AuditInit
  <1>1. ASSUME Init PROVE AllStart
    BY <1>1, SinkStarts
  <1>2. ASSUME LedgerInv, Next PROVE AllMove
    <2>1. ASSUME NEW partition \in Partitions
          PROVE  SinkMoves(partition)
      <3>1. ASSUME NEW t \in Threads, Step(t)
            PROVE  SinkMoves(partition)
        <4>1. CASE WriteLine(t)
          BY <1>2, <4>1, WriteLineSeen
        <4>2. CASE WriteNewline(t)
          BY <1>2, <4>2, WriteNewlineSeen
        <4>3. CASE Sync(t)
          BY <1>2, <4>3, SyncSeen
        <4>4. QED
          BY <1>2, <3>1, <4>1, <4>2, <4>3, EarlyUnseen DEF Step
      <3>2. ASSUME NEW p \in Procs, Crash(p)
            PROVE  SinkMoves(partition)
        BY <1>2, <3>2, CrashSeen
      <3>3. ASSUME NEW own \in Partitions, PowerLoss(own)
            PROVE  SinkMoves(partition)
        BY <1>2, <3>3, PowerLossSeen
      <3>4. QED
        BY <1>2, <3>1, <3>2, <3>3 DEF Next
    <2>2. QED
      BY <2>1 DEF SinkMoves
  <1>3. LedgerInv /\ [Next]_vars => [AllMove]_vars
    BY <1>2
  <1> HIDE DEF AllMove, AllStart
  <1>4. Spec => AllStart /\ [][AllMove]_vars
    BY <1>1, <1>3, LedgerInvariant, PTL DEF Spec
  <1>5. QED
    BY <1>4 DEF SinkSpec, AllMove, AllStart

=============================================================================
