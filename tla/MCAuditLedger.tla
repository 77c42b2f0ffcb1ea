---------------------------- MODULE MCAuditLedger ----------------------------
(* Model-checking instances of AuditLedger.                                  *)
EXTENDS AuditLedger, TLC

CONSTANTS p1, p2

\* Two threads of one process, which contend for its mutex, and one of
\* another, which contends with them for the file.
MCThreads == {<<p1, 1>>, <<p1, 2>>, <<p2, 1>>}

LedgerSymmetry == Permutations(Partitions) \cup Permutations(Ids)

=============================================================================
