-------------------------- MODULE MCEffectInvocation -------------------------
(* Model-checking instances of EffectInvocation.                            *)
EXTENDS EffectInvocation, TLC

CONSTANTS s1, k1, k2, i1, i2, d1, d2, x1, e1

MCRequest(id, key, digest) ==
    [id |-> id, scope |-> s1, key |-> key, digest |-> digest, context |-> x1]

\* One effect, attempted again and again.
OneRequest == {MCRequest(i1, k1, d1)}

\* Two effects in one scope, under two idempotency keys.
RivalRequests == {MCRequest(i1, k1, d1), MCRequest(i2, k2, d2)}

MCCheckpoints == Digests \X Entropy

\* Every call appends at most two records.
MCRecords == 1..(2 * Cardinality(Calls))

CallSymmetry == Permutations(Calls)

CallProcSymmetry == Permutations(Calls) \cup Permutations(Procs)

=============================================================================
