-------------------------- MODULE MCInvocationStore --------------------------
(* Model-checking instances of InvocationStore.                             *)
EXTENDS InvocationStore, TLC

\* Scopes, keys, ids, digests, contexts and records are data the store only compares.
StoreSymmetry ==
    Permutations(Scopes) \cup Permutations(Keys) \cup Permutations(Ids)
        \cup Permutations(Digests) \cup Permutations(Contexts)
        \cup Permutations(Records)

=============================================================================
