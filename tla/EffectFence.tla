----------------------------- MODULE EffectFence -----------------------------
(***************************************************************************)
(* What the invocation store promises about an idempotency scope: it is a    *)
(* lock.  An invocation takes a free scope; from then on the scope is its    *)
(* own until it is released, because the invocation reached a terminal state *)
(* or an operator abandoned it.  An owner can come into doubt (its outcome   *)
(* is unknown), and an owner in doubt does not become an ordinary owner      *)
(* again: nothing but the release ends the doubt.                            *)
(***************************************************************************)
CONSTANTS Scopes, Ids, NoOwner

VARIABLES
    owner,      \* the unresolved invocation of each scope, or NoOwner
    doubt       \* the scopes whose owner's outcome is unknown

fenceVars == <<owner, doubt>>

Init ==
    /\ owner = [scope \in Scopes |-> NoOwner]
    /\ doubt = {}

Take(scope, id) ==
    /\ owner[scope] = NoOwner
    /\ \A other \in Scopes : owner[other] # id
    /\ owner' = [owner EXCEPT ![scope] = id]
    /\ UNCHANGED doubt

\* A restart can bring several scopes into doubt at once.
FallInDoubt ==
    /\ \E fallen \in SUBSET {scope \in Scopes : owner[scope] # NoOwner} :
          doubt' = doubt \cup fallen
    /\ UNCHANGED owner

Release(scope) ==
    /\ owner[scope] # NoOwner
    /\ owner' = [owner EXCEPT ![scope] = NoOwner]
    /\ doubt' = doubt \ {scope}

Next ==
    \/ \E scope \in Scopes : Release(scope) \/ \E id \in Ids : Take(scope, id)
    \/ FallInDoubt

Spec == Init /\ [][Next]_fenceVars

=============================================================================
