------------------------------ MODULE AuditSink ------------------------------
(***************************************************************************)
(* The audit ledger as an invocation sees it: AuditSink::append of           *)
(* kiteframe-provider (audit.rs), implemented by the file ledger of          *)
(* kiteframe-audit (chain.rs, module AuditLedger).  One partition, that of   *)
(* the tenant, and every append one step.                                    *)
(*                                                                          *)
(* A record's id is its sequence number: the receipt binds partition,        *)
(* sequence and hash, and of the entries that nobody can lose any more the   *)
(* sequence alone tells one from another.                                    *)
(***************************************************************************)
LOCAL INSTANCE Integers
LOCAL INSTANCE Sequences

CONSTANTS
    Ids,            \* invocation ids
    Records         \* audit record ids: the sequence numbers there are

VARIABLES
    trail,          \* the complete entries of the partition
    torn,           \* its last line is incomplete
    acked           \* how many entries are synced to disk

auditVars == <<trail, torn, acked>>

OutcomeKinds == {"succeeded", "failed", "outcome_unknown"}

Authorization(id) ==
    [type |-> "authorization", id |-> id, writeAhead |-> 0,
     outcome |-> "none"]

Outcome(id, writeAhead, outcome) ==
    [type |-> "outcome", id |-> id, writeAhead |-> writeAhead,
     outcome |-> outcome]

Entries ==
    [type : {"authorization"}, id : Ids, writeAhead : {0},
     outcome : {"none"}]
        \cup [type : {"outcome"}, id : Ids, writeAhead : Nat \ {0},
              outcome : OutcomeKinds]

\* An outcome names an earlier authorization of the partition whose
\* correlation fields equal its own.
Linkable(entry) ==
    entry.type = "outcome" =>
        /\ entry.writeAhead \in DOMAIN trail
        /\ trail[entry.writeAhead].type = "authorization"
        /\ trail[entry.writeAhead].id = entry.id

NextSequence == Len(trail) + 1

\* The whole file is read and verified first; an incomplete last line fails
\* that, for this append and every later one.  So does an exhausted sequence.
Accepts(entry) ==
    /\ ~torn
    /\ Linkable(entry)
    /\ NextSequence \in Records

\* The sync covers whatever came before.
Appended(entry) ==
    /\ Accepts(entry)
    /\ trail' = Append(trail, entry)
    /\ acked' = NextSequence
    /\ UNCHANGED torn

\* The append reports failure: the file could not be opened, locked or
\* verified, the entry does not link, or no sequence number is left.
AppendRefused == UNCHANGED auditVars

\* It reports failure although the entry is complete: the sync failed.
AppendUnacknowledged(entry) ==
    /\ Accepts(entry)
    /\ trail' = Append(trail, entry)
    /\ UNCHANGED <<torn, acked>>

\* It reports failure and leaves part of a line behind.
AppendTorn(entry) ==
    /\ Accepts(entry)
    /\ torn' = TRUE
    /\ UNCHANGED <<trail, acked>>

\* The machine goes down: what was not synced may be gone, from some point on,
\* or part of a line of it may remain.
Forget ==
    \E kept \in acked..Len(trail) :
        /\ trail' = SubSeq(trail, 1, kept)
        /\ \/ torn' = FALSE
           \/ torn' = TRUE /\ (torn \/ kept < Len(trail))
        /\ UNCHANGED acked

AuditInit == trail = <<>> /\ torn = FALSE /\ acked = 0

AuditNext ==
    \/ \E id \in Ids, writeAhead \in 0..Len(trail), outcome \in OutcomeKinds :
          \E entry \in {Authorization(id), Outcome(id, writeAhead, outcome)} :
             Appended(entry) \/ AppendUnacknowledged(entry) \/ AppendTorn(entry)
    \/ Forget

AuditSpec == AuditInit /\ [][AuditNext]_auditVars

=============================================================================
