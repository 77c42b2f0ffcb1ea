--------------------------- MODULE CapabilityTool ---------------------------
(***************************************************************************)
(* Capability tools of kiteframe_deepagents over a capability provider:      *)
(* tools.py (one tool call: correlation, persistence, invoke, status),       *)
(* suspension.py (the interrupt, the resume credential and where each is     *)
(* checked), and, at the other end of HTTP, what an invocation does to its   *)
(* row in the provider (routes.rs, invocation.rs).                           *)
(*                                                                          *)
(* A task is a LangGraph task that makes one tool call.  A graph run executes *)
(* all tasks that are not saved, each from the start of its node; a run ends *)
(* when all of them have finished or been interrupted, or when it dies.      *)
(* LangGraph itself is not part of the repository: runs, interrupts and the  *)
(* delivery of resume values are modelled as the adapter relies on them.     *)
(*                                                                          *)
(* Definitions marked Faulty are wrong on purpose, as in InvocationStore.    *)
(***************************************************************************)
EXTENDS Integers

CONSTANTS
    Tasks,          \* graph tasks, each with its own checkpoint namespace
    Gated,          \* those whose effect needs evidence: suspendable tools
    Restartable,    \* those whose store can load idempotency keys again
    Resumes,        \* does the provider take evidence as a resume?
    None,           \* no suspension, no evidence, no correlation
    Faults,         \* what the environment may do
    MaxIds,         \* bound on the correlations used for a task
    MaxCalls,       \* bound on the requests sent to the provider
    MaxFaults       \* bound on the faults that happen

ASSUME ToolAssumption ==
    /\ Gated \subseteq Tasks
    /\ Restartable \subseteq Tasks
    /\ Resumes \in BOOLEAN
    /\ MaxIds \in Nat
    /\ MaxCalls \in Nat
    /\ MaxFaults \in Nat
    /\ None \notin Nat
    /\ None \notin Tasks \X (1..MaxCalls)
    /\ Faults \subseteq {"crash", "loss", "outage", "storage", "refusal"}

VARIABLES
    \* The agent's process.
    running,        \* is a graph run under way?
    offered,        \* the resume value of this run that no task has taken
    nodes,          \* where each task's tool call stands
    \* What survives it: the checkpoint store and LangGraph's checkpointer.
    used,           \* how many correlations went out for each task
    correlations,   \* persisted invocation correlations
    keys,           \* persisted idempotency keys
    interrupts,     \* the suspension each task is saved as interrupted on
    resume,         \* the resume value written for the thread
    resumes,        \* the resume value each task has taken
    saved,          \* the tasks saved as finished
    \* The provider.
    calls,          \* the requests under way, by number
    sent,           \* how many requests were sent
    rows,           \* a map from correlations <<task, id>> to rows
    effects,        \* how often each task's effect has happened
    faults          \* how many faults there have been

agentVars == <<running, offered, nodes>>
savedVars == <<used, correlations, keys, interrupts, resume, resumes, saved>>
providerVars == <<calls, sent, rows, effects>>
vars == <<agentVars, savedVars, providerVars, faults>>

-----------------------------------------------------------------------------
(* Tool calls, requests and rows.                                           *)

\* A suspension is told by the task it is about and its checkpoint reference,
\* unguessable and unique: the number of the request that it was issued for.
Suspensions == Tasks \X (1..MaxCalls)

NodePcs == {"idle", "persist", "persist_key", "invoke", "status", "waiting",
            "interrupted", "done"}
ToolAnswers == {"none", "succeeded", "failed", "denied", "outcome_unknown",
                "deferred", "error"}

Nodes ==
    [pc : NodePcs, id : Nat \cup {None}, evidence : Suspensions \cup {None},
     call : Nat, suspension : Suspensions \cup {None}, answer : ToolAnswers]

IdleNode == [pc |-> "idle", id |-> None, evidence |-> None, call |-> 0,
             suspension |-> None, answer |-> "none"]

RowStates == {"reserved", "suspended", "pending", "succeeded", "failed",
              "outcome_unknown", "abandoned"}
CallPcs == {"sent", "suspend", "begin", "resume", "execute", "settle",
            "answered"}
CallAnswers == {"none", "suspended", "deferred", "pending", "succeeded",
                "failed", "denied", "outcome_unknown", "error"}

Requests ==
    [task : Tasks, id : Nat, kind : {"invoke", "status"},
     evidence : Suspensions \cup {None}, pc : CallPcs, answer : CallAnswers,
     suspension : Suspensions \cup {None}]

Rows == [state : RowStates, suspension : Suspensions \cup {None}]

RowOf(c) == <<calls[c].task, calls[c].id>>

\* The state of the row a request is about.
StateOf(c) == IF RowOf(c) \in DOMAIN rows THEN rows[RowOf(c)].state
                                         ELSE "absent"

SetRow(c, state, suspension) ==
    rows' = [r \in DOMAIN rows \cup {RowOf(c)} |->
                IF r = RowOf(c) THEN [state |-> state, suspension |-> suspension]
                                ELSE rows[r]]

\* Only the state changes.
MoveRow(c, state) == rows' = [rows EXCEPT ![RowOf(c)].state = state]

Go(t, pc) == nodes' = [nodes EXCEPT ![t] = [@ EXCEPT !.pc = pc]]

\* _arun returns or raises a ToolException, which the tool turns into an answer.
FinishedNode(node, answer) ==
    [node EXCEPT !.pc = "done", !.answer = answer, !.call = 0,
                 !.evidence = None]

Finish(t, answer) == nodes' = [nodes EXCEPT ![t] = FinishedNode(@, answer)]

Finished(t) == nodes[t].pc \in {"done", "interrupted"}

-----------------------------------------------------------------------------
(* A tool call up to its first request.                                     *)

\* Faulty: every execution of the node is a new invocation.
NeverStored(t) == None

\* What the checkpoint store holds of an earlier execution of this node.
Stored(t) ==
    IF t \in Gated /\ correlations[t] # None THEN correlations[t]
    ELSE IF t \in Restartable THEN keys[t] ELSE None

\* _invocation_correlation: an invocation id and a key, loaded or new.  One that
\* never went out is as good as new: generating it uses none up.
Correlate(t) ==
    /\ running
    /\ nodes[t].pc = "idle"
    /\ LET pc == IF t \in Gated THEN "persist" ELSE "persist_key"
       IN  IF Stored(t) # None
             THEN nodes' = [nodes EXCEPT ![t] = [@ EXCEPT !.pc = pc, !.id = Stored(t)]]
             ELSE /\ used[t] < MaxIds
                  /\ nodes' = [nodes EXCEPT ![t] = [@ EXCEPT !.pc = pc, !.id = used[t] + 1]]
    /\ UNCHANGED <<running, offered, savedVars, providerVars>>

\* _persist_invocation_correlation, first await.
PersistCorrelation(t) ==
    /\ nodes[t].pc = "persist"
    /\ correlations' = [correlations EXCEPT ![t] = nodes[t].id]
    /\ Go(t, "persist_key")
    /\ UNCHANGED <<running, offered, used, keys, interrupts, resume, resumes,
                   saved, providerVars>>

\* Its second await.
PersistKey(t) ==
    /\ nodes[t].pc = "persist_key"
    /\ keys' = [keys EXCEPT ![t] = nodes[t].id]
    /\ Go(t, "invoke")
    /\ UNCHANGED <<running, offered, used, correlations, interrupts, resume,
                   resumes, saved, providerVars>>

\* A load or a write of the checkpoint store raises.
CheckpointStoreFails(t) ==
    /\ "storage" \in Faults
    /\ running
    /\ nodes[t].pc \in {"idle", "persist", "persist_key"}
    /\ Finish(t, "error")
    /\ UNCHANGED <<running, offered, savedVars, providerVars>>

\* self.invoker.invoke(request) and self.invoker.status(request): one POST or
\* GET, which the HTTP client never repeats.
Send(t) ==
    /\ nodes[t].pc \in {"invoke", "status"}
    /\ sent < MaxCalls
    /\ sent' = sent + 1
    /\ calls' = [c \in DOMAIN calls \cup {sent + 1} |->
                    IF c \in DOMAIN calls THEN calls[c]
                    ELSE [task |-> t, id |-> nodes[t].id, kind |-> nodes[t].pc,
                          evidence |-> nodes[t].evidence, pc |-> "sent",
                          answer |-> "none", suspension |-> None]]
    /\ nodes' = [nodes EXCEPT ![t] = [@ EXCEPT !.pc = "waiting", !.call = sent + 1]]
    /\ used' = [used EXCEPT ![t] = IF nodes[t].id > @ THEN nodes[t].id ELSE @]
    /\ UNCHANGED <<running, offered, correlations, keys, interrupts, resume,
                   resumes, saved, rows, effects>>

-----------------------------------------------------------------------------
(* Answers, the interrupt and the resume.                                   *)

\* A run ends.  What the kept tasks did is saved; an interrupted task is
\* executed again by the next run, and so is one whose result was lost.
EndRun(kept) ==
    /\ running' = FALSE
    /\ offered' = None
    /\ saved' = saved \cup {t \in kept : nodes[t].pc = "done"}
    /\ interrupts' = [t \in Tasks |->
          IF t \in kept /\ nodes[t].pc = "interrupted" THEN nodes[t].suspension
                                                       ELSE interrupts[t]]
    /\ nodes' = [t \in Tasks |-> IF t \in saved' THEN nodes[t] ELSE IdleNode]

\* What interrupt() has for this task: the value it took before, or the one
\* written for the thread.
ResumeValue(t) == IF resumes[t] # None THEN resumes[t] ELSE offered

\* Faulty: any verified credential will do.
AnyMeantFor(value, suspension) == TRUE

\* Is the resume value for the suspension the task is in?  The bridge compares
\* the envelopes in full.
MeantFor(value, suspension) == value = suspension

\* interrupt() without a resume value: the task is interrupted.
Interrupt(t, suspension) ==
    /\ nodes' = [nodes EXCEPT ![t] = [@ EXCEPT !.pc = "interrupted", !.call = 0,
                                              !.suspension = suspension]]
    /\ UNCHANGED <<running, offered, savedVars>>

\* The bridge raises, which no tool turns into an answer: the run is over.
Raise ==
    /\ \E kept \in SUBSET Tasks : EndRun(kept)
    /\ UNCHANGED <<used, correlations, keys, resume, resumes>>

\* build_resumed_invocation_request: the invocation goes out again.
Present(t, evidence) ==
    /\ resumes' = [resumes EXCEPT ![t] = evidence]
    /\ offered' = IF resumes[t] = None THEN None ELSE offered
    /\ nodes' = [nodes EXCEPT ![t] = [@ EXCEPT !.pc = "invoke", !.call = 0,
                                              !.evidence = evidence]]
    /\ UNCHANGED <<running, used, correlations, keys, interrupts, resume, saved>>

\* LangGraphSuspensionBridge.suspend, and _suspend after it.
Suspend(t, suspension) ==
    LET value == ResumeValue(t)
    IN  \/ value = None /\ Interrupt(t, suspension)
        \/ value # None /\ ~MeantFor(value, suspension) /\ Raise
        \/ value # None /\ MeantFor(value, suspension) /\ Present(t, value)

\* _resolve_outcome and _resolve_status.  An invocation that is deferred or in
\* doubt is followed by a status query, and its answer stands.
Receive(t) ==
    /\ nodes[t].pc = "waiting"
    /\ nodes[t].call \in DOMAIN calls
    /\ LET call == calls[nodes[t].call]
       IN  /\ call.pc = "answered"
           /\ \/ /\ call.answer = "suspended"
                 /\ Suspend(t, call.suspension)
              \/ /\ call.kind = "invoke"
                 /\ call.answer \in {"deferred", "outcome_unknown"}
                 /\ nodes' = [nodes EXCEPT ![t] = [@ EXCEPT !.pc = "status", !.call = 0]]
                 /\ UNCHANGED <<running, offered, savedVars>>
              \/ /\ call.answer \in {"succeeded", "failed", "denied", "error"}
                 /\ Finish(t, call.answer)
                 /\ UNCHANGED <<running, offered, savedVars>>
              \/ /\ call.kind = "status"
                 /\ call.answer \in {"pending", "outcome_unknown"}
                 /\ Finish(t, IF call.answer = "pending" THEN "deferred"
                                                         ELSE "outcome_unknown")
                 /\ UNCHANGED <<running, offered, savedVars>>
    /\ calls' = [c \in DOMAIN calls \ {nodes[t].call} |-> calls[c]]
    /\ UNCHANGED <<sent, rows, effects>>

\* The connection breaks: PROVIDER_UNAVAILABLE.
Disconnected(t) ==
    /\ nodes[t].pc = "waiting"
    /\ nodes[t].call \notin DOMAIN calls
    /\ Finish(t, "error")
    /\ UNCHANGED <<running, offered, savedVars, providerVars>>

\* The request times out: the same, while the provider is still at it.
TimeOut(t) ==
    /\ "loss" \in Faults
    /\ nodes[t].pc = "waiting"
    /\ nodes[t].call \in DOMAIN calls
    /\ Finish(t, "error")
    /\ UNCHANGED <<running, offered, savedVars, providerVars>>

\* A person decides: the evidence handle is resolved, resume_command accepts
\* the credential, and the checkpointer a write for a suspension it holds.
Approve(suspension) ==
    /\ ~running
    /\ \E t \in Tasks \ saved : interrupts[t] = suspension
    /\ resume # suspension
    /\ resume' = suspension
    /\ UNCHANGED <<agentVars, used, correlations, keys, interrupts, resumes,
                   saved, providerVars>>

\* The graph is invoked on its thread, for the first time or again.
StartRun ==
    /\ ~running
    /\ saved # Tasks
    /\ running' = TRUE
    /\ offered' = resume
    /\ UNCHANGED <<nodes, savedVars, providerVars>>

\* The run ends when no task is left to execute.
FinishRun ==
    /\ running
    /\ \A t \in Tasks : Finished(t)
    /\ EndRun(Tasks)
    /\ UNCHANGED <<used, correlations, keys, resume, resumes, providerVars>>

AgentCrash ==
    /\ "crash" \in Faults
    /\ running
    /\ \E kept \in SUBSET {t \in Tasks : Finished(t)} : EndRun(kept)
    /\ UNCHANGED <<used, correlations, keys, resume, resumes, providerVars>>

-----------------------------------------------------------------------------
(* The provider.                                                            *)

Awaited(c) == \E t \in Tasks : nodes[t].pc = "waiting" /\ nodes[t].call = c

\* A response to nobody is gone.
Respond(c, answer, suspension) ==
    calls' = IF Awaited(c)
               THEN [calls EXCEPT ![c].pc = "answered", ![c].answer = answer,
                                  ![c].suspension = suspension]
               ELSE [d \in DOMAIN calls \ {c} |-> calls[d]]

Proceed(c, pc) == calls' = [calls EXCEPT ![c].pc = pc]

Invoked(c) == calls[c].kind = "invoke" /\ calls[c].pc = "sent"

EvidenceMissing(c) == calls[c].task \in Gated /\ calls[c].evidence = None

\* validate refuses: a grant expired, a principal is unverified, a precondition
\* is stale (PointOfUse has each of these checks).
Refuse(c) ==
    /\ "refusal" \in Faults
    /\ Invoked(c)
    /\ Respond(c, "error", None)
    /\ UNCHANGED <<agentVars, savedVars, sent, rows, effects>>

\* validate finds evidence missing; persist_suspension reserves a row.  For one
\* that exists already it has just issued another checkpoint, and refuses.
ReserveSuspension(c) ==
    /\ Invoked(c)
    /\ EvidenceMissing(c)
    /\ \/ /\ StateOf(c) = "absent"
          /\ SetRow(c, "reserved", None)
          /\ Proceed(c, "suspend")
       \/ /\ StateOf(c) = "reserved"
          /\ Proceed(c, "suspend")
          /\ UNCHANGED rows
       \/ /\ StateOf(c) \notin {"absent", "reserved"}
          /\ ~Resumes
          /\ Respond(c, "error", None)
          /\ UNCHANGED rows
    /\ UNCHANGED <<agentVars, savedVars, sent, effects>>

\* The provider that the adapter's tests play answers a suspended invocation
\* with its suspension again, and any other with where it stands.
AnswerAgain(c) ==
    /\ Resumes
    /\ Invoked(c)
    /\ EvidenceMissing(c)
    /\ StateOf(c) \notin {"absent", "reserved"}
    /\ IF StateOf(c) = "suspended"
         THEN Respond(c, "suspended", rows[RowOf(c)].suspension)
         ELSE Respond(c, "deferred", None)
    /\ UNCHANGED <<agentVars, savedVars, sent, rows, effects>>

\* The swap to suspended, compared with reserved.
SwapSuspended(c) ==
    /\ calls[c].pc = "suspend"
    /\ IF StateOf(c) = "reserved"
         THEN /\ SetRow(c, "suspended", <<calls[c].task, c>>)
              /\ Respond(c, "suspended", <<calls[c].task, c>>)
         ELSE /\ Respond(c, "error", None)
              /\ UNCHANGED rows
    /\ UNCHANGED <<agentVars, savedVars, sent, effects>>

\* execute_effect reserves.  An existing row is not executed again, unless it
\* is a suspension that this request resumes.
ReserveEffect(c) ==
    /\ Invoked(c)
    /\ ~EvidenceMissing(c)
    /\ \/ /\ StateOf(c) = "absent"
          /\ SetRow(c, "reserved", None)
          /\ Proceed(c, "begin")
       \/ /\ Resumes /\ StateOf(c) = "suspended"
          /\ Proceed(c, "resume")
          /\ UNCHANGED rows
       \/ /\ StateOf(c) # "absent"
          /\ ~(Resumes /\ StateOf(c) = "suspended")
          /\ Respond(c, IF StateOf(c) = "outcome_unknown" THEN "outcome_unknown"
                                                          ELSE "deferred", None)
          /\ UNCHANGED rows
    /\ UNCHANGED <<agentVars, savedVars, sent, effects>>

\* The authorization record and the swap to pending, compared with the state
\* the reservation found.
Begin(c) ==
    /\ calls[c].pc \in {"begin", "resume"}
    /\ IF StateOf(c) = IF calls[c].pc = "begin" THEN "reserved" ELSE "suspended"
         THEN MoveRow(c, "pending") /\ Proceed(c, "execute")
         ELSE Respond(c, "error", None) /\ UNCHANGED rows
    /\ UNCHANGED <<agentVars, savedVars, sent, effects>>

\* The operation runs.
Execute(c) ==
    /\ calls[c].pc = "execute"
    /\ effects' = [effects EXCEPT ![calls[c].task] = @ + 1]
    /\ Proceed(c, "settle")
    /\ UNCHANGED <<agentVars, savedVars, sent, rows>>

\* Faulty: the answer does not wait for the swap.
SettleUnchecked(c) ==
    /\ calls[c].pc = "settle"
    /\ \E result \in {"succeeded", "failed"} :
          /\ MoveRow(c, result) \/ UNCHANGED rows
          /\ Respond(c, result, None)
    /\ UNCHANGED <<agentVars, savedVars, sent, effects>>

\* The outcome record and the last swap.
Settle(c) ==
    /\ calls[c].pc = "settle"
    /\ \E result \in {"succeeded", "failed"} :
          MoveRow(c, result) /\ Respond(c, result, None)
    /\ UNCHANGED <<agentVars, savedVars, sent, effects>>

\* The provider's store fails: nothing is written.  After the effect the answer
\* is that nobody knows, before it an error.
ProviderStoreFails(c) ==
    /\ "storage" \in Faults
    /\ \/ /\ calls[c].pc \in {"sent", "suspend", "begin", "resume"}
          /\ Respond(c, "error", None)
          /\ UNCHANGED rows
       \/ /\ calls[c].pc = "settle"
          /\ rows' \in {rows, [rows EXCEPT ![RowOf(c)].state = "outcome_unknown"]}
          /\ Respond(c, "outcome_unknown", None)
    /\ UNCHANGED <<agentVars, savedVars, sent, effects>>

\* GET: the row's portable projection, or an error when there is none.
AnswerStatus(c) ==
    /\ calls[c].kind = "status"
    /\ calls[c].pc = "sent"
    /\ LET answer ==
             CASE StateOf(c) = "absent"    -> "error"
               [] StateOf(c) = "reserved"  -> "pending"
               [] StateOf(c) = "abandoned" -> "denied"
               [] OTHER                    -> StateOf(c)
       IN  Respond(c, answer, IF answer = "suspended"
                                THEN rows[RowOf(c)].suspension ELSE None)
    /\ UNCHANGED <<agentVars, savedVars, sent, rows, effects>>

\* A request never arrives, its handler is dropped with its connection, or its
\* answer is lost.
Lose(c) ==
    /\ "loss" \in Faults
    /\ calls' = [d \in DOMAIN calls \ {c} |-> calls[d]]
    /\ UNCHANGED <<agentVars, savedVars, sent, rows, effects>>

\* The provider goes down and comes up again: requests are gone, and opening
\* the store puts what was under way in doubt.
Outage ==
    /\ "outage" \in Faults
    /\ calls' = <<>>
    /\ rows' = [r \in DOMAIN rows |->
                   IF rows[r].state \in {"reserved", "pending"}
                     THEN [rows[r] EXCEPT !.state = "outcome_unknown"]
                     ELSE rows[r]]
    /\ UNCHANGED <<agentVars, savedVars, sent, effects>>

\* An operator gives an invocation in doubt up.
Abandon ==
    /\ \E r \in DOMAIN rows :
          /\ rows[r].state = "outcome_unknown"
          /\ rows' = [rows EXCEPT ![r].state = "abandoned"]
    /\ UNCHANGED <<agentVars, savedVars, calls, sent, effects>>

-----------------------------------------------------------------------------
Init ==
    /\ running = FALSE
    /\ offered = None
    /\ nodes = [t \in Tasks |-> IdleNode]
    /\ used = [t \in Tasks |-> 0]
    /\ correlations = [t \in Tasks |-> None]
    /\ keys = [t \in Tasks |-> None]
    /\ interrupts = [t \in Tasks |-> None]
    /\ resume = None
    /\ resumes = [t \in Tasks |-> None]
    /\ saved = {}
    /\ calls = <<>>
    /\ sent = 0
    /\ rows = <<>>
    /\ effects = [t \in Tasks |-> 0]
    /\ faults = 0

\* The tool call of a task.
Tool(t) ==
    \/ Correlate(t) \/ PersistCorrelation(t) \/ PersistKey(t)
    \/ Send(t) \/ Receive(t) \/ Disconnected(t)

\* A request at the provider.
Handle(c) ==
    \/ ReserveSuspension(c) \/ AnswerAgain(c) \/ SwapSuspended(c)
    \/ ReserveEffect(c) \/ Begin(c) \/ Execute(c) \/ Settle(c)
    \/ AnswerStatus(c)

Work ==
    \/ \E t \in Tasks : Tool(t)
    \/ \E c \in DOMAIN calls : Handle(c)
    \/ \E suspension \in Suspensions : Approve(suspension)
    \/ StartRun \/ FinishRun
    \/ Abandon

Fault ==
    \/ \E t \in Tasks : CheckpointStoreFails(t) \/ TimeOut(t)
    \/ \E c \in DOMAIN calls : Refuse(c) \/ ProviderStoreFails(c) \/ Lose(c)
    \/ AgentCrash
    \/ Outage

Next ==
    \/ Work /\ UNCHANGED faults
    \/ Fault /\ faults < MaxFaults /\ faults' = faults + 1

Spec == Init /\ [][Next]_vars

-----------------------------------------------------------------------------
(* Properties.                                                              *)

ToolTypeOK ==
    /\ running \in BOOLEAN
    /\ offered \in Suspensions \cup {None}
    /\ nodes \in [Tasks -> Nodes]
    /\ used \in [Tasks -> Nat]
    /\ correlations \in [Tasks -> Nat \cup {None}]
    /\ keys \in [Tasks -> Nat \cup {None}]
    /\ interrupts \in [Tasks -> Suspensions \cup {None}]
    /\ resume \in Suspensions \cup {None}
    /\ resumes \in [Tasks -> Suspensions \cup {None}]
    /\ saved \subseteq Tasks
    /\ sent \in 0..MaxCalls
    /\ DOMAIN calls \subseteq 1..sent
    /\ \A c \in DOMAIN calls : calls[c] \in Requests
    /\ DOMAIN rows \subseteq Tasks \X Nat
    /\ \A r \in DOMAIN rows : rows[r] \in Rows
    /\ effects \in [Tasks -> Nat]
    /\ faults \in Nat

\* A graph task has its effect at most once, however often its node is executed:
\* after a crash of the agent between any two awaits, a lost result, an answer
\* that never came, an interrupt and its resume, an outage of the provider.
\* (A store that can load nothing again cannot promise it.)
EffectOncePerTask ==
    \A t \in Gated \cup Restartable : effects[t] <= 1

\* What the tool tells the model is what happened: success, and a failure with
\* a stable error, are told of an effect that took place, once, and of a row
\* that says so, even when the answer was read in an earlier run.
ToldTruth ==
    \A t \in Gated \cup Restartable :
        nodes[t].pc = "done" /\ nodes[t].answer \in {"succeeded", "failed"} =>
            /\ effects[t] = 1
            /\ rows[<<t, nodes[t].id>>].state = nodes[t].answer

\* Evidence goes out only with the invocation it was given for: of the tasks of
\* one thread, all of which can see the value a person resumes it with, only
\* the one that was suspended for it presents it.
EvidenceForOwnSuspension ==
    \A c \in DOMAIN calls :
        calls[c].evidence # None =>
            /\ RowOf(c) \in DOMAIN rows
            /\ rows[RowOf(c)].suspension = calls[c].evidence

\* "`suspendable`: may return a durable confirmation, approval, or consent
\* suspension that is resumed from a checkpoint": a task that a person approved
\* and nothing went wrong with has had its effect when its tool call is over.
ApprovedEffectsRun ==
    \A t \in Gated :
        /\ nodes[t].pc = "done"
        /\ resume # None /\ resume[1] = t
        => effects[t] = 1

=============================================================================
