----------------------------- MODULE ToolProofs -----------------------------
(***************************************************************************)
(* A capability tool has its effect at most once, tells the truth of it, and *)
(* presents evidence only with the invocation it was given for: for all      *)
(* tasks, any faults, any bounds, and a provider that takes evidence as a     *)
(* resume or does not.                                                       *)
(*                                                                          *)
(* A task whose correlation can be loaded again has one identity once it is  *)
(* persisted, so all its requests are about one row, and only the request    *)
(* that moved the row to pending has the effect.                             *)
(***************************************************************************)
EXTENDS CapabilityTool, TLAPS

Rec == Gated \cup Restartable

\* What identifies a task, once it is persisted.
KeyOf(t) == IF t \in Gated THEN correlations[t] ELSE keys[t]

RowFor(t) == <<t, KeyOf(t)>>

AtWork(c) == calls[c].pc \in {"execute", "settle"}

\* What is under way or stored of a task is about its persisted identity.
NodesKeyed ==
    \A t \in Tasks :
        /\ nodes[t].pc \in {"persist", "persist_key", "invoke", "status", "waiting"}
              => nodes[t].id # None
        /\ t \in Rec /\ nodes[t].pc \in {"invoke", "status", "waiting"}
              => nodes[t].id = KeyOf(t)
        /\ t \in Rec /\ nodes[t].pc \in {"persist", "persist_key"}
              => KeyOf(t) \in {None, nodes[t].id}
        /\ t \in Gated /\ nodes[t].pc = "persist_key"
              => correlations[t] = nodes[t].id

CallsKeyed ==
    \A c \in DOMAIN calls :
        calls[c].task \in Rec => calls[c].id = KeyOf(calls[c].task)

RowsKeyed == \A r \in DOMAIN rows : r[1] \in Rec => r[2] = KeyOf(r[1])

\* A tool waits for a request of its own.
CallsLinked ==
    \A t \in Tasks :
        nodes[t].pc = "waiting" =>
            /\ nodes[t].call <= sent
            /\ nodes[t].call \in DOMAIN calls =>
                  /\ calls[nodes[t].call].task = t
                  /\ calls[nodes[t].call].id = nodes[t].id

\* A row that was suspended keeps its suspension.
NotYetSuspended ==
    \A r \in DOMAIN rows :
        /\ rows[r].state = "reserved" => rows[r].suspension = None
        /\ rows[r].state = "suspended" => rows[r].suspension # None

SuspensionsTold ==
    \A c \in DOMAIN calls :
        calls[c].answer = "suspended" =>
            /\ calls[c].suspension # None
            /\ RowOf(c) \in DOMAIN rows
            /\ rows[RowOf(c)].suspension = calls[c].suspension

EvidenceHeld ==
    \A t \in Tasks :
        nodes[t].evidence # None =>
            /\ nodes[t].pc # "idle"
            /\ <<t, nodes[t].id>> \in DOMAIN rows
            /\ rows[<<t, nodes[t].id>>].suspension = nodes[t].evidence

\* One request at most has a row pending and its effect under way.
OneAtWork ==
    \A c, d \in DOMAIN calls :
        /\ AtWork(c)
        /\ AtWork(d)
        /\ calls[c].task \in Rec
        /\ calls[c].task = calls[d].task
        => c = d

WorkIsPending ==
    \A c \in DOMAIN calls :
        AtWork(c) /\ calls[c].task \in Rec =>
            /\ RowOf(c) \in DOMAIN rows
            /\ rows[RowOf(c)].state = "pending"
            /\ effects[calls[c].task] = IF calls[c].pc = "execute" THEN 0 ELSE 1

OutcomesStored ==
    \A c \in DOMAIN calls :
        calls[c].task \in Rec /\ calls[c].answer \in {"succeeded", "failed"} =>
            /\ RowOf(c) \in DOMAIN rows
            /\ rows[RowOf(c)].state = calls[c].answer

\* The effect of a task is accounted for by its row.
EffectsStored ==
    \A t \in Rec :
        /\ effects[t] \in {0, 1}
        /\ effects[t] # 0 =>
              /\ RowFor(t) \in DOMAIN rows
              /\ rows[RowFor(t)].state \notin {"reserved", "suspended"}
        /\ RowFor(t) \in DOMAIN rows /\ rows[RowFor(t)].state \in {"succeeded", "failed"}
              => effects[t] = 1

AnswersStored ==
    \A t \in Rec :
        nodes[t].pc = "done" /\ nodes[t].answer \in {"succeeded", "failed"} =>
            /\ nodes[t].id = KeyOf(t)
            /\ RowFor(t) \in DOMAIN rows
            /\ rows[RowFor(t)].state = nodes[t].answer

Keyed == NodesKeyed /\ CallsKeyed /\ RowsKeyed /\ CallsLinked

Suspended == NotYetSuspended /\ SuspensionsTold /\ EvidenceHeld /\ EvidenceForOwnSuspension

Effected == OneAtWork /\ WorkIsPending /\ OutcomesStored /\ EffectsStored /\ AnswersStored

ToolInvariant == ToolTypeOK /\ Keyed /\ Suspended /\ Effected

-----------------------------------------------------------------------------
(* What the provider's steps have in common.                                *)

ServerStep(c) == Handle(c) \/ Refuse(c) \/ ProviderStoreFails(c) \/ Lose(c)

\* A request is worked on: it changes where it stands, or is gone.
CallsServed(c) ==
    /\ DOMAIN calls' \subseteq DOMAIN calls
    /\ \A d \in DOMAIN calls' :
          /\ calls'[d] \in Requests
          /\ calls'[d].task = calls[d].task
          /\ calls'[d].id = calls[d].id
          /\ calls'[d].evidence = calls[d].evidence
          /\ d # c => calls'[d] = calls[d]

\* No row but its own is touched, and none is lost.
RowsServed(c) ==
    /\ DOMAIN rows \subseteq DOMAIN rows'
    /\ DOMAIN rows' \subseteq DOMAIN rows \cup {RowOf(c)}
    /\ \A r \in DOMAIN rows' :
          /\ rows'[r] \in Rows
          /\ r # RowOf(c) => rows'[r] = rows[r]

\* An answer reaches its tool or nobody.
LEMMA RespondServes ==
    ASSUME ToolTypeOK, NEW c \in DOMAIN calls,
           NEW answer \in CallAnswers, NEW suspension \in Suspensions \cup {None},
           Respond(c, answer, suspension)
    PROVE  /\ CallsServed(c)
           /\ c \in DOMAIN calls' =>
                 /\ calls'[c].pc = "answered"
                 /\ calls'[c].answer = answer
                 /\ calls'[c].suspension = suspension
<1> DEFINE call == [calls[c] EXCEPT !.pc = "answered", !.answer = answer,
                                   !.suspension = suspension]
<1>1. \A d \in DOMAIN calls : calls[d] \in Requests
  BY DEF ToolTypeOK
<1>2. /\ call \in Requests
      /\ call.task = calls[c].task /\ call.id = calls[c].id
      /\ call.evidence = calls[c].evidence
      /\ call.pc = "answered" /\ call.answer = answer /\ call.suspension = suspension
  BY <1>1 DEF Requests, CallPcs
<1>3. CASE Awaited(c)
  <2>1. calls' = [calls EXCEPT ![c] = call]
    BY <1>3 DEF Respond
  <2> HIDE DEF call
  <2> QED
    BY <1>1, <1>2, <2>1 DEF CallsServed
<1>4. CASE ~Awaited(c)
  <2>1. calls' = [d \in DOMAIN calls \ {c} |-> calls[d]]
    BY <1>4 DEF Respond
  <2> QED
    BY <1>1, <2>1 DEF CallsServed
<1> QED
  BY <1>3, <1>4

LEMMA ProceedServes ==
    ASSUME ToolTypeOK, NEW c \in DOMAIN calls, NEW pc \in CallPcs, Proceed(c, pc)
    PROVE  /\ CallsServed(c)
           /\ c \in DOMAIN calls' =>
                 /\ calls'[c].pc = pc
                 /\ calls'[c].answer = calls[c].answer
                 /\ calls'[c].suspension = calls[c].suspension
  BY DEF ToolTypeOK, Proceed, CallsServed, Requests

LEMMA SetRowServes ==
    ASSUME ToolTypeOK, NEW c \in DOMAIN calls, NEW state \in RowStates,
           NEW suspension \in Suspensions \cup {None}, SetRow(c, state, suspension)
    PROVE  /\ RowsServed(c)
           /\ DOMAIN rows' = DOMAIN rows \cup {RowOf(c)}
           /\ rows'[RowOf(c)].state = state
           /\ rows'[RowOf(c)].suspension = suspension
  BY DEF ToolTypeOK, SetRow, RowsServed, Rows

LEMMA MoveRowServes ==
    ASSUME ToolTypeOK, NEW c \in DOMAIN calls, RowOf(c) \in DOMAIN rows,
           NEW state \in RowStates, MoveRow(c, state)
    PROVE  /\ RowsServed(c)
           /\ DOMAIN rows' = DOMAIN rows
           /\ rows'[RowOf(c)].state = state
           /\ rows'[RowOf(c)].suspension = rows[RowOf(c)].suspension
  BY DEF ToolTypeOK, MoveRow, RowsServed, Rows

LEMMA SameRowsServe ==
    ASSUME ToolTypeOK, NEW c \in DOMAIN calls, UNCHANGED rows
    PROVE  RowsServed(c)
  BY DEF ToolTypeOK, RowsServed

\* A row that is found in a state is there.
LEMMA StateFound ==
    ASSUME ToolTypeOK, NEW c \in DOMAIN calls
    PROVE  /\ StateOf(c) # "absent" => RowOf(c) \in DOMAIN rows
           /\ RowOf(c) \in DOMAIN rows =>
                 /\ StateOf(c) = rows[RowOf(c)].state
                 /\ StateOf(c) \in RowStates
                 /\ StateOf(c) # "absent"
  BY DEF ToolTypeOK, StateOf, Rows, RowStates

\* Every step of the provider for a request serves it.
LEMMA ServerServes ==
    ASSUME ToolTypeOK, ToolAssumption, NEW c \in DOMAIN calls, ServerStep(c)
    PROVE  UNCHANGED <<agentVars, savedVars, sent>> /\ CallsServed(c) /\ RowsServed(c)
<1> USE DEF CallAnswers
<1>n. None \in Suspensions \cup {None}
  OBVIOUS
<1>s. <<calls[c].task, c>> \in Suspensions
  BY DEF ToolTypeOK, Suspensions, Requests, ToolAssumption
<1>r. RowOf(c) \in DOMAIN rows => rows[RowOf(c)].suspension \in Suspensions \cup {None}
  BY DEF ToolTypeOK, Rows
<1>1. CASE ReserveSuspension(c)
  <2>1. CASE SetRow(c, "reserved", None) /\ Proceed(c, "suspend")
    BY <1>1, <2>1, ProceedServes, SetRowServes DEF ReserveSuspension, CallPcs, RowStates
  <2>2. CASE Proceed(c, "suspend") /\ UNCHANGED rows
    BY <1>1, <2>2, ProceedServes, SameRowsServe DEF ReserveSuspension, CallPcs
  <2>3. CASE Respond(c, "error", None) /\ UNCHANGED rows
    BY <1>1, <2>3, RespondServes, SameRowsServe DEF ReserveSuspension
  <2> QED
    BY <1>1, <2>1, <2>2, <2>3 DEF ReserveSuspension
<1>2. CASE AnswerAgain(c)
  <2>1. CASE Respond(c, "deferred", None)
    BY <1>2, <2>1, RespondServes, SameRowsServe DEF AnswerAgain
  <2>2. CASE StateOf(c) = "suspended" /\ Respond(c, "suspended", rows[RowOf(c)].suspension)
    BY <1>2, <2>2, <1>r, StateFound, RespondServes, SameRowsServe DEF AnswerAgain
  <2> QED
    BY <1>2, <2>1, <2>2 DEF AnswerAgain
<1>3. CASE SwapSuspended(c)
  <2>1. CASE /\ SetRow(c, "suspended", <<calls[c].task, c>>)
             /\ Respond(c, "suspended", <<calls[c].task, c>>)
    BY <1>3, <2>1, <1>s, SetRowServes, RespondServes DEF SwapSuspended, RowStates
  <2>2. CASE Respond(c, "error", None) /\ UNCHANGED rows
    BY <1>3, <2>2, RespondServes, SameRowsServe DEF SwapSuspended
  <2> QED
    BY <1>3, <2>1, <2>2 DEF SwapSuspended
<1>4. CASE ReserveEffect(c)
  <2>1. CASE SetRow(c, "reserved", None) /\ Proceed(c, "begin")
    BY <1>4, <2>1, ProceedServes, SetRowServes DEF ReserveEffect, CallPcs, RowStates
  <2>2. CASE Proceed(c, "resume") /\ UNCHANGED rows
    BY <1>4, <2>2, ProceedServes, SameRowsServe DEF ReserveEffect, CallPcs
  <2>3. CASE UNCHANGED rows /\ \E answer \in {"outcome_unknown", "deferred"} : Respond(c, answer, None)
    BY <1>4, <2>3, RespondServes, SameRowsServe DEF ReserveEffect
  <2> QED
    BY <1>4, <2>1, <2>2, <2>3 DEF ReserveEffect
<1>5. CASE Begin(c)
  <2>1. CASE /\ StateOf(c) \in {"reserved", "suspended"}
             /\ MoveRow(c, "pending")
             /\ Proceed(c, "execute")
    BY <1>5, <2>1, StateFound, ProceedServes, MoveRowServes DEF Begin, CallPcs, RowStates
  <2>2. CASE Respond(c, "error", None) /\ UNCHANGED rows
    BY <1>5, <2>2, RespondServes, SameRowsServe DEF Begin
  <2> QED
    BY <1>5, <2>1, <2>2 DEF Begin
<1>6. CASE Execute(c)
  BY <1>6, ProceedServes, SameRowsServe DEF Execute, CallPcs
<1>7. CASE Settle(c)
  <2>1. PICK result \in {"succeeded", "failed"} : MoveRow(c, result) /\ Respond(c, result, None)
    BY <1>7 DEF Settle
  <2>2. rows' = [rows EXCEPT ![RowOf(c)].state = result]
    BY <2>1 DEF MoveRow
  <2>3. RowsServed(c)
    BY <2>2 DEF ToolTypeOK, RowsServed, Rows, RowStates
  <2> QED
    BY <1>7, <2>1, <2>3, RespondServes DEF Settle
<1>8. CASE AnswerStatus(c)
  <2> DEFINE answer == CASE StateOf(c) = "absent"    -> "error"
                         [] StateOf(c) = "reserved"  -> "pending"
                         [] StateOf(c) = "abandoned" -> "denied"
                         [] OTHER                    -> StateOf(c)
             suspension == IF answer = "suspended" THEN rows[RowOf(c)].suspension ELSE None
  <2>1. Respond(c, answer, suspension)
    BY <1>8 DEF AnswerStatus
  <2>2. answer \in CallAnswers
    BY StateFound DEF RowStates
  <2>3. suspension \in Suspensions \cup {None}
    BY <1>r, StateFound
  <2>4. UNCHANGED <<agentVars, savedVars, sent, rows>>
    BY <1>8 DEF AnswerStatus
  <2> HIDE DEF answer, suspension
  <2> QED
    BY <2>1, <2>2, <2>3, <2>4, RespondServes, SameRowsServe
<1>9. CASE Refuse(c)
  BY <1>9, RespondServes, SameRowsServe DEF Refuse
<1>10. CASE ProviderStoreFails(c)
  <2>1. CASE Respond(c, "error", None) /\ UNCHANGED rows
    BY <1>10, <2>1, RespondServes, SameRowsServe DEF ProviderStoreFails
  <2>2. CASE /\ rows' \in {rows, [rows EXCEPT ![RowOf(c)].state = "outcome_unknown"]}
             /\ Respond(c, "outcome_unknown", None)
    <3>1. RowsServed(c)
      BY <2>2 DEF ToolTypeOK, RowsServed, Rows, RowStates
    <3> QED
      BY <1>10, <2>2, <3>1, RespondServes DEF ProviderStoreFails
  <2> QED
    BY <1>10, <2>1, <2>2 DEF ProviderStoreFails
<1>11. CASE Lose(c)
  <2>1. CallsServed(c)
    BY <1>11 DEF Lose, CallsServed, ToolTypeOK
  <2> QED
    BY <1>11, <2>1, SameRowsServe DEF Lose
<1> QED
  BY <1>1, <1>2, <1>3, <1>4, <1>5, <1>6, <1>7, <1>8, <1>9, <1>10, <1>11
     DEF ServerStep, Handle

-----------------------------------------------------------------------------
(* Types.                                                                   *)

AgentStep ==
    \/ \E t \in Tasks : Tool(t) \/ CheckpointStoreFails(t) \/ TimeOut(t)
    \/ \E suspension \in Suspensions : Approve(suspension)
    \/ StartRun \/ FinishRun \/ AgentCrash

LEMMA NodeTypes ==
    /\ IdleNode \in Nodes
    /\ \A node \in Nodes, answer \in ToolAnswers : FinishedNode(node, answer) \in Nodes
  BY DEF IdleNode, Nodes, FinishedNode, NodePcs, ToolAnswers

LEMMA EndRunTypes ==
    ASSUME ToolTypeOK, NEW kept \in SUBSET Tasks, EndRun(kept)
    PROVE  /\ running' \in BOOLEAN
           /\ offered' \in Suspensions \cup {None}
           /\ nodes' \in [Tasks -> Nodes]
           /\ interrupts' \in [Tasks -> Suspensions \cup {None}]
           /\ saved' \subseteq Tasks
<1>1. \A t \in Tasks : nodes[t].suspension \in Suspensions \cup {None}
  BY DEF ToolTypeOK, Nodes
<1> QED
  BY <1>1, NodeTypes DEF ToolTypeOK, EndRun

LEMMA SuspendTypes ==
    ASSUME ToolTypeOK, NEW t \in Tasks, NEW suspension \in Suspensions \cup {None},
           Suspend(t, suspension)
    PROVE  /\ running' \in BOOLEAN
           /\ offered' \in Suspensions \cup {None}
           /\ nodes' \in [Tasks -> Nodes]
           /\ interrupts' \in [Tasks -> Suspensions \cup {None}]
           /\ saved' \subseteq Tasks
           /\ resumes' \in [Tasks -> Suspensions \cup {None}]
           /\ UNCHANGED <<used, correlations, keys, resume>>
<1>1. ResumeValue(t) \in Suspensions \cup {None}
  BY DEF ToolTypeOK, ResumeValue
<1>2. CASE Interrupt(t, suspension)
  <2> DEFINE node == [nodes[t] EXCEPT !.pc = "interrupted", !.call = 0,
                                      !.suspension = suspension]
  <2>1. node \in Nodes
    <3>1. nodes[t] \in Nodes
      BY DEF ToolTypeOK
    <3> QED
      BY <3>1 DEF Nodes, NodePcs
  <2>2. nodes' = [nodes EXCEPT ![t] = node] /\ UNCHANGED <<running, offered, savedVars>>
    BY <1>2 DEF Interrupt
  <2> HIDE DEF node
  <2>3. nodes' \in [Tasks -> Nodes]
    BY <2>1, <2>2 DEF ToolTypeOK
  <2> QED
    BY <2>2, <2>3 DEF ToolTypeOK, savedVars
<1>3. CASE Raise
  BY <1>3, EndRunTypes DEF Raise, ToolTypeOK
<1>4. CASE Present(t, ResumeValue(t))
  <2> DEFINE evidence == ResumeValue(t)
             node == [nodes[t] EXCEPT !.pc = "invoke", !.call = 0, !.evidence = evidence]
  <2>1. node \in Nodes
    <3>1. nodes[t] \in Nodes
      BY DEF ToolTypeOK
    <3> QED
      BY <1>1, <3>1 DEF Nodes, NodePcs
  <2>2. nodes' = [nodes EXCEPT ![t] = node] /\ resumes' = [resumes EXCEPT ![t] = evidence]
    BY <1>4 DEF Present
  <2> HIDE DEF node, evidence
  <2>3. nodes' \in [Tasks -> Nodes]
    BY <2>1, <2>2 DEF ToolTypeOK
  <2>4. evidence \in Suspensions \cup {None}
    BY <1>1 DEF evidence
  <2>5. resumes' \in [Tasks -> Suspensions \cup {None}]
    BY <2>2, <2>4 DEF ToolTypeOK
  <2> QED
    BY <1>4, <2>3, <2>5 DEF Present, ToolTypeOK
<1> QED
  BY <1>2, <1>3, <1>4 DEF Suspend

LEMMA GoTypes ==
    ASSUME ToolTypeOK, NEW t \in Tasks, NEW pc \in NodePcs, Go(t, pc)
    PROVE  nodes' \in [Tasks -> Nodes]
<1> DEFINE node == [nodes[t] EXCEPT !.pc = pc]
<1>1. node \in Nodes
  <2>1. nodes[t] \in Nodes
    BY DEF ToolTypeOK
  <2> QED
    BY <2>1 DEF Nodes
<1>2. nodes' = [nodes EXCEPT ![t] = node]
  BY DEF Go
<1> HIDE DEF node
<1> QED
  BY <1>1, <1>2 DEF ToolTypeOK

\* The types of what a step of the agent changes.
LEMMA AgentTypes ==
    ASSUME ToolTypeOK, ToolAssumption, NodesKeyed, AgentStep, faults' \in Nat
    PROVE  ToolTypeOK'
<1>1. ASSUME NEW t \in Tasks, Correlate(t)
      PROVE  ToolTypeOK'
  <2>1. Stored(t) \in Nat \cup {None}
    BY DEF Stored, ToolTypeOK
  <2>2. ASSUME NEW id \in Nat, NEW pc \in {"persist", "persist_key"}
        PROVE  [nodes EXCEPT ![t] = [@ EXCEPT !.pc = pc, !.id = id]] \in [Tasks -> Nodes]
    <3>1. nodes[t] \in Nodes /\ pc \in NodePcs
      BY DEF ToolTypeOK, NodePcs
    <3>2. [nodes[t] EXCEPT !.pc = pc, !.id = id] \in Nodes
      BY <3>1 DEF Nodes
    <3> QED
      BY <3>2 DEF ToolTypeOK
  <2>3. nodes' \in [Tasks -> Nodes]
    <3>1. PICK id \in Nat, pc \in {"persist", "persist_key"} :
             nodes' = [nodes EXCEPT ![t] = [@ EXCEPT !.pc = pc, !.id = id]]
      <4>1. used[t] + 1 \in Nat
        BY DEF ToolTypeOK
      <4>2. CASE Stored(t) # None
        BY <1>1, <2>1, <4>2 DEF Correlate
      <4>3. CASE Stored(t) = None
        BY <1>1, <4>1, <4>3 DEF Correlate
      <4> QED
        BY <4>2, <4>3
    <3> QED
      BY <2>2, <3>1
  <2> QED
    BY <1>1, <2>3 DEF Correlate, ToolTypeOK, savedVars, providerVars
<1>2. ASSUME NEW t \in Tasks, PersistCorrelation(t)
      PROVE  ToolTypeOK'
  <2>1. nodes' \in [Tasks -> Nodes] /\ nodes[t].id \in Nat \cup {None}
    BY <1>2, GoTypes DEF PersistCorrelation, NodePcs, ToolTypeOK, Nodes
  <2> QED
    BY <1>2, <2>1 DEF PersistCorrelation, ToolTypeOK, providerVars
<1>3. ASSUME NEW t \in Tasks, PersistKey(t)
      PROVE  ToolTypeOK'
  <2>1. nodes' \in [Tasks -> Nodes] /\ nodes[t].id \in Nat \cup {None}
    BY <1>3, GoTypes DEF PersistKey, NodePcs, ToolTypeOK, Nodes
  <2> QED
    BY <1>3, <2>1 DEF PersistKey, ToolTypeOK, providerVars
<1>4. ASSUME NEW t \in Tasks, Send(t)
      PROVE  ToolTypeOK'
  <2>1. nodes[t].id \in Nat /\ sent + 1 \in 1..MaxCalls
    BY <1>4 DEF ToolTypeOK, Nodes, NodesKeyed, Send, ToolAssumption
  <2>2. nodes' \in [Tasks -> Nodes] /\ used' \in [Tasks -> Nat]
    <3>1. [nodes[t] EXCEPT !.pc = "waiting", !.call = sent + 1] \in Nodes
      <4>1. nodes[t] \in Nodes /\ sent + 1 \in Nat
        BY DEF ToolTypeOK
      <4> QED
        BY <4>1 DEF Nodes, NodePcs
    <3>2. nodes' = [nodes EXCEPT ![t] = [nodes[t] EXCEPT !.pc = "waiting", !.call = sent + 1]]
      BY <1>4 DEF Send
    <3>3. nodes' \in [Tasks -> Nodes]
      BY <3>1, <3>2 DEF ToolTypeOK
    <3>4. used' \in [Tasks -> Nat]
      BY <1>4, <2>1 DEF Send, ToolTypeOK
    <3> QED
      BY <3>3, <3>4
  <2>3. \A c \in DOMAIN calls' : calls'[c] \in Requests
    <3>1. nodes[t].pc \in {"invoke", "status"}
      BY <1>4 DEF Send
    <3>2. [task |-> t, id |-> nodes[t].id, kind |-> nodes[t].pc,
           evidence |-> nodes[t].evidence, pc |-> "sent", answer |-> "none",
           suspension |-> None] \in Requests
      BY <2>1, <3>1 DEF ToolTypeOK, Requests, Nodes, CallPcs, CallAnswers
    <3> QED
      BY <1>4, <3>2 DEF Send, ToolTypeOK
  <2>4. DOMAIN calls' \subseteq 1..sent' /\ sent' \in 0..MaxCalls
    BY <1>4, <2>1 DEF Send, ToolTypeOK
  <2> QED
    BY <1>4, <2>2, <2>3, <2>4 DEF Send, ToolTypeOK
<1>5. ASSUME NEW t \in Tasks, Receive(t)
      PROVE  ToolTypeOK'
  <2>1. calls[nodes[t].call].suspension \in Suspensions \cup {None}
    BY <1>5 DEF Receive, ToolTypeOK, Requests
  <2>2. /\ DOMAIN calls' \subseteq DOMAIN calls
        /\ \A c \in DOMAIN calls' : calls'[c] = calls[c]
    BY <1>5 DEF Receive
  <2>3. CASE Suspend(t, calls[nodes[t].call].suspension)
    BY <1>5, <2>1, <2>2, <2>3, SuspendTypes DEF Receive, ToolTypeOK
  <2>4. CASE nodes' = [nodes EXCEPT ![t] = [@ EXCEPT !.pc = "status", !.call = 0]]
             /\ UNCHANGED <<running, offered, savedVars>>
    <3>1. [nodes[t] EXCEPT !.pc = "status", !.call = 0] \in Nodes
      <4>1. nodes[t] \in Nodes
        BY DEF ToolTypeOK
      <4> QED
        BY <4>1 DEF Nodes, NodePcs
    <3>2. nodes' \in [Tasks -> Nodes]
      BY <2>4, <3>1 DEF ToolTypeOK
    <3> QED
      BY <1>5, <2>2, <2>4, <3>2 DEF Receive, ToolTypeOK, savedVars
  <2>5. ASSUME NEW answer \in ToolAnswers, Finish(t, answer),
               UNCHANGED <<running, offered, savedVars>>
        PROVE  ToolTypeOK'
    BY <1>5, <2>2, <2>5, NodeTypes DEF Receive, ToolTypeOK, savedVars, Finish
  <2> QED
    BY <1>5, <2>3, <2>4, <2>5 DEF Receive, ToolAnswers
<1>6. ASSUME NEW t \in Tasks, Disconnected(t) \/ CheckpointStoreFails(t) \/ TimeOut(t)
      PROVE  ToolTypeOK'
  BY <1>6, NodeTypes
     DEF Disconnected, CheckpointStoreFails, TimeOut, Finish, ToolTypeOK,
         savedVars, providerVars, ToolAnswers
<1>7. ASSUME NEW suspension \in Suspensions, Approve(suspension)
      PROVE  ToolTypeOK'
  BY <1>7 DEF Approve, ToolTypeOK, agentVars, providerVars
<1>8. CASE StartRun
  BY <1>8 DEF StartRun, ToolTypeOK, savedVars, providerVars
<1>9. CASE FinishRun
  BY <1>9, EndRunTypes DEF FinishRun, ToolTypeOK, providerVars
<1>10. CASE AgentCrash
  BY <1>10, EndRunTypes DEF AgentCrash, ToolTypeOK, providerVars
<1> QED
  BY <1>1, <1>2, <1>3, <1>4, <1>5, <1>6, <1>7, <1>8, <1>9, <1>10 DEF AgentStep, Tool

LEMMA ServerTypes ==
    ASSUME ToolTypeOK, ToolAssumption, NEW c \in DOMAIN calls, ServerStep(c),
           faults' \in Nat
    PROVE  ToolTypeOK'
<1>1. UNCHANGED <<agentVars, savedVars, sent>> /\ CallsServed(c) /\ RowsServed(c)
  BY ServerServes
<1>2. RowOf(c) \in Tasks \X Nat
  BY DEF RowOf, ToolTypeOK, Requests
<1>3. effects' \in [Tasks -> Nat]
  BY DEF ServerStep, Handle, ToolTypeOK, ReserveSuspension, AnswerAgain,
         SwapSuspended, ReserveEffect, Begin, Execute, Settle, AnswerStatus,
         Refuse, ProviderStoreFails, Lose
<1> QED
  BY <1>1, <1>2, <1>3
     DEF ToolTypeOK, CallsServed, RowsServed, agentVars, savedVars

LEMMA RestTypes ==
    ASSUME ToolTypeOK, Outage \/ Abandon, faults' \in Nat
    PROVE  ToolTypeOK'
<1>1. CASE Outage
  <2>1. DOMAIN calls' = {}
    BY <1>1 DEF Outage
  <2> QED
    <3>1. /\ \A r \in DOMAIN rows' : rows'[r] \in Rows
          /\ DOMAIN rows' \subseteq Tasks \X Nat
      <4>1. \A row \in Rows : [row EXCEPT !.state = "outcome_unknown"] \in Rows
        BY DEF Rows, RowStates
      <4>2. /\ DOMAIN rows' = DOMAIN rows
            /\ \A r \in DOMAIN rows :
                  \/ rows'[r] = rows[r]
                  \/ rows'[r] = [rows[r] EXCEPT !.state = "outcome_unknown"]
        BY <1>1 DEF Outage
      <4> QED
        BY <4>1, <4>2 DEF ToolTypeOK
    <3>2. UNCHANGED <<agentVars, savedVars, sent, effects>>
      BY <1>1 DEF Outage
    <3> QED
      BY <2>1, <3>1, <3>2 DEF ToolTypeOK, agentVars, savedVars
<1>2. CASE Abandon
  BY <1>2 DEF Abandon, ToolTypeOK, Rows, RowStates, agentVars, savedVars
<1> QED
  BY <1>1, <1>2

\* A step is the agent's, the provider's for a request, or about all rows.
LEMMA NextSteps ==
    ASSUME ToolTypeOK, Next
    PROVE  /\ \/ AgentStep
              \/ \E c \in DOMAIN calls : ServerStep(c)
              \/ Outage
              \/ Abandon
           /\ faults' \in Nat
  BY DEF Next, Work, Fault, AgentStep, ServerStep, ToolTypeOK

-----------------------------------------------------------------------------
(* Identities.                                                              *)

\* At the end of a run a task keeps its node or loses it.
LEMMA EndRunNodes ==
    ASSUME ToolTypeOK, NEW kept \in SUBSET Tasks, EndRun(kept)
    PROVE  \A t \in Tasks : nodes'[t] \in {nodes[t], IdleNode}
  BY DEF EndRun, ToolTypeOK

\* Nodes that are kept or lost stay keyed and linked.
LEMMA ResetKeepsKeys ==
    ASSUME ToolTypeOK, Keyed, \A t \in Tasks : nodes'[t] \in {nodes[t], IdleNode},
           DOMAIN calls' \subseteq DOMAIN calls,
           \A c \in DOMAIN calls' : calls'[c] = calls[c],
           UNCHANGED <<correlations, keys, rows, sent>>
    PROVE  Keyed'
<1>1. NodesKeyed'
  BY DEF Keyed, NodesKeyed, IdleNode, KeyOf
<1>2. CallsKeyed' /\ RowsKeyed'
  BY DEF Keyed, CallsKeyed, RowsKeyed, KeyOf
<1>3. CallsLinked'
  BY DEF Keyed, CallsLinked, IdleNode
<1> QED
  BY <1>1, <1>2, <1>3 DEF Keyed

\* So do the others when one task goes on, under the identity it has.
LEMMA MoveKeepsKeys ==
    ASSUME ToolTypeOK, Keyed, NEW t \in Tasks, NEW node \in Nodes,
           nodes' = [nodes EXCEPT ![t] = node],
           node.pc \in {"invoke", "status"} =>
              /\ nodes[t].pc \in {"waiting", "invoke", "status"}
              /\ node.id = nodes[t].id,
           node.pc \notin {"persist", "persist_key", "waiting"},
           DOMAIN calls' \subseteq DOMAIN calls,
           \A c \in DOMAIN calls' : calls'[c] = calls[c],
           UNCHANGED <<correlations, keys, rows, sent>>
    PROVE  Keyed'
<1>1. NodesKeyed'
  BY DEF Keyed, NodesKeyed, KeyOf, ToolTypeOK
<1>2. CallsKeyed' /\ RowsKeyed'
  BY DEF Keyed, CallsKeyed, RowsKeyed, KeyOf
<1>3. CallsLinked'
  BY DEF Keyed, CallsLinked, ToolTypeOK
<1> QED
  BY <1>1, <1>2, <1>3 DEF Keyed

LEMMA FinishMoves ==
    ASSUME ToolTypeOK, NEW t \in Tasks, NEW answer \in ToolAnswers, Finish(t, answer)
    PROVE  /\ nodes' = [nodes EXCEPT ![t] = FinishedNode(nodes[t], answer)]
           /\ FinishedNode(nodes[t], answer) \in Nodes
           /\ FinishedNode(nodes[t], answer).pc = "done"
<1>1. nodes[t] \in Nodes
  BY DEF ToolTypeOK
<1> QED
  BY <1>1, NodeTypes DEF Finish, FinishedNode, Nodes

LEMMA AgentKeepsKeys ==
    ASSUME ToolTypeOK, ToolAssumption, Keyed, AgentStep
    PROVE  Keyed'
<1> USE DEF providerVars
<1>1. ASSUME NEW t \in Tasks, Correlate(t)
      PROVE  Keyed'
  <2>1. Stored(t) \in Nat \cup {None} /\ used[t] + 1 \in Nat
    BY DEF Stored, ToolTypeOK
  <2>2. PICK id \in Nat :
           /\ nodes' = [nodes EXCEPT ![t] = [@ EXCEPT
                  !.pc = IF t \in Gated THEN "persist" ELSE "persist_key", !.id = id]]
           /\ Stored(t) # None => id = Stored(t)
    <3>1. CASE Stored(t) # None
      BY <1>1, <2>1, <3>1 DEF Correlate
    <3>2. CASE Stored(t) = None
      BY <1>1, <2>1, <3>2 DEF Correlate
    <3> QED
      BY <3>1, <3>2
  <2>3. t \in Rec => KeyOf(t) \in {None, id}
    BY <2>2 DEF Rec, KeyOf, Stored
  <2>4. /\ nodes'[t].id = id
        /\ nodes'[t].pc = IF t \in Gated THEN "persist" ELSE "persist_key"
        /\ \A u \in Tasks \ {t} : nodes'[u] = nodes[u]
    BY <2>2 DEF ToolTypeOK, Nodes
  <2>5. UNCHANGED <<correlations, keys, calls, rows, sent>>
    BY <1>1 DEF Correlate, savedVars
  <2>6. NodesKeyed'
    BY <2>3, <2>4, <2>5 DEF Keyed, NodesKeyed, KeyOf, ToolAssumption
  <2>7. CallsKeyed' /\ RowsKeyed' /\ CallsLinked'
    BY <2>4, <2>5 DEF Keyed, CallsKeyed, RowsKeyed, CallsLinked, KeyOf
  <2> QED
    BY <2>6, <2>7 DEF Keyed
<1>2. ASSUME NEW t \in Tasks, PersistCorrelation(t)
      PROVE  Keyed'
  <2>1. /\ nodes'[t].pc = "persist_key"
        /\ nodes'[t].id = nodes[t].id
        /\ \A u \in Tasks \ {t} : nodes'[u] = nodes[u] /\ KeyOf(u)' = KeyOf(u)
        /\ correlations'[t] = nodes[t].id
        /\ UNCHANGED <<keys, calls, rows, sent>>
    BY <1>2 DEF PersistCorrelation, Go, ToolTypeOK, Nodes, KeyOf
  <2>2. t \in Rec => KeyOf(t) \in {None, nodes[t].id} /\ KeyOf(t)' \in {KeyOf(t), nodes[t].id}
    BY <1>2, <2>1 DEF PersistCorrelation, Keyed, NodesKeyed, KeyOf
  <2>3. NodesKeyed'
    BY <1>2, <2>1, <2>2 DEF PersistCorrelation, Keyed, NodesKeyed, KeyOf
  <2>4. \A c \in DOMAIN calls : calls[c].id \in Nat /\ calls[c].task \in Tasks
    BY DEF ToolTypeOK, Requests
  <2>5. \A r \in DOMAIN rows : r[1] \in Tasks /\ r[2] \in Nat
    BY DEF ToolTypeOK
  <2>6. CallsKeyed' /\ RowsKeyed'
    BY <2>1, <2>2, <2>4, <2>5 DEF Keyed, CallsKeyed, RowsKeyed, ToolAssumption
  <2>7. CallsLinked'
    BY <2>1 DEF Keyed, CallsLinked
  <2> QED
    BY <2>3, <2>6, <2>7 DEF Keyed
<1>3. ASSUME NEW t \in Tasks, PersistKey(t)
      PROVE  Keyed'
  <2>1. /\ nodes'[t].pc = "invoke"
        /\ nodes'[t].id = nodes[t].id
        /\ \A u \in Tasks \ {t} : nodes'[u] = nodes[u] /\ KeyOf(u)' = KeyOf(u)
        /\ keys'[t] = nodes[t].id
        /\ UNCHANGED <<correlations, calls, rows, sent>>
    BY <1>3 DEF PersistKey, Go, ToolTypeOK, Nodes, KeyOf
  <2>2. t \in Rec => KeyOf(t) \in {None, nodes[t].id} /\ KeyOf(t)' = nodes[t].id
    BY <1>3, <2>1 DEF PersistKey, Keyed, NodesKeyed, KeyOf
  <2>3. NodesKeyed'
    BY <1>3, <2>1, <2>2 DEF PersistKey, Keyed, NodesKeyed
  <2>4. \A c \in DOMAIN calls : calls[c].id \in Nat /\ calls[c].task \in Tasks
    BY DEF ToolTypeOK, Requests
  <2>5. \A r \in DOMAIN rows : r[1] \in Tasks /\ r[2] \in Nat
    BY DEF ToolTypeOK
  <2>6. CallsKeyed' /\ RowsKeyed'
    BY <2>1, <2>2, <2>4, <2>5 DEF Keyed, CallsKeyed, RowsKeyed, ToolAssumption
  <2>7. CallsLinked'
    BY <2>1 DEF Keyed, CallsLinked
  <2> QED
    BY <2>3, <2>6, <2>7 DEF Keyed
<1>4. ASSUME NEW t \in Tasks, Send(t)
      PROVE  Keyed'
  <2>1. /\ nodes'[t].pc = "waiting"
        /\ nodes'[t].id = nodes[t].id
        /\ nodes'[t].call = sent + 1
        /\ \A u \in Tasks \ {t} : nodes'[u] = nodes[u]
        /\ nodes[t].pc \in {"invoke", "status"}
        /\ sent' = sent + 1
        /\ UNCHANGED <<correlations, keys, rows>>
    BY <1>4 DEF Send, ToolTypeOK, Nodes
  <2>2. /\ sent + 1 \notin DOMAIN calls
        /\ DOMAIN calls' = DOMAIN calls \cup {sent + 1}
        /\ \A c \in DOMAIN calls : calls'[c] = calls[c]
        /\ calls'[sent + 1].task = t
        /\ calls'[sent + 1].id = nodes[t].id
    BY <1>4 DEF Send, ToolTypeOK
  <2>3. NodesKeyed'
    BY <2>1 DEF Keyed, NodesKeyed, KeyOf
  <2>4. CallsKeyed' /\ RowsKeyed'
    BY <2>1, <2>2 DEF Keyed, NodesKeyed, CallsKeyed, RowsKeyed, KeyOf
  <2>5. \A u \in Tasks : nodes[u].call \in Nat /\ sent \in Nat
    BY DEF ToolTypeOK, Nodes
  <2>6. CallsLinked'
    BY <2>1, <2>2, <2>5 DEF Keyed, CallsLinked
  <2> QED
    BY <2>3, <2>4, <2>6 DEF Keyed
<1>5. ASSUME NEW t \in Tasks, Receive(t)
      PROVE  Keyed'
  <2>1. /\ DOMAIN calls' \subseteq DOMAIN calls
        /\ \A c \in DOMAIN calls' : calls'[c] = calls[c]
        /\ UNCHANGED <<sent, rows>>
        /\ nodes[t].pc = "waiting"
        /\ nodes[t] \in Nodes
        /\ calls[nodes[t].call].suspension \in Suspensions \cup {None}
    BY <1>5 DEF Receive, ToolTypeOK, Requests
  <2>2. CASE Interrupt(t, calls[nodes[t].call].suspension)
    <3> DEFINE node == [nodes[t] EXCEPT !.pc = "interrupted", !.call = 0,
                                        !.suspension = calls[nodes[t].call].suspension]
    <3>1. node \in Nodes /\ node.pc = "interrupted"
      BY <2>1 DEF Nodes, NodePcs
    <3>2. nodes' = [nodes EXCEPT ![t] = node] /\ UNCHANGED <<correlations, keys>>
      BY <2>2 DEF Interrupt, savedVars
    <3> QED
      BY <2>1, <3>1, <3>2, MoveKeepsKeys
  <2>3. CASE Raise
    BY <2>1, <2>3, EndRunNodes, ResetKeepsKeys DEF Raise
  <2>4. CASE Present(t, ResumeValue(t))
    <3> DEFINE node == [nodes[t] EXCEPT !.pc = "invoke", !.call = 0,
                                        !.evidence = ResumeValue(t)]
    <3>1. ResumeValue(t) \in Suspensions \cup {None}
      BY DEF ToolTypeOK, ResumeValue
    <3>2. node \in Nodes /\ node.pc = "invoke" /\ node.id = nodes[t].id
      BY <2>1, <3>1 DEF Nodes, NodePcs
    <3>3. nodes' = [nodes EXCEPT ![t] = node] /\ UNCHANGED <<correlations, keys>>
      BY <2>4 DEF Present
    <3> QED
      BY <2>1, <3>2, <3>3, MoveKeepsKeys
  <2>5. CASE nodes' = [nodes EXCEPT ![t] = [@ EXCEPT !.pc = "status", !.call = 0]]
             /\ UNCHANGED <<running, offered, savedVars>>
    <3> DEFINE node == [nodes[t] EXCEPT !.pc = "status", !.call = 0]
    <3>1. node \in Nodes /\ node.pc = "status" /\ node.id = nodes[t].id
      BY <2>1 DEF Nodes, NodePcs
    <3>2. nodes' = [nodes EXCEPT ![t] = node] /\ UNCHANGED <<correlations, keys>>
      BY <2>5 DEF savedVars
    <3> QED
      BY <2>1, <3>1, <3>2, MoveKeepsKeys
  <2>6. ASSUME NEW answer \in ToolAnswers, Finish(t, answer),
               UNCHANGED <<running, offered, savedVars>>
        PROVE  Keyed'
    BY <2>1, <2>6, FinishMoves, MoveKeepsKeys DEF savedVars
  <2> QED
    BY <1>5, <2>2, <2>3, <2>4, <2>5, <2>6 DEF Receive, Suspend, ToolAnswers
<1>6. ASSUME NEW t \in Tasks, Disconnected(t) \/ CheckpointStoreFails(t) \/ TimeOut(t)
      PROVE  Keyed'
  <2>1. Finish(t, "error") /\ UNCHANGED <<savedVars, providerVars>>
    BY <1>6 DEF Disconnected, CheckpointStoreFails, TimeOut
  <2> QED
    BY <2>1, FinishMoves, MoveKeepsKeys DEF savedVars, ToolAnswers
<1>7. ASSUME NEW suspension \in Suspensions, Approve(suspension)
      PROVE  Keyed'
  BY <1>7, ResetKeepsKeys DEF Approve, agentVars
<1>8. CASE StartRun
  BY <1>8, ResetKeepsKeys DEF StartRun, savedVars
<1>9. CASE FinishRun
  BY <1>9, EndRunNodes, ResetKeepsKeys DEF FinishRun
<1>10. CASE AgentCrash
  BY <1>10, EndRunNodes, ResetKeepsKeys DEF AgentCrash
<1> QED
  BY <1>1, <1>2, <1>3, <1>4, <1>5, <1>6, <1>7, <1>8, <1>9, <1>10 DEF AgentStep, Tool

LEMMA ServerKeepsKeys ==
    ASSUME ToolTypeOK, ToolAssumption, Keyed,
           \/ \E c \in DOMAIN calls : ServerStep(c)
           \/ Outage
           \/ Abandon
    PROVE  Keyed'
<1>1. ASSUME NEW c \in DOMAIN calls, ServerStep(c)
      PROVE  Keyed'
  <2>1. UNCHANGED <<agentVars, savedVars, sent>> /\ CallsServed(c) /\ RowsServed(c)
    BY <1>1, ServerServes
  <2>2. NodesKeyed'
    BY <2>1 DEF Keyed, NodesKeyed, KeyOf, agentVars, savedVars
  <2>3. CallsKeyed'
    BY <2>1 DEF Keyed, CallsKeyed, KeyOf, savedVars, CallsServed
  <2>4. RowOf(c)[1] = calls[c].task /\ RowOf(c)[2] = calls[c].id
    BY DEF RowOf
  <2>5. RowsKeyed'
    BY <2>1, <2>4 DEF Keyed, RowsKeyed, CallsKeyed, KeyOf, savedVars, RowsServed
  <2>6. CallsLinked'
    BY <2>1 DEF Keyed, CallsLinked, agentVars, CallsServed
  <2> QED
    BY <2>2, <2>3, <2>5, <2>6 DEF Keyed
<1>2. CASE Outage
  <2>1. DOMAIN calls' = {} /\ DOMAIN rows' = DOMAIN rows
    BY <1>2 DEF Outage
  <2> QED
    BY <1>2, <2>1
       DEF Outage, Keyed, NodesKeyed, CallsKeyed, RowsKeyed, CallsLinked, KeyOf,
           agentVars, savedVars
<1>3. CASE Abandon
  <2>1. DOMAIN rows' = DOMAIN rows
    BY <1>3 DEF Abandon
  <2> QED
    BY <1>3, <2>1
       DEF Abandon, Keyed, NodesKeyed, CallsKeyed, RowsKeyed, CallsLinked, KeyOf,
           agentVars, savedVars
<1> QED
  BY <1>1, <1>2, <1>3

-----------------------------------------------------------------------------
(* Suspensions and evidence.                                                *)

\* A request is served, its row suspended at most once, and its answer true.
LEMMA ServedStaySuspended ==
    ASSUME ToolTypeOK, Suspended, NEW c \in DOMAIN calls,
           UNCHANGED <<agentVars, savedVars, sent>>, CallsServed(c), RowsServed(c),
           NotYetSuspended',
           \A r \in DOMAIN rows :
              rows[r].suspension # None => rows'[r].suspension = rows[r].suspension,
           c \in DOMAIN calls' /\ calls'[c].answer = "suspended" =>
              /\ calls'[c].suspension # None
              /\ RowOf(c) \in DOMAIN rows'
              /\ rows'[RowOf(c)].suspension = calls'[c].suspension
    PROVE  Suspended'
<1>1. \A d \in DOMAIN calls' : RowOf(d)' = RowOf(d) /\ d \in DOMAIN calls
  BY DEF RowOf, CallsServed
<1>2. SuspensionsTold'
  BY <1>1 DEF Suspended, SuspensionsTold, CallsServed, RowsServed
<1>3. EvidenceHeld'
  BY DEF Suspended, EvidenceHeld, RowsServed, agentVars
<1>4. EvidenceForOwnSuspension'
  BY <1>1 DEF Suspended, EvidenceForOwnSuspension, CallsServed, RowsServed
<1> QED
  BY <1>2, <1>3, <1>4 DEF Suspended

\* The row of a request is left alone, or only changes its state to one that is
\* not about a suspension.
LEMMA SameSuspension ==
    ASSUME ToolTypeOK, Suspended, NEW c \in DOMAIN calls,
           UNCHANGED <<agentVars, savedVars, sent>>, CallsServed(c), RowsServed(c),
           DOMAIN rows' = DOMAIN rows,
           RowOf(c) \in DOMAIN rows =>
              /\ rows'[RowOf(c)].suspension = rows[RowOf(c)].suspension
              /\ rows'[RowOf(c)].state \in {rows[RowOf(c)].state, "pending", "succeeded",
                                            "failed", "outcome_unknown"},
           c \in DOMAIN calls' /\ calls'[c].answer = "suspended" =>
              /\ calls'[c].suspension # None
              /\ RowOf(c) \in DOMAIN rows
              /\ rows[RowOf(c)].suspension = calls'[c].suspension
    PROVE  Suspended'
<1>1. NotYetSuspended'
  BY DEF Suspended, NotYetSuspended, RowsServed
<1>2. \A r \in DOMAIN rows : rows'[r].suspension = rows[r].suspension
  BY DEF RowsServed
<1> QED
  BY <1>1, <1>2, ServedStaySuspended

\* A request goes on without an answer.
LEMMA ProceedTells ==
    ASSUME ToolTypeOK, Suspended, NEW c \in DOMAIN calls, NEW pc \in CallPcs, Proceed(c, pc),
           c \in DOMAIN calls', calls'[c].answer = "suspended"
    PROVE  /\ calls'[c].suspension # None
           /\ RowOf(c) \in DOMAIN rows
           /\ rows[RowOf(c)].suspension = calls'[c].suspension
<1>1. calls'[c].answer = calls[c].answer /\ calls'[c].suspension = calls[c].suspension
  BY ProceedServes
<1> QED
  BY <1>1 DEF Suspended, SuspensionsTold

\* A row is reserved where there was none.
LEMMA ReservedStaySuspended ==
    ASSUME ToolTypeOK, Suspended, NEW c \in DOMAIN calls, NEW pc \in CallPcs,
           UNCHANGED <<agentVars, savedVars, sent>>,
           StateOf(c) = "absent", SetRow(c, "reserved", None), Proceed(c, pc)
    PROVE  Suspended'
<1>1. CallsServed(c) /\ RowsServed(c)
  BY ProceedServes, SetRowServes DEF RowStates
<1>2. /\ RowOf(c) \notin DOMAIN rows
      /\ DOMAIN rows' = DOMAIN rows \cup {RowOf(c)}
      /\ rows'[RowOf(c)].state = "reserved"
      /\ rows'[RowOf(c)].suspension = None
  BY StateFound, SetRowServes DEF RowStates
<1>3. NotYetSuspended'
  BY <1>1, <1>2 DEF Suspended, NotYetSuspended, RowsServed
<1>4. \A r \in DOMAIN rows : rows'[r] = rows[r]
  BY <1>1, <1>2 DEF RowsServed
<1> QED
  BY <1>1, <1>2, <1>3, <1>4, ProceedTells, ServedStaySuspended

LEMMA ServerKeepsSuspended ==
    ASSUME ToolTypeOK, ToolAssumption, Suspended, NEW c \in DOMAIN calls, ServerStep(c)
    PROVE  Suspended'
<1> USE DEF CallAnswers
<1>n. None \in Suspensions \cup {None}
  OBVIOUS
<1>s. <<calls[c].task, c>> \in Suspensions /\ <<calls[c].task, c>> # None
  BY DEF ToolTypeOK, Suspensions, Requests, ToolAssumption
<1>r. RowOf(c) \in DOMAIN rows =>
        /\ rows[RowOf(c)].suspension \in Suspensions \cup {None}
        /\ rows[RowOf(c)].state = "suspended" => rows[RowOf(c)].suspension # None
  BY DEF ToolTypeOK, Rows, Suspended, NotYetSuspended
<1>a. UNCHANGED <<agentVars, savedVars, sent>> /\ CallsServed(c) /\ RowsServed(c)
  BY ServerServes
\* Any answer but "suspended", with the row's state moved or not.
<1>b. ASSUME NEW answer \in CallAnswers \ {"suspended"}, Respond(c, answer, None),
             \/ UNCHANGED rows
             \/ \E state \in {"pending", "succeeded", "failed", "outcome_unknown"} :
                   rows' = [rows EXCEPT ![RowOf(c)].state = state]
      PROVE  Suspended'
  <2>1. /\ DOMAIN rows' = DOMAIN rows
        /\ RowOf(c) \in DOMAIN rows =>
              /\ rows'[RowOf(c)].suspension = rows[RowOf(c)].suspension
              /\ rows'[RowOf(c)].state \in {rows[RowOf(c)].state, "pending", "succeeded",
                                            "failed", "outcome_unknown"}
    <3>1. CASE UNCHANGED rows
      BY <3>1
    <3>2. ASSUME NEW state \in {"pending", "succeeded", "failed", "outcome_unknown"},
                 rows' = [rows EXCEPT ![RowOf(c)].state = state]
          PROVE  <2>1
      <4>1. RowOf(c) \in DOMAIN rows =>
               /\ rows[RowOf(c)] \in Rows
               /\ rows'[RowOf(c)] = [rows[RowOf(c)] EXCEPT !.state = state]
        BY <3>2 DEF ToolTypeOK
      <4> QED
        BY <3>2, <4>1 DEF Rows
    <3> QED
      BY <1>b, <3>1, <3>2
  <2>2. c \in DOMAIN calls' => calls'[c].answer # "suspended"
    BY <1>b, RespondServes
  <2> QED
    BY <1>a, <2>1, <2>2, SameSuspension
\* The same of a request that goes on.
<1>c. ASSUME NEW pc \in CallPcs, Proceed(c, pc),
             \/ UNCHANGED rows
             \/ RowOf(c) \in DOMAIN rows /\ MoveRow(c, "pending")
      PROVE  Suspended'
  <2>1. /\ DOMAIN rows' = DOMAIN rows
        /\ RowOf(c) \in DOMAIN rows =>
              /\ rows'[RowOf(c)].suspension = rows[RowOf(c)].suspension
              /\ rows'[RowOf(c)].state \in {rows[RowOf(c)].state, "pending", "succeeded",
                                            "failed", "outcome_unknown"}
    BY <1>c DEF ToolTypeOK, Rows, MoveRow
  <2> QED
    BY <1>a, <1>c, <2>1, ProceedTells, SameSuspension
<1>1. CASE ReserveSuspension(c)
  <2>1. CASE StateOf(c) = "absent" /\ SetRow(c, "reserved", None) /\ Proceed(c, "suspend")
    BY <1>a, <2>1, ReservedStaySuspended DEF CallPcs
  <2>2. CASE Proceed(c, "suspend") /\ UNCHANGED rows
    BY <2>2, <1>c DEF CallPcs
  <2>3. CASE Respond(c, "error", None) /\ UNCHANGED rows
    BY <2>3, <1>b
  <2> QED
    BY <1>1, <2>1, <2>2, <2>3 DEF ReserveSuspension
<1>2. CASE AnswerAgain(c)
  <2>1. CASE Respond(c, "deferred", None)
    BY <1>2, <2>1, <1>b DEF AnswerAgain
  <2>2. CASE StateOf(c) = "suspended" /\ Respond(c, "suspended", rows[RowOf(c)].suspension)
    BY <1>2, <2>2, <1>a, <1>r, StateFound, RespondServes, SameSuspension DEF AnswerAgain
  <2> QED
    BY <1>2, <2>1, <2>2 DEF AnswerAgain
<1>3. CASE SwapSuspended(c)
  <2>1. CASE /\ StateOf(c) = "reserved"
             /\ SetRow(c, "suspended", <<calls[c].task, c>>)
             /\ Respond(c, "suspended", <<calls[c].task, c>>)
    <3>1. RowOf(c) \in DOMAIN rows /\ rows[RowOf(c)].suspension = None
      BY <2>1, StateFound DEF Suspended, NotYetSuspended
    <3>2. /\ rows'[RowOf(c)].state = "suspended"
          /\ rows'[RowOf(c)].suspension = <<calls[c].task, c>>
          /\ DOMAIN rows' = DOMAIN rows
      BY <1>s, <2>1, <3>1, SetRowServes DEF RowStates
    <3>3. NotYetSuspended'
      BY <1>a, <1>s, <3>2 DEF Suspended, NotYetSuspended, RowsServed
    <3>4. \A r \in DOMAIN rows :
            rows[r].suspension # None => rows'[r].suspension = rows[r].suspension
      BY <1>a, <3>1, <3>2 DEF RowsServed
    <3>5. c \in DOMAIN calls' => calls'[c].suspension = <<calls[c].task, c>>
      BY <2>1, <1>s, RespondServes
    <3> QED
      BY <1>a, <1>s, <3>1, <3>2, <3>3, <3>4, <3>5, ServedStaySuspended
  <2>2. CASE Respond(c, "error", None) /\ UNCHANGED rows
    BY <2>2, <1>b
  <2> QED
    BY <1>3, <2>1, <2>2 DEF SwapSuspended
<1>4. CASE ReserveEffect(c)
  <2>1. CASE StateOf(c) = "absent" /\ SetRow(c, "reserved", None) /\ Proceed(c, "begin")
    BY <1>a, <2>1, ReservedStaySuspended DEF CallPcs
  <2>2. CASE Proceed(c, "resume") /\ UNCHANGED rows
    BY <2>2, <1>c DEF CallPcs
  <2>3. CASE UNCHANGED rows /\ \E answer \in {"outcome_unknown", "deferred"} : Respond(c, answer, None)
    BY <2>3, <1>b
  <2> QED
    BY <1>4, <2>1, <2>2, <2>3 DEF ReserveEffect
<1>5. CASE Begin(c)
  <2>1. CASE /\ StateOf(c) \in {"reserved", "suspended"}
             /\ MoveRow(c, "pending")
             /\ Proceed(c, "execute")
    BY <2>1, <1>c, StateFound DEF CallPcs
  <2>2. CASE Respond(c, "error", None) /\ UNCHANGED rows
    BY <2>2, <1>b
  <2> QED
    BY <1>5, <2>1, <2>2 DEF Begin
<1>6. CASE Execute(c)
  BY <1>6, <1>c DEF Execute, CallPcs
<1>7. CASE Settle(c)
  <2>1. PICK result \in {"succeeded", "failed"} : MoveRow(c, result) /\ Respond(c, result, None)
    BY <1>7 DEF Settle
  <2> QED
    BY <2>1, <1>b DEF MoveRow
<1>8. CASE AnswerStatus(c)
  <2>1. CASE StateOf(c) = "suspended"
    <3>1. Respond(c, "suspended", rows[RowOf(c)].suspension) /\ UNCHANGED rows
      BY <1>8, <2>1 DEF AnswerStatus
    <3> QED
      BY <2>1, <3>1, <1>a, <1>r, StateFound, RespondServes, SameSuspension
  <2>2. CASE StateOf(c) # "suspended"
    <3>1. \E answer \in CallAnswers \ {"suspended"} : Respond(c, answer, None)
      <4>1. CASE StateOf(c) = "absent"
        BY <1>8, <4>1 DEF AnswerStatus
      <4>2. CASE StateOf(c) = "reserved"
        BY <1>8, <4>2 DEF AnswerStatus
      <4>3. CASE StateOf(c) = "abandoned"
        BY <1>8, <4>3 DEF AnswerStatus
      <4>4. CASE StateOf(c) \in {"pending", "succeeded", "failed", "outcome_unknown"}
        BY <1>8, <4>4 DEF AnswerStatus
      <4> QED
        BY <2>2, <4>1, <4>2, <4>3, <4>4, StateFound DEF RowStates
    <3> QED
      BY <1>8, <3>1, <1>b DEF AnswerStatus
  <2> QED
    BY <2>1, <2>2
<1>9. CASE Refuse(c)
  BY <1>9, <1>b DEF Refuse
<1>10. CASE ProviderStoreFails(c)
  <2>1. CASE Respond(c, "error", None) /\ UNCHANGED rows
    BY <2>1, <1>b
  <2>2. CASE /\ rows' \in {rows, [rows EXCEPT ![RowOf(c)].state = "outcome_unknown"]}
             /\ Respond(c, "outcome_unknown", None)
    BY <2>2, <1>b
  <2> QED
    BY <1>10, <2>1, <2>2 DEF ProviderStoreFails
<1>11. CASE Lose(c)
  <2>1. c \notin DOMAIN calls' /\ UNCHANGED rows
    BY <1>11 DEF Lose
  <2> QED
    BY <2>1, <1>a, SameSuspension
<1> QED
  BY <1>1, <1>2, <1>3, <1>4, <1>5, <1>6, <1>7, <1>8, <1>9, <1>10, <1>11
     DEF ServerStep, Handle

\* Rows stay as they are, and every request keeps its evidence and its answer.
LEMMA AgentStaySuspended ==
    ASSUME ToolTypeOK, Suspended, EvidenceHeld', UNCHANGED rows,
           \A c \in DOMAIN calls' : c \in DOMAIN calls /\ calls'[c] = calls[c]
    PROVE  Suspended'
  BY DEF Suspended, NotYetSuspended, SuspensionsTold, EvidenceForOwnSuspension, RowOf

LEMMA ResetKeepsEvidence ==
    ASSUME ToolTypeOK, Suspended, \A t \in Tasks : nodes'[t] \in {nodes[t], IdleNode},
           UNCHANGED rows
    PROVE  EvidenceHeld'
  BY DEF Suspended, EvidenceHeld, IdleNode

\* A task that goes on keeps its evidence, and its identity with it, or has none.
LEMMA MoveKeepsEvidence ==
    ASSUME ToolTypeOK, Suspended, NEW t \in Tasks, NEW node \in Nodes,
           nodes' = [nodes EXCEPT ![t] = node],
           node.evidence # None =>
              /\ node.evidence = nodes[t].evidence
              /\ node.id = nodes[t].id
              /\ node.pc # "idle",
           UNCHANGED rows
    PROVE  EvidenceHeld'
  BY DEF Suspended, EvidenceHeld, ToolTypeOK

LEMMA AgentKeepsSuspended ==
    ASSUME ToolTypeOK, ToolAssumption, Keyed, Suspended, AgentStep
    PROVE  Suspended'
<1> USE DEF providerVars
<1>1. ASSUME NEW t \in Tasks, Correlate(t)
      PROVE  Suspended'
  <2>1. nodes[t].evidence = None
    BY <1>1 DEF Correlate, Suspended, EvidenceHeld
  <2>2. /\ nodes'[t].evidence = nodes[t].evidence
        /\ \A u \in Tasks \ {t} : nodes'[u] = nodes[u]
    <3>1. \E id \in Nat \cup {None}, pc \in NodePcs :
             nodes' = [nodes EXCEPT ![t] = [@ EXCEPT !.pc = pc, !.id = id]]
      <4>1. Stored(t) \in Nat \cup {None} /\ used[t] + 1 \in Nat
        BY DEF Stored, ToolTypeOK
      <4>2. CASE Stored(t) # None
        BY <1>1, <4>1, <4>2 DEF Correlate, NodePcs
      <4>3. CASE Stored(t) = None
        BY <1>1, <4>1, <4>3 DEF Correlate, NodePcs
      <4> QED
        BY <4>2, <4>3
    <3> QED
      BY <3>1 DEF ToolTypeOK, Nodes
  <2>3. EvidenceHeld'
    BY <1>1, <2>1, <2>2 DEF Correlate, Suspended, EvidenceHeld
  <2> QED
    BY <1>1, <2>3, AgentStaySuspended DEF Correlate
<1>2. ASSUME NEW t \in Tasks, PersistCorrelation(t) \/ PersistKey(t)
      PROVE  Suspended'
  <2>1. PICK pc \in {"persist_key", "invoke"} : Go(t, pc)
    BY <1>2 DEF PersistCorrelation, PersistKey
  <2>2. /\ nodes'[t].evidence = nodes[t].evidence
        /\ nodes'[t].id = nodes[t].id
        /\ nodes'[t].pc # "idle"
        /\ \A u \in Tasks \ {t} : nodes'[u] = nodes[u]
    BY <2>1 DEF Go, ToolTypeOK, Nodes
  <2>3. UNCHANGED <<rows, calls>>
    BY <1>2 DEF PersistCorrelation, PersistKey
  <2>4. EvidenceHeld'
    BY <2>2, <2>3 DEF Suspended, EvidenceHeld
  <2> QED
    BY <2>3, <2>4, AgentStaySuspended
<1>4. ASSUME NEW t \in Tasks, Send(t)
      PROVE  Suspended'
  <2>1. /\ nodes'[t].pc = "waiting"
        /\ nodes'[t].id = nodes[t].id
        /\ nodes'[t].evidence = nodes[t].evidence
        /\ \A u \in Tasks \ {t} : nodes'[u] = nodes[u]
        /\ UNCHANGED rows
    BY <1>4 DEF Send, ToolTypeOK, Nodes
  <2>2. /\ DOMAIN calls' = DOMAIN calls \cup {sent + 1}
        /\ \A c \in DOMAIN calls : calls'[c] = calls[c]
        /\ calls'[sent + 1].answer = "none"
        /\ calls'[sent + 1].evidence = nodes[t].evidence
        /\ calls'[sent + 1].task = t
        /\ calls'[sent + 1].id = nodes[t].id
    BY <1>4 DEF Send, ToolTypeOK
  <2>3. EvidenceHeld'
    BY <2>1 DEF Suspended, EvidenceHeld
  <2>4. SuspensionsTold'
    BY <2>1, <2>2 DEF Suspended, SuspensionsTold, RowOf
  <2>5. EvidenceForOwnSuspension'
    BY <2>1, <2>2 DEF Suspended, EvidenceForOwnSuspension, EvidenceHeld, RowOf
  <2> QED
    BY <2>1, <2>3, <2>4, <2>5 DEF Suspended, NotYetSuspended
<1>5. ASSUME NEW t \in Tasks, Receive(t)
      PROVE  Suspended'
  <2> DEFINE call == calls[nodes[t].call]
  <2>1. /\ \A c \in DOMAIN calls' : c \in DOMAIN calls /\ calls'[c] = calls[c]
        /\ UNCHANGED <<sent, rows>>
        /\ nodes[t].pc = "waiting"
        /\ nodes[t] \in Nodes
        /\ call.suspension \in Suspensions \cup {None}
    BY <1>5 DEF Receive, ToolTypeOK, Requests
  <2>2. CASE Interrupt(t, call.suspension)
    <3> DEFINE node == [nodes[t] EXCEPT !.pc = "interrupted", !.call = 0,
                                        !.suspension = call.suspension]
    <3>1. /\ node \in Nodes /\ node.pc = "interrupted"
          /\ node.evidence = nodes[t].evidence /\ node.id = nodes[t].id
      BY <2>1 DEF Nodes, NodePcs
    <3>2. nodes' = [nodes EXCEPT ![t] = node]
      BY <2>2 DEF Interrupt
    <3> QED
      BY <2>1, <3>1, <3>2, MoveKeepsEvidence, AgentStaySuspended
  <2>3. CASE Raise
    BY <2>1, <2>3, EndRunNodes, ResetKeepsEvidence, AgentStaySuspended DEF Raise
  <2>4. CASE /\ call.answer = "suspended"
             /\ MeantFor(ResumeValue(t), call.suspension)
             /\ Present(t, ResumeValue(t))
    <3>1. call.task = t /\ call.id = nodes[t].id /\ nodes[t].call \in DOMAIN calls
      BY <1>5 DEF Receive, Keyed, CallsLinked
    <3>2. /\ <<t, nodes[t].id>> \in DOMAIN rows
          /\ rows[<<t, nodes[t].id>>].suspension = ResumeValue(t)
      BY <2>4, <3>1 DEF Suspended, SuspensionsTold, RowOf, MeantFor
    <3>3. /\ nodes'[t].evidence = ResumeValue(t)
          /\ nodes'[t].id = nodes[t].id
          /\ nodes'[t].pc = "invoke"
          /\ \A u \in Tasks \ {t} : nodes'[u] = nodes[u]
      BY <2>4 DEF Present, ToolTypeOK, Nodes
    <3>4. EvidenceHeld'
      BY <2>1, <3>2, <3>3 DEF Suspended, EvidenceHeld
    <3> QED
      BY <2>1, <3>4, AgentStaySuspended
  <2>5. CASE nodes' = [nodes EXCEPT ![t] = [@ EXCEPT !.pc = "status", !.call = 0]]
    <3> DEFINE node == [nodes[t] EXCEPT !.pc = "status", !.call = 0]
    <3>1. /\ node \in Nodes /\ node.pc = "status"
          /\ node.evidence = nodes[t].evidence /\ node.id = nodes[t].id
      BY <2>1 DEF Nodes, NodePcs
    <3> QED
      BY <2>1, <2>5, <3>1, MoveKeepsEvidence, AgentStaySuspended
  <2>6. ASSUME NEW answer \in ToolAnswers, Finish(t, answer)
        PROVE  Suspended'
    <3>1. FinishedNode(nodes[t], answer).evidence = None
      BY <2>1 DEF FinishedNode, Nodes
    <3> QED
      BY <2>1, <2>6, <3>1, FinishMoves, MoveKeepsEvidence, AgentStaySuspended
  <2> QED
    BY <1>5, <2>2, <2>3, <2>4, <2>5, <2>6 DEF Receive, Suspend, ToolAnswers
<1>6. ASSUME NEW t \in Tasks, Disconnected(t) \/ CheckpointStoreFails(t) \/ TimeOut(t)
      PROVE  Suspended'
  <2>1. Finish(t, "error") /\ UNCHANGED providerVars
    BY <1>6 DEF Disconnected, CheckpointStoreFails, TimeOut
  <2>2. FinishedNode(nodes[t], "error").evidence = None
    BY DEF FinishedNode, Nodes, ToolTypeOK
  <2> QED
    BY <2>1, <2>2, FinishMoves, MoveKeepsEvidence, AgentStaySuspended DEF ToolAnswers
<1>7. ASSUME NEW suspension \in Suspensions, Approve(suspension)
      PROVE  Suspended'
  BY <1>7, ResetKeepsEvidence, AgentStaySuspended DEF Approve, agentVars
<1>8. CASE StartRun
  BY <1>8, ResetKeepsEvidence, AgentStaySuspended DEF StartRun
<1>9. CASE FinishRun
  BY <1>9, EndRunNodes, ResetKeepsEvidence, AgentStaySuspended DEF FinishRun
<1>10. CASE AgentCrash
  BY <1>10, EndRunNodes, ResetKeepsEvidence, AgentStaySuspended DEF AgentCrash
<1> QED
  BY <1>1, <1>2, <1>4, <1>5, <1>6, <1>7, <1>8, <1>9, <1>10 DEF AgentStep, Tool

LEMMA RestKeepsSuspended ==
    ASSUME ToolTypeOK, Suspended, Outage \/ Abandon
    PROVE  Suspended'
<1>1. /\ DOMAIN rows' = DOMAIN rows
      /\ \A r \in DOMAIN rows :
            /\ rows'[r].suspension = rows[r].suspension
            /\ rows'[r].state \in {rows[r].state, "outcome_unknown", "abandoned"}
      /\ UNCHANGED nodes
  BY DEF Outage, Abandon, ToolTypeOK, Rows, agentVars
<1>2. NotYetSuspended'
  BY <1>1 DEF Suspended, NotYetSuspended
<1>3. \A c \in DOMAIN calls' : c \in DOMAIN calls /\ calls'[c] = calls[c]
  <2>1. CASE Outage
    <3>1. DOMAIN calls' = {}
      BY <2>1 DEF Outage
    <3> QED
      BY <3>1
  <2>2. CASE Abandon
    BY <2>2 DEF Abandon
  <2> QED
    BY <2>1, <2>2
<1>4. \A c \in DOMAIN calls' : RowOf(c)' = RowOf(c)
  BY <1>3 DEF RowOf
<1> QED
  BY <1>1, <1>2, <1>3, <1>4
     DEF Suspended, SuspensionsTold, EvidenceHeld, EvidenceForOwnSuspension

-----------------------------------------------------------------------------
(* Effects and outcomes.                                                    *)

\* All requests of a task, and all rows, are about the one it has.
LEMMA OneRow ==
    ASSUME ToolTypeOK, Keyed
    PROVE  /\ Rec \subseteq Tasks
           /\ \A c \in DOMAIN calls :
                 calls[c].task \in Rec => RowOf(c) = RowFor(calls[c].task)
           /\ \A c \in DOMAIN calls, t \in Rec :
                 RowOf(c) = RowFor(t) => calls[c].task = t
           /\ \A t \in Rec : KeyOf(t) = None => RowFor(t) \notin DOMAIN rows
<1>1. Rec \subseteq Tasks
  BY ToolAssumption DEF Rec, ToolAssumption
<1>2. \A t \in Rec : KeyOf(t) = None => RowFor(t) \notin DOMAIN rows
  BY ToolAssumption DEF ToolAssumption, RowFor, ToolTypeOK
<1> QED
  BY <1>1, <1>2 DEF Keyed, CallsKeyed, RowOf, RowFor

\* A request has no effect, its row does not begin one, and its answer is true.
LEMMA QuietKeepsEffects ==
    ASSUME ToolTypeOK, Keyed, Effected, NEW c \in DOMAIN calls,
           UNCHANGED <<agentVars, savedVars, sent, effects>>,
           CallsServed(c), RowsServed(c),
           c \in DOMAIN calls' => calls'[c].pc \notin {"execute", "settle"},
           RowOf(c) \in DOMAIN rows =>
              \/ rows'[RowOf(c)].state = rows[RowOf(c)].state
              \/ /\ rows[RowOf(c)].state = "reserved"
                 /\ rows'[RowOf(c)].state = "suspended",
           RowOf(c) \in DOMAIN rows' \ DOMAIN rows => rows'[RowOf(c)].state = "reserved",
           c \in DOMAIN calls' /\ calls'[c].answer \in {"succeeded", "failed"}
              /\ calls[c].task \in Rec =>
                 RowOf(c) \in DOMAIN rows /\ rows[RowOf(c)].state = calls'[c].answer
    PROVE  Effected'
<1>1. \A d \in DOMAIN calls' : d \in DOMAIN calls /\ RowOf(d)' = RowOf(d)
  BY DEF CallsServed, RowOf
<1>2. \A d \in DOMAIN calls' : AtWork(d)' => d # c /\ AtWork(d)
  BY DEF CallsServed, AtWork
<1>3. \A r \in DOMAIN rows :
        /\ r \in DOMAIN rows'
        /\ \/ rows'[r].state = rows[r].state
           \/ rows[r].state = "reserved" /\ rows'[r].state = "suspended"
  BY DEF RowsServed
<1>4. OneAtWork'
  BY <1>1, <1>2 DEF Effected, OneAtWork, CallsServed
<1>5. WorkIsPending'
  BY <1>1, <1>2, <1>3 DEF Effected, WorkIsPending, CallsServed
<1>6. OutcomesStored'
  BY <1>1, <1>3 DEF Effected, OutcomesStored, CallsServed
<1>7. \A t \in Rec : RowFor(t)' = RowFor(t)
  BY DEF RowFor, KeyOf, savedVars
<1>8. EffectsStored'
  BY <1>3, <1>7 DEF Effected, EffectsStored, RowsServed
<1>9. AnswersStored'
  BY <1>3, <1>7 DEF Effected, AnswersStored, agentVars, savedVars, KeyOf
<1> QED
  BY <1>4, <1>5, <1>6, <1>8, <1>9 DEF Effected

\* A request that has the row's effect to itself moves the row and answers so.
LEMMA SettledKeepsEffects ==
    ASSUME ToolTypeOK, Keyed, Effected, NEW c \in DOMAIN calls,
           UNCHANGED <<agentVars, savedVars, sent, effects>>,
           CallsServed(c), RowsServed(c), DOMAIN rows' = DOMAIN rows,
           calls[c].pc = "settle",
           c \in DOMAIN calls' => calls'[c].pc \notin {"execute", "settle"},
           RowOf(c) \in DOMAIN rows /\ calls[c].task \in Rec =>
              rows'[RowOf(c)].state \in {"pending", "succeeded", "failed", "outcome_unknown"},
           c \in DOMAIN calls' /\ calls'[c].answer \in {"succeeded", "failed"}
              /\ RowOf(c) \in DOMAIN rows =>
                 rows'[RowOf(c)].state = calls'[c].answer
    PROVE  Effected'
<1> DEFINE task == calls[c].task
<1>1. \A d \in DOMAIN calls' : d \in DOMAIN calls /\ RowOf(d)' = RowOf(d)
  BY DEF CallsServed, RowOf
<1>2. \A d \in DOMAIN calls' : AtWork(d)' => d # c /\ AtWork(d)
  BY DEF CallsServed, AtWork
<1>3. AtWork(c)
  BY DEF AtWork
<1>4. task \in Rec =>
        /\ RowOf(c) \in DOMAIN rows
        /\ rows[RowOf(c)].state = "pending"
        /\ effects[task] = 1
        /\ RowOf(c) = RowFor(task)
  BY <1>3, OneRow DEF Effected, WorkIsPending
<1>5. \A t \in Rec : RowFor(t)' = RowFor(t)
  BY DEF RowFor, KeyOf, savedVars
<1>6. \A d \in DOMAIN calls :
        calls[d].task \in Rec /\ calls[d].task # task => RowOf(d) # RowOf(c)
  BY DEF RowOf
<1>7. \A t \in Rec \ {task} : RowFor(t) # RowOf(c)
  BY OneRow
<1>8. OneAtWork'
  BY <1>1, <1>2 DEF Effected, OneAtWork, CallsServed
<1>9. WorkIsPending'
  <2> SUFFICES ASSUME NEW d \in DOMAIN calls', AtWork(d)', calls[d].task \in Rec
               PROVE  /\ RowOf(d) \in DOMAIN rows'
                      /\ rows'[RowOf(d)].state = "pending"
                      /\ effects[calls[d].task] = IF calls[d].pc = "execute" THEN 0 ELSE 1
    BY <1>1, <1>2 DEF WorkIsPending, CallsServed
  <2>1. d # c /\ AtWork(d) /\ d \in DOMAIN calls
    BY <1>1, <1>2
  <2>2. calls[d].task # task
    BY <1>3, <2>1 DEF Effected, OneAtWork
  <2> QED
    BY <1>6, <2>1, <2>2 DEF Effected, WorkIsPending, RowsServed
<1>10. OutcomesStored'
  <2> SUFFICES ASSUME NEW d \in DOMAIN calls', calls[d].task \in Rec,
                      calls'[d].answer \in {"succeeded", "failed"}
               PROVE  RowOf(d) \in DOMAIN rows' /\ rows'[RowOf(d)].state = calls'[d].answer
    BY <1>1 DEF OutcomesStored, CallsServed
  <2>1. CASE d = c
    BY <2>1, <1>4
  <2>2. CASE d # c
    <3>1. /\ d \in DOMAIN calls /\ calls'[d].answer = calls[d].answer
          /\ RowOf(d) \in DOMAIN rows /\ rows[RowOf(d)].state = calls[d].answer
      BY <1>1, <2>2 DEF Effected, OutcomesStored, CallsServed
    <3>2. calls[d].task # task
      BY <1>4, <3>1, OneRow
    <3> QED
      BY <1>6, <3>1, <3>2 DEF RowsServed
  <2> QED
    BY <2>1, <2>2
<1>11. EffectsStored'
  BY <1>4, <1>5, <1>7 DEF Effected, EffectsStored, RowsServed
<1>12. AnswersStored'
  BY <1>4, <1>5, <1>7 DEF Effected, AnswersStored, RowsServed, agentVars, savedVars, KeyOf
<1> QED
  BY <1>8, <1>9, <1>10, <1>11, <1>12 DEF Effected

\* The swap to pending gives the effect to one request.
LEMMA BegunKeepsEffects ==
    ASSUME ToolTypeOK, Keyed, Effected, NEW c \in DOMAIN calls,
           UNCHANGED <<agentVars, savedVars, sent, effects>>,
           StateOf(c) \in {"reserved", "suspended"},
           MoveRow(c, "pending"), Proceed(c, "execute")
    PROVE  Effected'
<1> DEFINE task == calls[c].task
<1>1. /\ CallsServed(c) /\ RowsServed(c)
      /\ DOMAIN rows' = DOMAIN rows
      /\ RowOf(c) \in DOMAIN rows
      /\ rows[RowOf(c)].state \in {"reserved", "suspended"}
      /\ rows'[RowOf(c)].state = "pending"
  BY StateFound, ProceedServes, MoveRowServes DEF CallPcs, RowStates
<1>2. \A d \in DOMAIN calls' :
        /\ d \in DOMAIN calls
        /\ RowOf(d)' = RowOf(d)
        /\ calls'[d].answer = calls[d].answer
        /\ d = c => calls'[d].pc = "execute"
  BY <1>1, ProceedServes DEF CallsServed, RowOf, CallPcs
<1>3. \A d \in DOMAIN calls :
        calls[d].task \in Rec /\ RowOf(d) = RowOf(c) =>
           ~AtWork(d) /\ calls[d].answer \notin {"succeeded", "failed"}
  BY <1>1 DEF Effected, WorkIsPending, OutcomesStored
<1>4. task \in Rec => effects[task] = 0 /\ RowOf(c) = RowFor(task)
  BY <1>1, OneRow DEF Effected, EffectsStored
<1>5. \A d \in DOMAIN calls :
        calls[d].task \in Rec /\ calls[d].task = task => RowOf(d) = RowOf(c)
  BY OneRow
<1>6. \A t \in Rec : RowFor(t)' = RowFor(t)
  BY DEF RowFor, KeyOf, savedVars
<1>7. OneAtWork'
  <2> SUFFICES ASSUME NEW d \in DOMAIN calls', NEW e \in DOMAIN calls',
                      AtWork(d)', AtWork(e)', calls[d].task \in Rec,
                      calls[d].task = calls[e].task
               PROVE  d = e
    BY <1>1 DEF OneAtWork, CallsServed
  <2>1. \A f \in DOMAIN calls' : AtWork(f)' => f = c \/ AtWork(f)
    BY <1>1 DEF CallsServed, AtWork
  <2> QED
    BY <1>2, <1>3, <1>5, <2>1 DEF Effected, OneAtWork
<1>8. WorkIsPending'
  <2> SUFFICES ASSUME NEW d \in DOMAIN calls', AtWork(d)', calls[d].task \in Rec
               PROVE  /\ RowOf(d) \in DOMAIN rows'
                      /\ rows'[RowOf(d)].state = "pending"
                      /\ effects[calls[d].task] = IF calls'[d].pc = "execute" THEN 0 ELSE 1
    BY <1>1, <1>2 DEF WorkIsPending, CallsServed
  <2>1. CASE d = c
    BY <1>1, <1>2, <1>4, <2>1
  <2>2. CASE d # c
    <3>1. AtWork(d) /\ calls'[d] = calls[d] /\ d \in DOMAIN calls
      BY <1>1, <2>2 DEF CallsServed, AtWork
    <3>2. RowOf(d) # RowOf(c)
      BY <1>3, <3>1
    <3> QED
      BY <1>1, <3>1, <3>2 DEF Effected, WorkIsPending, RowsServed
  <2> QED
    BY <2>1, <2>2
<1>9. OutcomesStored'
  BY <1>1, <1>2, <1>3 DEF Effected, OutcomesStored, CallsServed, RowsServed
<1>10. EffectsStored'
  <2>1. \A t \in Rec : RowFor(t) = RowOf(c) => t = task
    BY OneRow
  <2> QED
    BY <1>1, <1>4, <1>6, <2>1 DEF Effected, EffectsStored, RowsServed
<1>11. AnswersStored'
  BY <1>1, <1>6 DEF Effected, AnswersStored, RowsServed, agentVars, savedVars, KeyOf
<1> QED
  BY <1>7, <1>8, <1>9, <1>10, <1>11 DEF Effected

\* The effect happens.
LEMMA ExecutedKeepsEffects ==
    ASSUME ToolTypeOK, Keyed, Effected, NEW c \in DOMAIN calls, Execute(c)
    PROVE  Effected'
<1> DEFINE task == calls[c].task
<1>1. /\ CallsServed(c)
      /\ UNCHANGED <<nodes, correlations, keys, rows>>
      /\ calls[c].pc = "execute"
      /\ AtWork(c)
  BY ProceedServes DEF Execute, CallPcs, AtWork, agentVars, savedVars
<1>2. \A d \in DOMAIN calls' :
        /\ d \in DOMAIN calls
        /\ RowOf(d)' = RowOf(d)
        /\ calls'[d].answer = calls[d].answer
        /\ d = c => calls'[d].pc = "settle"
        /\ AtWork(d)' <=> AtWork(d)
  BY <1>1, ProceedServes DEF Execute, CallsServed, RowOf, CallPcs, AtWork
<1>3. /\ task \in Tasks
      /\ effects'[task] = effects[task] + 1
      /\ \A t \in Tasks \ {task} : effects'[t] = effects[t]
  BY DEF Execute, ToolTypeOK, Requests
<1>4. task \in Rec =>
        /\ RowOf(c) \in DOMAIN rows
        /\ rows[RowOf(c)].state = "pending"
        /\ effects[task] = 0
        /\ RowOf(c) = RowFor(task)
  BY <1>1, OneRow DEF Effected, WorkIsPending
<1>5. \A t \in Rec : RowFor(t)' = RowFor(t)
  BY <1>1 DEF RowFor, KeyOf
<1>6. OneAtWork'
  BY <1>1, <1>2 DEF Effected, OneAtWork, CallsServed
<1>7. WorkIsPending'
  <2> SUFFICES ASSUME NEW d \in DOMAIN calls', AtWork(d)', calls[d].task \in Rec
               PROVE  /\ RowOf(d) \in DOMAIN rows
                      /\ rows[RowOf(d)].state = "pending"
                      /\ effects'[calls[d].task] = IF calls'[d].pc = "execute" THEN 0 ELSE 1
    BY <1>1, <1>2 DEF WorkIsPending, CallsServed
  <2>1. CASE d = c
    BY <1>2, <1>3, <1>4, <2>1
  <2>2. CASE d # c
    <3>1. AtWork(d) /\ calls'[d] = calls[d] /\ d \in DOMAIN calls /\ calls[d].task # task
      BY <1>1, <1>2, <2>2 DEF CallsServed, Effected, OneAtWork
    <3> QED
      BY <1>3, <3>1, OneRow DEF Effected, WorkIsPending
  <2> QED
    BY <2>1, <2>2
<1>8. OutcomesStored'
  BY <1>1, <1>2 DEF Effected, OutcomesStored, CallsServed
<1>9. EffectsStored'
  BY <1>1, <1>3, <1>4, <1>5, OneRow DEF Effected, EffectsStored
<1>10. AnswersStored'
  BY <1>1, <1>5 DEF Effected, AnswersStored, KeyOf
<1> QED
  BY <1>6, <1>7, <1>8, <1>9, <1>10 DEF Effected


LEMMA ServerKeepsEffects ==
    ASSUME ToolTypeOK, ToolAssumption, Keyed, Effected, NEW c \in DOMAIN calls, ServerStep(c)
    PROVE  Effected'
<1> USE DEF CallAnswers
<1>n. None \in Suspensions \cup {None}
  OBVIOUS
<1>s. <<calls[c].task, c>> \in Suspensions \cup {None}
  BY DEF ToolTypeOK, Suspensions, Requests
<1>r. RowOf(c) \in DOMAIN rows => rows[RowOf(c)].suspension \in Suspensions \cup {None}
  BY DEF ToolTypeOK, Rows
<1>a. UNCHANGED <<agentVars, savedVars, sent>> /\ CallsServed(c) /\ RowsServed(c)
  BY ServerServes
\* An answer that does not settle anything.
<1>b. ASSUME NEW answer \in CallAnswers, NEW suspension \in Suspensions \cup {None},
             Respond(c, answer, suspension), UNCHANGED <<rows, effects>>,
             answer \in {"succeeded", "failed"} =>
                RowOf(c) \in DOMAIN rows /\ rows[RowOf(c)].state = answer
      PROVE  Effected'
  <2>1. c \in DOMAIN calls' => calls'[c].pc = "answered" /\ calls'[c].answer = answer
    BY <1>b, RespondServes
  <2> QED
    BY <1>a, <1>b, <2>1, QuietKeepsEffects
\* A request goes on without the effect.
<1>c. ASSUME NEW pc \in {"suspend", "begin", "resume"}, Proceed(c, pc), UNCHANGED effects,
             \/ UNCHANGED rows
             \/ StateOf(c) = "absent" /\ SetRow(c, "reserved", None)
      PROVE  Effected'
  <2>1. c \in DOMAIN calls' => calls'[c].pc = pc /\ calls'[c].answer = calls[c].answer
    BY <1>c, ProceedServes DEF CallPcs
  <2>2. \/ UNCHANGED rows
        \/ RowOf(c) \notin DOMAIN rows /\ rows'[RowOf(c)].state = "reserved"
    BY <1>c, StateFound, SetRowServes DEF RowStates
  <2>3. c \in DOMAIN calls' /\ calls'[c].answer \in {"succeeded", "failed"}
           /\ calls[c].task \in Rec =>
              RowOf(c) \in DOMAIN rows /\ rows[RowOf(c)].state = calls'[c].answer
    BY <2>1 DEF Effected, OutcomesStored
  <2> QED
    BY <1>a, <1>c, <2>1, <2>2, <2>3, QuietKeepsEffects
<1>1. CASE ReserveSuspension(c)
  <2>1. CASE Proceed(c, "suspend")
    BY <1>1, <2>1, <1>c DEF ReserveSuspension
  <2>2. CASE Respond(c, "error", None) /\ UNCHANGED rows
    BY <1>1, <2>2, <1>n, <1>b DEF ReserveSuspension
  <2> QED
    BY <1>1, <2>1, <2>2 DEF ReserveSuspension
<1>2. CASE AnswerAgain(c)
  <2>1. CASE Respond(c, "deferred", None)
    BY <1>2, <2>1, <1>n, <1>b DEF AnswerAgain
  <2>2. CASE StateOf(c) = "suspended" /\ Respond(c, "suspended", rows[RowOf(c)].suspension)
    BY <1>2, <2>2, <1>r, <1>b, StateFound DEF AnswerAgain
  <2> QED
    BY <1>2, <2>1, <2>2 DEF AnswerAgain
<1>3. CASE SwapSuspended(c)
  <2>1. CASE /\ StateOf(c) = "reserved"
             /\ SetRow(c, "suspended", <<calls[c].task, c>>)
             /\ Respond(c, "suspended", <<calls[c].task, c>>)
    <3>1. RowOf(c) \in DOMAIN rows /\ rows[RowOf(c)].state = "reserved"
      BY <2>1, StateFound
    <3>2. rows'[RowOf(c)].state = "suspended" /\ DOMAIN rows' = DOMAIN rows
      BY <1>s, <2>1, <3>1, SetRowServes DEF RowStates
    <3>3. c \in DOMAIN calls' => calls'[c].pc = "answered" /\ calls'[c].answer = "suspended"
      BY <2>1, <1>s, RespondServes
    <3>4. UNCHANGED effects
      BY <1>3 DEF SwapSuspended
    <3> QED
      BY <1>a, <3>1, <3>2, <3>3, <3>4, QuietKeepsEffects
  <2>2. CASE Respond(c, "error", None) /\ UNCHANGED rows
    BY <1>3, <2>2, <1>n, <1>b DEF SwapSuspended
  <2> QED
    BY <1>3, <2>1, <2>2 DEF SwapSuspended
<1>4. CASE ReserveEffect(c)
  <2>1. CASE StateOf(c) = "absent" /\ SetRow(c, "reserved", None) /\ Proceed(c, "begin")
    BY <1>4, <2>1, <1>c DEF ReserveEffect
  <2>2. CASE Proceed(c, "resume") /\ UNCHANGED rows
    BY <1>4, <2>2, <1>c DEF ReserveEffect
  <2>3. CASE UNCHANGED rows /\ \E answer \in {"outcome_unknown", "deferred"} : Respond(c, answer, None)
    BY <1>4, <2>3, <1>n, <1>b DEF ReserveEffect
  <2> QED
    BY <1>4, <2>1, <2>2, <2>3 DEF ReserveEffect
<1>5. CASE Begin(c)
  <2>1. CASE /\ StateOf(c) \in {"reserved", "suspended"}
             /\ MoveRow(c, "pending")
             /\ Proceed(c, "execute")
    BY <1>5, <1>a, <2>1, BegunKeepsEffects DEF Begin
  <2>2. CASE Respond(c, "error", None) /\ UNCHANGED rows
    BY <1>5, <2>2, <1>n, <1>b DEF Begin
  <2> QED
    BY <1>5, <2>1, <2>2 DEF Begin
<1>6. CASE Execute(c)
  BY <1>6, ExecutedKeepsEffects
\* The effect is settled, or left in doubt.
<1>d. ASSUME calls[c].pc = "settle", UNCHANGED effects,
             NEW answer \in {"succeeded", "failed", "outcome_unknown"},
             Respond(c, answer, None),
             \/ rows' = [rows EXCEPT ![RowOf(c)].state = answer]
             \/ UNCHANGED rows /\ answer = "outcome_unknown"
      PROVE  Effected'
  <2>1. c \in DOMAIN calls' => calls'[c].pc = "answered" /\ calls'[c].answer = answer
    BY <1>d, <1>n, RespondServes
  <2>2. /\ DOMAIN rows' = DOMAIN rows
        /\ RowOf(c) \in DOMAIN rows =>
              \/ rows'[RowOf(c)].state = answer
              \/ /\ rows'[RowOf(c)].state = rows[RowOf(c)].state
                 /\ answer = "outcome_unknown"
    BY <1>d DEF ToolTypeOK, Rows
  <2>3. calls[c].task \in Rec => rows[RowOf(c)].state = "pending"
    BY <1>d DEF Effected, WorkIsPending, AtWork
  <2> QED
    BY <1>a, <1>d, <2>1, <2>2, <2>3, SettledKeepsEffects
<1>7. CASE Settle(c)
  <2>1. PICK result \in {"succeeded", "failed"} : MoveRow(c, result) /\ Respond(c, result, None)
    BY <1>7 DEF Settle
  <2> QED
    BY <1>7, <2>1, <1>d DEF Settle, MoveRow
<1>8. CASE AnswerStatus(c)
  <2>1. CASE StateOf(c) = "suspended"
    <3>1. Respond(c, "suspended", rows[RowOf(c)].suspension) /\ UNCHANGED <<rows, effects>>
      BY <1>8, <2>1 DEF AnswerStatus
    <3> QED
      BY <2>1, <3>1, <1>r, <1>b, StateFound
  <2>2. CASE StateOf(c) \in {"succeeded", "failed"}
    <3>1. Respond(c, StateOf(c), None) /\ UNCHANGED <<rows, effects>>
      BY <1>8, <2>2 DEF AnswerStatus
    <3> QED
      BY <2>2, <3>1, <1>n, <1>b, StateFound
  <2>3. CASE StateOf(c) \notin {"suspended", "succeeded", "failed"}
    <3>1. \E answer \in {"error", "pending", "denied", "outcome_unknown"} : Respond(c, answer, None)
      <4>1. CASE StateOf(c) = "absent"
        BY <1>8, <4>1 DEF AnswerStatus
      <4>2. CASE StateOf(c) = "reserved"
        BY <1>8, <4>2 DEF AnswerStatus
      <4>3. CASE StateOf(c) = "abandoned"
        BY <1>8, <4>3 DEF AnswerStatus
      <4>4. CASE StateOf(c) \in {"pending", "outcome_unknown"}
        BY <1>8, <4>4 DEF AnswerStatus
      <4> QED
        BY <2>3, <4>1, <4>2, <4>3, <4>4, StateFound DEF RowStates
    <3> QED
      BY <1>8, <3>1, <1>n, <1>b DEF AnswerStatus
  <2> QED
    BY <2>1, <2>2, <2>3
<1>9. CASE Refuse(c)
  BY <1>9, <1>n, <1>b DEF Refuse
<1>10. CASE ProviderStoreFails(c)
  <2>1. CASE Respond(c, "error", None) /\ UNCHANGED rows
    BY <1>10, <2>1, <1>n, <1>b DEF ProviderStoreFails
  <2>2. CASE /\ calls[c].pc = "settle"
             /\ rows' \in {rows, [rows EXCEPT ![RowOf(c)].state = "outcome_unknown"]}
             /\ Respond(c, "outcome_unknown", None)
    BY <1>10, <2>2, <1>d DEF ProviderStoreFails
  <2> QED
    BY <1>10, <2>1, <2>2 DEF ProviderStoreFails
<1>11. CASE Lose(c)
  <2>1. c \notin DOMAIN calls' /\ UNCHANGED <<rows, effects>>
    BY <1>11 DEF Lose
  <2> QED
    BY <2>1, <1>a, QuietKeepsEffects
<1> QED
  BY <1>1, <1>2, <1>3, <1>4, <1>5, <1>6, <1>7, <1>8, <1>9, <1>10, <1>11
     DEF ServerStep, Handle

\* Tools do not touch rows or effects, and an identity is given only once.
LEMMA AgentStayEffected ==
    ASSUME ToolTypeOK, Keyed, Effected, UNCHANGED <<rows, effects>>,
           \A c \in DOMAIN calls' :
              \/ c \in DOMAIN calls /\ calls'[c] = calls[c]
              \/ calls'[c].pc = "sent" /\ calls'[c].answer = "none",
           RowsKeyed', \A t \in Rec : KeyOf(t)' = KeyOf(t) \/ KeyOf(t) = None,
           AnswersStored'
    PROVE  Effected'
<1>1. \A c \in DOMAIN calls' :
        \/ c \in DOMAIN calls /\ calls'[c] = calls[c] /\ RowOf(c)' = RowOf(c)
           /\ (AtWork(c)' <=> AtWork(c))
        \/ ~AtWork(c)' /\ calls'[c].answer = "none"
  BY DEF RowOf, AtWork
<1>2. OneAtWork'
  BY <1>1 DEF Effected, OneAtWork
<1>3. WorkIsPending'
  BY <1>1 DEF Effected, WorkIsPending
<1>4. OutcomesStored'
  BY <1>1 DEF Effected, OutcomesStored
<1>5. ASSUME NEW t \in Rec
      PROVE  \/ RowFor(t)' = RowFor(t)
             \/ effects[t] = 0 /\ RowFor(t)' \notin DOMAIN rows
  <2>1. CASE KeyOf(t)' = KeyOf(t)
    BY <2>1 DEF RowFor
  <2>2. CASE KeyOf(t) = None /\ KeyOf(t)' # None
    <3>1. effects[t] = 0
      BY <2>2, OneRow DEF Effected, EffectsStored
    <3>2. RowFor(t)' \notin DOMAIN rows
      <4>1. SUFFICES ASSUME RowFor(t)' \in DOMAIN rows
                     PROVE  FALSE
        OBVIOUS
      <4>2. KeyOf(t)' = KeyOf(t)
        BY <4>1 DEF Keyed, RowsKeyed, RowFor
      <4> QED
        BY <2>2, <4>2
    <3> QED
      BY <3>1, <3>2
  <2> QED
    BY <2>1, <2>2
<1>6. EffectsStored'
  BY <1>5 DEF Effected, EffectsStored
<1> QED
  BY <1>2, <1>3, <1>4, <1>6 DEF Effected

LEMMA ResetKeepsAnswers ==
    ASSUME Effected, \A t \in Tasks : nodes'[t] \in {nodes[t], IdleNode},
           Rec \subseteq Tasks, UNCHANGED <<correlations, keys, rows>>
    PROVE  AnswersStored'
  BY DEF Effected, AnswersStored, IdleNode, KeyOf, RowFor

\* One task goes on, or learns what its row says.
LEMMA MoveKeepsAnswers ==
    ASSUME ToolTypeOK, Keyed, Effected, NEW t \in Tasks,
           \A u \in Tasks \ {t} : nodes'[u] = nodes[u],
           UNCHANGED rows,
           \A u \in Rec \ {t} : KeyOf(u)' = KeyOf(u),
           nodes'[t].pc = "done" /\ nodes'[t].answer \in {"succeeded", "failed"}
              /\ t \in Rec =>
                 /\ nodes'[t].id = KeyOf(t)
                 /\ KeyOf(t)' = KeyOf(t)
                 /\ RowFor(t) \in DOMAIN rows
                 /\ rows[RowFor(t)].state = nodes'[t].answer
    PROVE  AnswersStored'
  BY OneRow DEF Effected, AnswersStored, RowFor

LEMMA AgentKeepsEffects ==
    ASSUME ToolTypeOK, ToolAssumption, Keyed, Effected, AgentStep, Keyed'
    PROVE  Effected'
<1> USE DEF providerVars
<1>k. Rec \subseteq Tasks /\ RowsKeyed'
  BY OneRow DEF Keyed
\* The tool calls that go on without an answer.
<1>a. ASSUME NEW t \in Tasks, \A u \in Tasks \ {t} : nodes'[u] = nodes[u],
             nodes'[t].pc # "done", UNCHANGED <<correlations, keys, rows, effects>>,
             \A c \in DOMAIN calls' :
                \/ c \in DOMAIN calls /\ calls'[c] = calls[c]
                \/ calls'[c].pc = "sent" /\ calls'[c].answer = "none"
      PROVE  Effected'
  <2>1. \A u \in Rec : KeyOf(u)' = KeyOf(u)
    BY <1>a DEF KeyOf
  <2> QED
    BY <1>k, <1>a, <2>1, MoveKeepsAnswers, AgentStayEffected
\* The tool calls that are over.
<1>b. ASSUME NEW t \in Tasks, NEW answer \in ToolAnswers, Finish(t, answer),
             answer \in {"succeeded", "failed"} /\ t \in Rec =>
                /\ nodes[t].id = KeyOf(t)
                /\ RowFor(t) \in DOMAIN rows
                /\ rows[RowFor(t)].state = answer,
             UNCHANGED <<correlations, keys, rows, effects>>,
             \A c \in DOMAIN calls' : c \in DOMAIN calls /\ calls'[c] = calls[c]
      PROVE  Effected'
  <2>1. /\ nodes'[t].answer = answer /\ nodes'[t].id = nodes[t].id
        /\ \A u \in Tasks \ {t} : nodes'[u] = nodes[u]
    BY <1>b DEF Finish, FinishedNode, ToolTypeOK, Nodes
  <2>2. \A u \in Rec : KeyOf(u)' = KeyOf(u)
    BY <1>b DEF KeyOf
  <2> QED
    BY <1>k, <1>b, <2>1, <2>2, MoveKeepsAnswers, AgentStayEffected
\* The runs that end, and what happens between runs.
<1>c. ASSUME \A t \in Tasks : nodes'[t] \in {nodes[t], IdleNode},
             UNCHANGED <<correlations, keys, rows, effects>>,
             \A c \in DOMAIN calls' : c \in DOMAIN calls /\ calls'[c] = calls[c]
      PROVE  Effected'
  <2>1. \A u \in Rec : KeyOf(u)' = KeyOf(u)
    BY <1>c DEF KeyOf
  <2> QED
    BY <1>k, <1>c, <2>1, ResetKeepsAnswers, AgentStayEffected
<1>1. ASSUME NEW t \in Tasks, Correlate(t)
      PROVE  Effected'
  <2>1. /\ nodes'[t].pc # "done"
        /\ \A u \in Tasks \ {t} : nodes'[u] = nodes[u]
    <3>1. \E id \in Nat \cup {None}, pc \in {"persist", "persist_key"} :
             nodes' = [nodes EXCEPT ![t] = [@ EXCEPT !.pc = pc, !.id = id]]
      <4>1. Stored(t) \in Nat \cup {None} /\ used[t] + 1 \in Nat
        BY DEF Stored, ToolTypeOK
      <4>2. CASE Stored(t) # None
        BY <1>1, <4>1, <4>2 DEF Correlate
      <4>3. CASE Stored(t) = None
        BY <1>1, <4>1, <4>3 DEF Correlate
      <4> QED
        BY <4>2, <4>3
    <3> QED
      BY <3>1 DEF ToolTypeOK, Nodes
  <2> QED
    BY <1>1, <2>1, <1>a DEF Correlate, savedVars
<1>2. ASSUME NEW t \in Tasks, PersistCorrelation(t) \/ PersistKey(t)
      PROVE  Effected'
  <2>1. /\ nodes'[t].pc # "done"
        /\ \A u \in Tasks \ {t} : nodes'[u] = nodes[u] /\ KeyOf(u)' = KeyOf(u)
        /\ UNCHANGED <<calls, rows, effects>>
    BY <1>2 DEF PersistCorrelation, PersistKey, Go, ToolTypeOK, Nodes, KeyOf
  <2>2. t \in Rec => KeyOf(t)' \in {KeyOf(t), nodes[t].id} /\ KeyOf(t) \in {None, nodes[t].id}
    BY <1>2 DEF PersistCorrelation, PersistKey, ToolTypeOK, Keyed, NodesKeyed, KeyOf
  <2>3. AnswersStored'
    BY <1>k, <2>1, MoveKeepsAnswers
  <2> QED
    BY <1>k, <2>1, <2>2, <2>3, AgentStayEffected
<1>4. ASSUME NEW t \in Tasks, Send(t)
      PROVE  Effected'
  <2>1. /\ nodes'[t].pc # "done"
        /\ \A u \in Tasks \ {t} : nodes'[u] = nodes[u]
    BY <1>4 DEF Send, ToolTypeOK, Nodes
  <2>2. \A c \in DOMAIN calls' :
           \/ c \in DOMAIN calls /\ calls'[c] = calls[c]
           \/ calls'[c].pc = "sent" /\ calls'[c].answer = "none"
    BY <1>4 DEF Send, ToolTypeOK
  <2> QED
    BY <1>4, <2>1, <2>2, <1>a DEF Send
<1>5. ASSUME NEW t \in Tasks, Receive(t)
      PROVE  Effected'
  <2> DEFINE call == calls[nodes[t].call]
  <2>1. /\ \A c \in DOMAIN calls' : c \in DOMAIN calls /\ calls'[c] = calls[c]
        /\ UNCHANGED <<rows, effects>>
        /\ nodes[t].pc = "waiting"
    BY <1>5 DEF Receive
  <2>2. CASE \/ Interrupt(t, call.suspension)
             \/ Present(t, ResumeValue(t))
             \/ /\ nodes' = [nodes EXCEPT ![t] = [@ EXCEPT !.pc = "status", !.call = 0]]
                /\ UNCHANGED <<running, offered, savedVars>>
    <3>1. /\ nodes'[t].pc # "done"
          /\ \A u \in Tasks \ {t} : nodes'[u] = nodes[u]
          /\ UNCHANGED <<correlations, keys>>
      <4>1. CASE Interrupt(t, call.suspension)
        BY <4>1 DEF Interrupt, ToolTypeOK, Nodes, savedVars
      <4>2. CASE Present(t, ResumeValue(t))
        BY <4>2 DEF Present, ToolTypeOK, Nodes
      <4>3. CASE /\ nodes' = [nodes EXCEPT ![t] = [@ EXCEPT !.pc = "status", !.call = 0]]
                 /\ UNCHANGED <<running, offered, savedVars>>
        BY <4>3 DEF ToolTypeOK, Nodes, savedVars
      <4> QED
        BY <2>2, <4>1, <4>2, <4>3
    <3> QED
      BY <2>1, <3>1, <1>a
  <2>3. CASE Raise
    BY <2>1, <2>3, EndRunNodes, <1>c DEF Raise
  <2>4. ASSUME NEW answer \in ToolAnswers, Finish(t, answer),
               answer \in {"succeeded", "failed"} => call.answer = answer,
               UNCHANGED <<running, offered, savedVars>>
        PROVE  Effected'
    <3>1. answer \in {"succeeded", "failed"} /\ t \in Rec =>
             /\ nodes[t].id = KeyOf(t)
             /\ RowFor(t) \in DOMAIN rows
             /\ rows[RowFor(t)].state = answer
      <4>1. /\ nodes[t].call \in DOMAIN calls /\ call.task = t
            /\ t \in Rec => nodes[t].id = KeyOf(t)
        BY <1>5, <2>1 DEF Receive, Keyed, CallsLinked, NodesKeyed
      <4> QED
        BY <2>4, <4>1, OneRow DEF Effected, OutcomesStored
    <3> QED
      BY <2>1, <2>4, <3>1, <1>b DEF savedVars
  <2> QED
    BY <1>5, <2>2, <2>3, <2>4 DEF Receive, Suspend, ToolAnswers
<1>6. ASSUME NEW t \in Tasks, Disconnected(t) \/ CheckpointStoreFails(t) \/ TimeOut(t)
      PROVE  Effected'
  <2>1. Finish(t, "error") /\ UNCHANGED <<savedVars, providerVars>>
    BY <1>6 DEF Disconnected, CheckpointStoreFails, TimeOut
  <2> QED
    BY <2>1, <1>b DEF savedVars, ToolAnswers
<1>7. ASSUME NEW suspension \in Suspensions, Approve(suspension)
      PROVE  Effected'
  BY <1>7, <1>c DEF Approve, agentVars
<1>8. CASE StartRun
  BY <1>8, <1>c DEF StartRun, savedVars
<1>9. CASE FinishRun
  BY <1>9, EndRunNodes, <1>c DEF FinishRun
<1>10. CASE AgentCrash
  BY <1>10, EndRunNodes, <1>c DEF AgentCrash
<1> QED
  BY <1>1, <1>2, <1>4, <1>5, <1>6, <1>7, <1>8, <1>9, <1>10 DEF AgentStep, Tool

\* A provider that comes up again puts in doubt what was under way, and what is
\* in doubt may be given up.
LEMMA RestKeepsEffects ==
    ASSUME ToolTypeOK, Keyed, Effected, Outage \/ Abandon
    PROVE  Effected'
<1>1. CASE Outage
  <2>1. DOMAIN calls' = {} /\ DOMAIN rows' = DOMAIN rows
    BY <1>1 DEF Outage
  <2>2. \A r \in DOMAIN rows :
          \/ rows'[r] = rows[r]
          \/ rows[r].state \in {"reserved", "pending"} /\ rows'[r].state = "outcome_unknown"
    BY <1>1 DEF Outage, ToolTypeOK, Rows
  <2>3. UNCHANGED <<nodes, effects>> /\ \A t \in Rec : KeyOf(t)' = KeyOf(t) /\ RowFor(t)' = RowFor(t)
    BY <1>1 DEF Outage, agentVars, savedVars, KeyOf, RowFor
  <2>4. OneAtWork' /\ WorkIsPending' /\ OutcomesStored'
    BY <2>1 DEF OneAtWork, WorkIsPending, OutcomesStored
  <2>5. EffectsStored' /\ AnswersStored'
    BY <2>1, <2>2, <2>3 DEF Effected, EffectsStored, AnswersStored
  <2> QED
    BY <2>4, <2>5 DEF Effected
<1>2. CASE Abandon
  <2>1. DOMAIN rows' = DOMAIN rows /\ UNCHANGED <<calls, nodes, effects>>
    BY <1>2 DEF Abandon, agentVars
  <2>2. \A r \in DOMAIN rows :
          \/ rows'[r] = rows[r]
          \/ rows[r].state = "outcome_unknown" /\ rows'[r].state = "abandoned"
    BY <1>2 DEF Abandon, ToolTypeOK, Rows
  <2>3. \A t \in Rec : KeyOf(t)' = KeyOf(t) /\ RowFor(t)' = RowFor(t)
    BY <1>2 DEF Abandon, savedVars, KeyOf, RowFor
  <2>4. \A c \in DOMAIN calls : RowOf(c)' = RowOf(c) /\ AtWork(c)' = AtWork(c)
    BY <2>1 DEF RowOf, AtWork
  <2>5. OneAtWork' /\ WorkIsPending' /\ OutcomesStored'
    BY <2>1, <2>2, <2>4 DEF Effected, OneAtWork, WorkIsPending, OutcomesStored
  <2>6. EffectsStored' /\ AnswersStored'
    BY <2>1, <2>2, <2>3 DEF Effected, EffectsStored, AnswersStored
  <2> QED
    BY <2>5, <2>6 DEF Effected
<1> QED
  BY <1>1, <1>2

-----------------------------------------------------------------------------
(* The theorems.                                                            *)

LEMMA InitInvariant ==
    ASSUME ToolAssumption, Init
    PROVE  ToolInvariant
<1>1. DOMAIN calls = {} /\ DOMAIN rows = {}
  BY DEF Init
<1>2. \A t \in Tasks : nodes[t] = IdleNode /\ KeyOf(t) = None
  BY DEF Init, KeyOf
<1>3. ToolTypeOK
  <2>1. DOMAIN calls \subseteq 1..sent /\ sent \in 0..MaxCalls
    BY <1>1 DEF Init, ToolAssumption
  <2>2. nodes \in [Tasks -> Nodes]
    BY NodeTypes DEF Init
  <2>3. /\ used \in [Tasks -> Nat]
        /\ correlations \in [Tasks -> Nat \cup {None}]
        /\ keys \in [Tasks -> Nat \cup {None}]
        /\ interrupts \in [Tasks -> Suspensions \cup {None}]
        /\ resumes \in [Tasks -> Suspensions \cup {None}]
        /\ effects \in [Tasks -> Nat]
    BY DEF Init
  <2>4. /\ running \in BOOLEAN
        /\ offered \in Suspensions \cup {None}
        /\ resume \in Suspensions \cup {None}
        /\ saved \subseteq Tasks
        /\ faults \in Nat
    BY DEF Init
  <2> QED
    BY <1>1, <2>1, <2>2, <2>3, <2>4 DEF ToolTypeOK
<1>4. Keyed
  BY <1>1, <1>2
     DEF Keyed, NodesKeyed, CallsKeyed, RowsKeyed, CallsLinked, IdleNode, Init
<1>5. Suspended
  BY <1>1, <1>2
     DEF Suspended, NotYetSuspended, SuspensionsTold, EvidenceHeld,
         EvidenceForOwnSuspension, IdleNode
<1>6. Rec \subseteq Tasks /\ \A t \in Rec : effects[t] = 0
  BY DEF Rec, ToolAssumption, Init
<1>7. Effected
  BY <1>1, <1>2, <1>6
     DEF Effected, OneAtWork, WorkIsPending, OutcomesStored, EffectsStored,
         AnswersStored, IdleNode
<1> QED
  BY <1>3, <1>4, <1>5, <1>7 DEF ToolInvariant

LEMMA StepKeepsInvariant ==
    ASSUME ToolAssumption, ToolInvariant, [Next]_vars
    PROVE  ToolInvariant'
<1> USE DEF ToolInvariant
<1>1. CASE AgentStep /\ faults' \in Nat
  <2>1. ToolTypeOK' /\ Keyed'
    BY <1>1, AgentTypes, AgentKeepsKeys DEF Keyed
  <2> QED
    BY <1>1, <2>1, AgentKeepsSuspended, AgentKeepsEffects
<1>2. ASSUME NEW c \in DOMAIN calls, ServerStep(c), faults' \in Nat
      PROVE  ToolInvariant'
  BY <1>2, ServerTypes, ServerKeepsKeys, ServerKeepsSuspended, ServerKeepsEffects
<1>3. CASE (Outage \/ Abandon) /\ faults' \in Nat
  BY <1>3, RestTypes, ServerKeepsKeys, RestKeepsSuspended, RestKeepsEffects
<1>4. CASE UNCHANGED vars
  BY <1>4
     DEF vars, agentVars, savedVars, providerVars, ToolTypeOK,
         Keyed, NodesKeyed, CallsKeyed, RowsKeyed, CallsLinked,
         Suspended, NotYetSuspended, SuspensionsTold, EvidenceHeld,
         EvidenceForOwnSuspension,
         Effected, OneAtWork, WorkIsPending, OutcomesStored, EffectsStored,
         AnswersStored, RowOf, RowFor, KeyOf, AtWork
<1> QED
  BY <1>1, <1>2, <1>3, <1>4, NextSteps

\* What identifies a task, which request of it is at work, what its row and its
\* evidence say: all of this is as the code intends, in every reachable state.
THEOREM ToolInvariantHolds == Spec => []ToolInvariant
<1>1. Init => ToolInvariant
  BY InitInvariant, ToolAssumption
<1>2. ToolInvariant /\ [Next]_vars => ToolInvariant'
  BY StepKeepsInvariant, ToolAssumption
<1> QED
  BY <1>1, <1>2, PTL DEF Spec

\* However often the node of a task is executed and its request sent, dropped or
\* answered to nobody, its effect happens at most once.
THEOREM OneEffectPerTask == Spec => []EffectOncePerTask
<1>1. ToolInvariant => EffectOncePerTask
  BY DEF ToolInvariant, Effected, EffectsStored, EffectOncePerTask, Rec
<1> QED
  BY <1>1, ToolInvariantHolds, PTL

\* A tool that says its effect succeeded, or failed with a stable error, says it
\* of an effect that happened once and of a row that still tells the same.
THEOREM TruthTold == Spec => []ToldTruth
<1>1. ToolInvariant => ToldTruth
  BY DEF ToolInvariant, Effected, EffectsStored, AnswersStored, ToldTruth, Rec,
         RowFor
<1> QED
  BY <1>1, ToolInvariantHolds, PTL

\* A request carries evidence only of the suspension of its own row, whichever
\* task of the thread picks the resume value up.
THEOREM EvidenceKept == Spec => []EvidenceForOwnSuspension
<1>1. ToolInvariant => EvidenceForOwnSuspension
  BY DEF ToolInvariant, Suspended
<1> QED
  BY <1>1, ToolInvariantHolds, PTL

=============================================================================
