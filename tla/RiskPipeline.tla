----------------------------- MODULE RiskPipeline -----------------------------
(***************************************************************************)
(* The realtime pipeline (Stages 12C and 12D): a background task or a      *)
(* catch-up batch takes an accepted delivery through the inbox and, when   *)
(* it is PROCESSED and not account setup, through cutoff-safe scoring to a *)
(* durable evaluation, its policy decision and its risk case.              *)
(*                                                                         *)
(* The inbox appears here by its contract, LeasedWork, which WebhookInbox  *)
(* implements until a claim token is used twice.  Scoring is a chain of    *)
(* separate transactions: the eligibility read, the graph read at the      *)
(* cutoff, the transaction that persists the lineage, and the one that     *)
(* sets or clears the failure marker; other workers, operators and crashes *)
(* come in between.                                                        *)
(*                                                                         *)
(* A feature vector is the set of facts its graph read saw; a decision is  *)
(* an event with its vector, as the decision's ID hashes its lineage; a    *)
(* case is named by its opening decision.                                  *)
(***************************************************************************)
EXTENDS Naturals, FiniteSets

CONSTANTS
    Event,          \* provider event IDs
    Account,        \* the accounts the events are about
    AccountOf,      \* [Event -> Account]
    Setup,          \* the events that map to account_created
    Mappable,       \* the events that normalize
    InContext,      \* the events whose payload has a decision context
    Relevant,       \* [Event -> SUBSET Event]: facts that can move its features
    Actionable,     \* the decisions whose action is REVIEW or BLOCK
    Backend,        \* threads that run the backend's background tasks
    Operator,       \* threads of the recovery command
    None,
    Limit,          \* the limit of a catch-up batch
    Bound           \* record of the bounds on the environment's steps

Worker == Backend \cup Operator

Decision == Event \X SUBSET Event

ASSUME PipelineAssumption ==
    /\ AccountOf \in [Event -> Account]
    /\ Setup \subseteq Event /\ Mappable \subseteq Event /\ InContext \subseteq Event
    /\ Relevant \in [Event -> SUBSET Event]
    /\ Actionable \subseteq Decision
    /\ None \notin Worker \cup Event \cup Decision
    /\ None \notin [decision : Decision, case : Decision \cup {None}]
    /\ Backend \cap Operator = {}
    /\ Limit \in 1..100
    /\ Bound \in [redelivery : Nat, start : Nat, crash : Nat, fault : Nat, expiry : Nat, close : Nat]

VARIABLES
    phase,          \* the inbox, as LeasedWork sees it
    holder,
    closedBy,
    receivedAt,     \* order of durable receipt, the scoring cutoff; 0: not received
    graph,          \* events whose projection is in Neo4j
    knownAt,        \* Account.created_known_at in Neo4j, 0 when the node has none
    decisions,      \* policy_decisions with their vector, score and probability
    evaluation,     \* risk_evaluations: [decision, case] of an event, or None
    cases,          \* risk_cases, by opening decision
    closed,         \* the cases that are CLOSED
    attached,       \* risk_case_decisions: pairs <<case, decision>>
    markers,        \* risk_processing_failures
    tasks,          \* tasks[e]: background tasks scheduled and not yet started
    pc,             \* where each worker is
    item,           \* the event it works on
    retry,          \* its retry_failed argument
    view,           \* the feature vector of its graph read
    found,          \* the open case its transaction found
    queue,          \* the rest of its batch, processed in order of receipt
    quota,          \* what its batch leaves for unscored events
    used            \* history: environment steps taken, for Bound

inboxVars == <<phase, holder, closedBy>>
graphVars == <<graph, knownAt>>
lineageVars == <<decisions, evaluation, cases, closed, attached>>
workerVars == <<pc, item, retry, view, found, queue, quota>>
vars == <<inboxVars, receivedAt, graphVars, lineageVars, markers, tasks, workerVars, used>>

Inbox == INSTANCE LeasedWork WITH
    Work <- Event, Holder <- Worker, NoHolder <- None

PC == {"idle", "next", "select", "claim", "project", "finalize", "fail",
       "gate", "inputs", "features", "case", "persist", "mark", "clear"}

Init ==
    /\ Inbox!Init
    /\ receivedAt = [e \in Event |-> 0]
    /\ graph = {} /\ knownAt = [a \in Account |-> 0]
    /\ decisions = {} /\ cases = {} /\ closed = {} /\ attached = {}
    /\ evaluation = [e \in Event |-> None]
    /\ markers = {}
    /\ tasks = [e \in Event |-> 0]
    /\ pc = [w \in Worker |-> "idle"]
    /\ item = [w \in Worker |-> None]
    /\ retry = [w \in Worker |-> FALSE]
    /\ view = [w \in Worker |-> {}]
    /\ found = [w \in Worker |-> None]
    /\ queue = [w \in Worker |-> {}]
    /\ quota = [w \in Worker |-> 0]
    /\ used = [redelivery |-> 0, start |-> 0, crash |-> 0, fault |-> 0, expiry |-> 0, close |-> 0]

-----------------------------------------------------------------------------
(* Helpers *)

Spend(kind) ==
    /\ used[kind] < Bound[kind]
    /\ used' = [used EXCEPT ![kind] = @ + 1]

(* The first n of S in order of receipt. *)
Oldest(S, n) ==
    {e \in S : Cardinality({d \in S : receivedAt[d] < receivedAt[e]}) < n}

Goto(w, place) ==
    /\ pc' = [pc EXCEPT ![w] = place]
    /\ UNCHANGED <<item, retry, view, found, queue, quota>>

(* The worker is done with its event: its batch goes on, or it returns. *)
Leave(w) ==
    /\ pc' = [pc EXCEPT ![w] = IF queue[w] # {} THEN "next"
                               ELSE IF quota[w] > 0 THEN "select" ELSE "idle"]
    /\ item' = [item EXCEPT ![w] = None]
    /\ retry' = [retry EXCEPT ![w] = FALSE]
    /\ view' = [view EXCEPT ![w] = {}]
    /\ found' = [found EXCEPT ![w] = None]
    /\ UNCHANGED <<queue, quota>>

(* The threads of the workers in S end: what they hold in memory is lost, an *)
(* open transaction is rolled back, a claimed row stays claimed.             *)
Drop(S) ==
    /\ pc' = [w \in Worker |-> IF w \in S THEN "idle" ELSE pc[w]]
    /\ item' = [w \in Worker |-> IF w \in S THEN None ELSE item[w]]
    /\ retry' = [w \in Worker |-> retry[w] /\ w \notin S]
    /\ view' = [w \in Worker |-> IF w \in S THEN {} ELSE view[w]]
    /\ found' = [w \in Worker |-> IF w \in S THEN None ELSE found[w]]
    /\ queue' = [w \in Worker |-> IF w \in S THEN {} ELSE queue[w]]
    /\ quota' = [w \in Worker |-> IF w \in S THEN 0 ELSE quota[w]]
    /\ Inbox!Abandon({e \in Event : holder[e] \in S})

OpenCases(a) == {c \in cases \ closed : AccountOf[c[1]] = a}

(* Mutant: the graph read forgets the knowledge-time filter. *)
FeaturesUnfiltered(e) == graph \cap Relevant[e]

(* The graph read at e's cutoff: relevant facts known by then. *)
Features(e) == {d \in graph \cap Relevant[e] : receivedAt[d] <= receivedAt[e]}

(* The account's creation is in the graph and was known by e's cutoff. *)
HasHistory(e) == knownAt[AccountOf[e]] \in 1..receivedAt[e]

-----------------------------------------------------------------------------
(* Deliveries *)

DeliverNew(e) ==
    /\ Inbox!Admit(e)
    /\ receivedAt' = [receivedAt EXCEPT ![e] =
                         1 + Cardinality({d \in Event : receivedAt[d] > 0})]
    /\ tasks' = [tasks EXCEPT ![e] = @ + 1]
    /\ UNCHANGED <<graphVars, lineageVars, markers, workerVars, used>>

DeliverAgain(e) ==
    /\ Spend("redelivery")
    /\ phase[e] # "absent"
    /\ tasks' = [tasks EXCEPT ![e] = @ + 1]
    /\ UNCHANGED <<inboxVars, receivedAt, graphVars, lineageVars, markers, workerVars>>

-----------------------------------------------------------------------------
(* RealtimeRiskPipelineService.process: the inbox *)

(* The opening read: a PROCESSED row goes straight to scoring. *)
Begin(w, e) ==
    /\ pc' = [pc EXCEPT ![w] = IF phase[e] = "done" THEN "gate" ELSE "claim"]
    /\ item' = [item EXCEPT ![w] = e]

StartTask(w, e) ==
    /\ w \in Backend /\ pc[w] = "idle"
    /\ tasks[e] > 0
    /\ tasks' = [tasks EXCEPT ![e] = @ - 1]
    /\ Begin(w, e)
    /\ retry' = [retry EXCEPT ![w] = TRUE]
    /\ UNCHANGED <<inboxVars, receivedAt, graphVars, lineageVars, markers,
                   view, found, queue, quota, used>>

(* The recovery command for one event: the explicit retry. *)
StartProcess(w, e) ==
    /\ Spend("start")
    /\ w \in Operator /\ pc[w] = "idle"
    /\ phase[e] # "absent"
    /\ Begin(w, e)
    /\ retry' = [retry EXCEPT ![w] = TRUE]
    /\ UNCHANGED <<inboxVars, receivedAt, graphVars, lineageVars, markers, tasks,
                   view, found, queue, quota>>

(* Mutant: a PROCESSING row is never claimed again, whatever its age. *)
FreeUnleased(e) == phase[e] = "open"

(* Open rows, and rows whose holder is gone, can be claimed. *)
Free(e) == phase[e] = "open" \/ (phase[e] = "held" /\ holder[e] = None)

(* A row whose live holder has outstayed its lease. *)
Overdue(w, e) == phase[e] = "held" /\ holder[e] \in Worker \ {w}

Claim(w) ==
    LET e == item[w] IN
    /\ pc[w] = "claim"
    /\ \/ Free(e) /\ UNCHANGED used
       \/ Overdue(w, e) /\ Spend("expiry")
    /\ \/ /\ e \in Mappable
          /\ Inbox!Take(w, e)
          /\ Goto(w, "project")
       \/ /\ e \notin Mappable
          /\ Inbox!TakeAndGiveBack(w, e)
          /\ Leave(w)
    /\ UNCHANGED <<receivedAt, graphVars, lineageVars, markers, tasks>>

(* WebhookClaimUnavailable: somebody holds the row, or has just finished it. *)
ClaimRefused(w) ==
    /\ pc[w] = "claim"
    /\ phase[item[w]] \in {"held", "done"} /\ ~Free(item[w])
    /\ Leave(w)
    /\ UNCHANGED <<inboxVars, receivedAt, graphVars, lineageVars, markers, tasks, used>>

(* The incremental merge of e's projection. *)
Merge(e) ==
    /\ graph' = graph \cup {e}
    /\ knownAt' = IF e \in Setup
                  THEN [knownAt EXCEPT ![AccountOf[e]] = receivedAt[e]] ELSE knownAt

(* The row was PROCESSED after the opening read: it is projected again. *)
Reproject(w) ==
    /\ pc[w] = "claim"
    /\ phase[item[w]] = "done"
    /\ Merge(item[w])
    /\ Goto(w, "gate")
    /\ UNCHANGED <<inboxVars, receivedAt, lineageVars, markers, tasks, used>>

(* Neo4j answers, or fails before or after it committed. *)
Project(w) ==
    /\ pc[w] = "project"
    /\ \/ Merge(item[w]) /\ Goto(w, "finalize") /\ UNCHANGED used
       \/ /\ Merge(item[w]) \/ UNCHANGED graphVars
          /\ Goto(w, "fail") /\ Spend("fault")
    /\ UNCHANGED <<inboxVars, receivedAt, lineageVars, markers, tasks>>

Finalize(w) ==
    LET e == item[w] IN
    /\ pc[w] \in {"finalize", "fail"}
    /\ IF holder[e] # w
       THEN Leave(w) /\ UNCHANGED inboxVars
       ELSE IF pc[w] = "finalize"
       THEN Inbox!Close(e, "done") /\ Goto(w, "gate")
       ELSE Inbox!Close(e, "open") /\ Leave(w)
    /\ UNCHANGED <<receivedAt, graphVars, lineageVars, markers, tasks, used>>

-----------------------------------------------------------------------------
(* RealtimeRiskPipelineService.process: scoring *)

(* Setup is not scored; a batch does not retry what carries a marker. *)
Gate(w) ==
    LET e == item[w] IN
    /\ pc[w] = "gate"
    /\ IF e \in Setup \/ (~retry[w] /\ e \in markers)
       THEN Leave(w) ELSE Goto(w, "inputs")
    /\ UNCHANGED <<inboxVars, receivedAt, graphVars, lineageVars, markers, tasks, used>>

(* The eligibility read: reuse an evaluation, or check the inputs. *)
ReadInputs(w) ==
    LET e == item[w] IN
    /\ pc[w] = "inputs"
    /\ Goto(w, IF evaluation[e] # None THEN "clear"
               ELSE IF phase[e] # "done" \/ e \notin InContext THEN "mark"
               ELSE "features")
    /\ UNCHANGED <<inboxVars, receivedAt, graphVars, lineageVars, markers, tasks, used>>

(* Mutant: missing account history ends the attempt without a record. *)
ReadFeaturesSilently(w) ==
    LET e == item[w] IN
    /\ pc[w] = "features"
    /\ IF HasHistory(e)
       THEN /\ view' = [view EXCEPT ![w] = Features(e)]
            /\ pc' = [pc EXCEPT ![w] =
                         IF <<e, Features(e)>> \in Actionable THEN "case" ELSE "persist"]
            /\ UNCHANGED <<item, retry, found, queue, quota>>
       ELSE Leave(w)
    /\ UNCHANGED <<inboxVars, receivedAt, graphVars, lineageVars, markers, tasks, used>>

(* The graph read at the cutoff; missing account history fails closed. *)
ReadFeatures(w) ==
    LET e == item[w] IN
    /\ pc[w] = "features"
    /\ IF HasHistory(e)
       THEN /\ view' = [view EXCEPT ![w] = Features(e)]
            /\ pc' = [pc EXCEPT ![w] =
                         IF <<e, Features(e)>> \in Actionable THEN "case" ELSE "persist"]
            /\ UNCHANGED <<item, retry, found, queue, quota>>
       ELSE Goto(w, "mark")
    /\ UNCHANGED <<inboxVars, receivedAt, graphVars, lineageVars, markers, tasks, used>>

DecisionOf(w) == <<item[w], view[w]>>

(* The transaction looks for the account's open case.  Inserts of the same   *)
(* decision wait for each other, so no twin is past this point.              *)
FindCase(w) ==
    LET open == OpenCases(AccountOf[item[w]]) IN
    /\ pc[w] = "case"
    /\ \A v \in Worker : pc[v] = "persist" => DecisionOf(v) # DecisionOf(w)
    /\ found' = [found EXCEPT ![w] = IF open = {} THEN None ELSE CHOOSE c \in open : TRUE]
    /\ pc' = [pc EXCEPT ![w] = "persist"]
    /\ UNCHANGED <<inboxVars, receivedAt, graphVars, lineageVars, markers, tasks,
                   item, retry, view, queue, quota, used>>

(* Mutant: a case that was not found is inserted without a conflict clause   *)
(* and without the partial unique index.                                     *)
CaseOfUnindexed(w) ==
    LET d == DecisionOf(w)
    IN IF d \notin Actionable THEN None
       ELSE IF found[w] # None THEN found[w] ELSE d

(* The case of w's decision: the one found, a concurrently opened one, or    *)
(* a new one under the decision's name.                                      *)
CaseOf(w) ==
    LET d == DecisionOf(w)
        open == OpenCases(AccountOf[item[w]])
    IN IF d \notin Actionable THEN None
       ELSE IF found[w] # None THEN found[w]
       ELSE IF open # {} THEN CHOOSE c \in open : TRUE ELSE d

(* Mutant: the stored evaluation is not compared with the new lineage. *)
ConflictsWithCaseOnly(w) ==
    found[w] = None /\ CaseOf(w) = DecisionOf(w) /\ CaseOf(w) \in closed

(* The lineage conflicts with what is stored: an evaluation with another     *)
(* decision or case, or a closed case under the name of the new one.         *)
Conflicts(w) ==
    LET e == item[w]
        c == CaseOf(w)
    IN \/ evaluation[e] \notin {None, [decision |-> DecisionOf(w), case |-> c]}
       \/ found[w] = None /\ c = DecisionOf(w) /\ c \in closed

(* Mutant: only the decision that opens a case is attached to it. *)
PersistUnattached(w) ==
    LET e == item[w]
        d == DecisionOf(w)
        c == CaseOf(w)
    IN
    /\ pc[w] = "persist"
    /\ ~Conflicts(w)
    /\ decisions' = decisions \cup {d}
    /\ evaluation' = [evaluation EXCEPT ![e] = [decision |-> d, case |-> c]]
    /\ IF c = None \/ c \in cases THEN UNCHANGED <<cases, attached>>
       ELSE cases' = cases \cup {c} /\ attached' = attached \cup {<<c, d>>}
    /\ Goto(w, "clear")
    /\ UNCHANGED <<inboxVars, receivedAt, graphVars, closed, markers, tasks, used>>

(* Mutant: the decision itself is not stored. *)
PersistWithoutDecision(w) ==
    LET e == item[w]
        d == DecisionOf(w)
        c == CaseOf(w)
    IN
    /\ pc[w] = "persist"
    /\ ~Conflicts(w)
    /\ evaluation' = [evaluation EXCEPT ![e] = [decision |-> d, case |-> c]]
    /\ IF c = None THEN UNCHANGED <<cases, attached>>
       ELSE cases' = cases \cup {c} /\ attached' = attached \cup {<<c, d>>}
    /\ Goto(w, "clear")
    /\ UNCHANGED <<inboxVars, receivedAt, graphVars, decisions, closed, markers, tasks,
                   used>>

(* One transaction: decision, case, attachment and evaluation, or nothing. *)
Persist(w) ==
    LET e == item[w]
        d == DecisionOf(w)
        c == CaseOf(w)
    IN
    /\ pc[w] = "persist"
    /\ ~Conflicts(w)
    /\ decisions' = decisions \cup {d}
    /\ evaluation' = [evaluation EXCEPT ![e] = [decision |-> d, case |-> c]]
    /\ IF c = None THEN UNCHANGED <<cases, attached>>
       ELSE cases' = cases \cup {c} /\ attached' = attached \cup {<<c, d>>}
    /\ Goto(w, "clear")
    /\ UNCHANGED <<inboxVars, receivedAt, graphVars, closed, markers, tasks, used>>

(* A conflict rolls the transaction back. *)
PersistConflicts(w) ==
    /\ pc[w] = "persist"
    /\ Conflicts(w)
    /\ Goto(w, "mark")
    /\ UNCHANGED <<inboxVars, receivedAt, graphVars, lineageVars, markers, tasks, used>>

(* An error of either store, or of a model, during scoring. *)
ScoringFails(w) ==
    /\ Spend("fault")
    /\ pc[w] \in {"inputs", "features", "case", "persist"}
    /\ Goto(w, "mark")
    /\ UNCHANGED <<inboxVars, receivedAt, graphVars, lineageVars, markers, tasks>>

Mark(w) ==
    /\ pc[w] = "mark"
    /\ markers' = markers \cup {item[w]}
    /\ Leave(w)
    /\ UNCHANGED <<inboxVars, receivedAt, graphVars, lineageVars, tasks, used>>

Clear(w) ==
    /\ pc[w] = "clear"
    /\ markers' = markers \ {item[w]}
    /\ Leave(w)
    /\ UNCHANGED <<inboxVars, receivedAt, graphVars, lineageVars, tasks, used>>

-----------------------------------------------------------------------------
(* RealtimeRiskPipelineService.process_next *)

(* The first selection: the oldest rows that can be claimed, those in S      *)
(* because a live holder has outstayed its lease.                            *)
StartCatchUp(w, S) ==
    LET ready == Oldest({e \in Event : Free(e)} \cup S, Limit) IN
    /\ w \in Operator /\ pc[w] = "idle"
    /\ S # {} => used.expiry < Bound.expiry /\ \A e \in S : Overdue(w, e)
    /\ queue' = [queue EXCEPT ![w] = ready]
    /\ quota' = [quota EXCEPT ![w] = Limit - Cardinality(ready)]
    /\ pc' = [pc EXCEPT ![w] = IF ready = {} THEN "select" ELSE "next"]
    /\ UNCHANGED <<inboxVars, receivedAt, graphVars, lineageVars, markers, tasks,
                   item, retry, view, found, used>>

(* unscored_processed_ids.  Its setup filter compares the stored             *)
(* "account_created" with "ACCOUNT_CREATED" and removes nothing.             *)
Unscored == {e \in Event : phase[e] = "done" /\ evaluation[e] = None /\ e \notin markers}

(* The second selection. *)
SelectUnscored(w) ==
    LET pending == Oldest(Unscored, quota[w]) IN
    /\ pc[w] = "select"
    /\ queue' = [queue EXCEPT ![w] = pending]
    /\ quota' = [quota EXCEPT ![w] = 0]
    /\ pc' = [pc EXCEPT ![w] = IF pending = {} THEN "idle" ELSE "next"]
    /\ UNCHANGED <<inboxVars, receivedAt, graphVars, lineageVars, markers, tasks,
                   item, retry, view, found, used>>

NextItem(w) ==
    /\ pc[w] = "next"
    /\ \E e \in queue[w] :
          /\ \A d \in queue[w] : receivedAt[e] <= receivedAt[d]
          /\ queue' = [queue EXCEPT ![w] = @ \ {e}]
          /\ Begin(w, e)
    /\ UNCHANGED <<inboxVars, receivedAt, graphVars, lineageVars, markers, tasks,
                   retry, view, found, quota, used>>

-----------------------------------------------------------------------------
(* The environment *)

(* An operator closes a case. *)
CloseCase(c) ==
    /\ Spend("close")
    /\ c \in cases \ closed
    /\ closed' = closed \cup {c}
    /\ UNCHANGED <<inboxVars, receivedAt, graphVars, decisions, evaluation, cases,
                   attached, markers, tasks, workerVars>>

(* A thread dies or an exception ends its call and the rest of its batch. *)
Die(w) ==
    /\ Spend("crash")
    /\ pc[w] # "idle"
    /\ Drop({w})
    /\ UNCHANGED <<receivedAt, graphVars, lineageVars, markers, tasks>>

(* The backend restarts: background tasks are lost with every thread. *)
Restart ==
    /\ Spend("crash")
    /\ Drop(Backend)
    /\ tasks' = [e \in Event |-> 0]
    /\ UNCHANGED <<receivedAt, graphVars, lineageVars, markers>>

-----------------------------------------------------------------------------

WorkerStep(w) ==
    \/ Claim(w) \/ ClaimRefused(w) \/ Reproject(w) \/ Project(w) \/ Finalize(w)
    \/ Gate(w) \/ ReadInputs(w) \/ ReadFeatures(w)
    \/ FindCase(w) \/ Persist(w) \/ PersistConflicts(w) \/ ScoringFails(w)
    \/ Mark(w) \/ Clear(w)
    \/ SelectUnscored(w) \/ NextItem(w)

Next ==
    \/ \E w \in Worker : WorkerStep(w) \/ Die(w)
    \/ \E w \in Worker, S \in SUBSET Event : StartCatchUp(w, S)
    \/ \E w \in Worker, e \in Event : StartTask(w, e) \/ StartProcess(w, e)
    \/ \E e \in Event : DeliverNew(e) \/ DeliverAgain(e)
    \/ \E c \in cases : CloseCase(c)
    \/ Restart

Spec == Init /\ [][Next]_vars

(* The event loop starts every scheduled task and a started call runs on. *)
Fairness ==
    /\ \A w \in Worker : WF_vars(WorkerStep(w))
    /\ \A e \in Event : WF_vars(\E w \in Worker : StartTask(w, e))

-----------------------------------------------------------------------------
(* Properties *)

Evaluation == [decision : Decision, case : Decision \cup {None}]

TypeOK ==
    /\ Inbox!TypeOK
    /\ receivedAt \in [Event -> Nat]
    /\ graph \subseteq Event
    /\ knownAt \in [Account -> Nat]
    /\ decisions \subseteq Decision
    /\ evaluation \in [Event -> Evaluation \cup {None}]
    /\ cases \subseteq Decision
    /\ closed \subseteq cases
    /\ attached \subseteq cases \X decisions
    /\ markers \subseteq Event
    /\ tasks \in [Event -> Nat]
    /\ pc \in [Worker -> PC]
    /\ item \in [Worker -> Event \cup {None}]
    /\ retry \in [Worker -> BOOLEAN]
    /\ view \in [Worker -> SUBSET Event]
    /\ found \in [Worker -> Decision \cup {None}]
    /\ queue \in [Worker -> SUBSET Event]
    /\ quota \in [Worker -> 0..Limit]
    /\ used \in [{"redelivery", "start", "crash", "fault", "expiry", "close"} -> Nat]

Scored(e) == evaluation[e] # None

(* No partial lineage, whichever scorer of an event wins and wherever the    *)
(* others fail: every stored decision is some event's evaluation, and every  *)
(* case and attachment belongs to a stored decision about its account.  An   *)
(* evaluation names its own decision, and has a case, to which the decision  *)
(* is attached, exactly if the decision is actionable.                       *)
LineageIsWhole ==
    /\ \A d \in decisions : Scored(d[1]) /\ evaluation[d[1]].decision = d
    /\ cases \subseteq decisions
    /\ \A pair \in attached : AccountOf[pair[1][1]] = AccountOf[pair[2][1]]
    /\ \A e \in Event : Scored(e) =>
        LET d == evaluation[e].decision
            c == evaluation[e].case
        IN /\ d[1] = e /\ d \in decisions
           /\ d \in Actionable <=> c # None
           /\ c # None => <<c, d>> \in attached

(* Scorers that find no case at the same time still open only one: an        *)
(* account has at most one OPEN case.                                        *)
OneOpenCase == \A a \in Account : Cardinality(OpenCases(a)) <= 1

(* Only a finished, contextual risk event is scored, and only on what was    *)
(* known at its cutoff: an out-of-order delivery never leaks into a decision *)
(* about an earlier one, and the account's creation is never assumed.        *)
ScoredOnWhatWasKnown ==
    \A e \in Event : Scored(e) =>
        /\ phase[e] = "done" /\ e \in InContext \ Setup
        /\ \A d \in evaluation[e].decision[2] :
               d \in graph /\ receivedAt[d] \in 1..receivedAt[e]
        /\ \E s \in Setup : AccountOf[s] = AccountOf[e] /\ s \in graph

(* Trusted lineage is append-only: an evaluation is never revised or lost,   *)
(* by retries, redeliveries, takeovers or crashes, and CLOSED is final.      *)
LineageIsFinal ==
    [][/\ \A e \in Event : Scored(e) => evaluation'[e] = evaluation[e]
       /\ decisions \subseteq decisions' /\ attached \subseteq attached'
       /\ closed \subseteq closed']_vars

(* The second selection of a catch-up batch finds non-setup events only, as  *)
(* the docstring of unscored_processed_ids says.                             *)
SelectionSkipsSetup ==
    [][\A w \in Worker : SelectUnscored(w) => queue'[w] \cap Setup = {}]_vars

(* A risk event is answered when it is evaluated or its failure is recorded. *)
Answered(e) == Scored(e) \/ e \in markers
===============================================================================
