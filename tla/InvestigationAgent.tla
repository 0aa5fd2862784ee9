--------------------------- MODULE InvestigationAgent ---------------------------
(***************************************************************************)
(* One run of the bounded investigation agent (run_execution).             *)
(*                                                                         *)
(* The model is called at most MaxIterations times.  It answers with a     *)
(* batch of tool calls or with a structured output.  The calls of a batch  *)
(* run in parallel threads (langgraph's executor): each takes one unit of  *)
(* the run's budget under a lock, reads its evidence, and records it in    *)
(* the evidence ledger, which has no lock.  A thread can be interrupted    *)
(* between any two statements of `record`, and within the one that numbers *)
(* an alias and stores it.  The ledger names each admitted item by a short *)
(* alias; the model cites aliases, and the application resolves them to    *)
(* items and checks the result before it becomes a report.  The evidence   *)
(* service only reads: a tool returns its sequence of items for the fixed  *)
(* request, or raises.                                                     *)
(***************************************************************************)
EXTENDS Naturals, Sequences, FiniteSets, SequencesExt

CONSTANTS
    Call,           \* threads that run the tool calls of one model message
    Tool,           \* the allowlist
    Item,           \* evidence IDs
    Returns,        \* [Tool -> Seq(Item)]: the evidence of each tool
    TimelineItem,   \* the items of type TIMELINE_EVENT
    MaxToolCalls,   \* max_tool_calls
    MaxIterations,  \* max_iterations
    None

ASSUME AgentAssumption ==
    /\ IsFiniteSet(Call) /\ IsFiniteSet(Item)
    /\ Returns \in [Tool -> Seq(Item)]
    /\ TimelineItem \subseteq Item
    /\ None \notin Tool \cup Item \cup {"provider", "service", "ledger"}
    /\ MaxToolCalls \in Nat \ {0}
    /\ MaxIterations \in Nat \ {0}

VARIABLES
    phase,          \* what run_execution waits for
    iterations,     \* model calls so far
    used,           \* InvestigationToolBudget.used_tool_calls
    items,          \* EvidenceLedger._items, in insertion order
    aliases,        \* EvidenceLedger._aliases: <<item, alias>> in insertion order
    trace,          \* EvidenceLedger._trace
    call,           \* the threads of the batch in flight
    report,         \* the report, or None
    error,          \* the exception that ended the run, or None
    artifacts,      \* what save_investigation_artifacts did
    shown,          \* history: the aliases the model received, with their items
    overlapped      \* history: two calls were ever in `record` at once

ledger == <<items, aliases, trace>>
outcome == <<report, error, artifacts>>
vars == <<phase, iterations, used, ledger, call, outcome, shown, overlapped>>

-----------------------------------------------------------------------------
\* The aliases of a ledger with as many items as there are: E001, E002, ...
\* (an alias is its number); 0 is a reference that is not of the E001 format.
Alias == 1 .. Cardinality(Item)
Ref == 0 .. Cardinality(Item) + 1

Analytical == {"COMPLETED", "INSUFFICIENT_EVIDENCE"}
Operational == {"BUDGET_EXHAUSTED", "FAILED"}

\* What a thread is doing in `record`, and with the unit it took of the budget.
Recording == {"look", "insert", "number", "alias", "payload", "index", "append"}
Granted == Recording \cup {"read"}
Raised == {"refused", "unread", "broken"}
PC == Granted \cup Raised \cup {"idle", "start", "returned", "cancelled"}

\* A thread: the tool it runs, the item it is at, the aliases it serialized and
\* the last number it computed, of an alias or of its call.
Idle == [pc |-> "idle", tool |-> None, at |-> 1, refs |-> <<>>, index |-> 0]

Init ==
    /\ phase = "model"
    /\ iterations = 0 /\ used = 0
    /\ items = <<>> /\ aliases = <<>> /\ trace = <<>>
    /\ call = [c \in Call |-> Idle]
    /\ report = None /\ error = None /\ artifacts = "none"
    /\ shown = {} /\ overlapped = FALSE

-----------------------------------------------------------------------------
(* The ledger. *)

\* alias_for: the alias of an admitted item; 0 stands for its KeyError.
AliasFor(i) ==
    IF \E k \in DOMAIN aliases : aliases[k][1] = i
    THEN aliases[CHOOSE k \in DOMAIN aliases : aliases[k][1] = i][2]
    ELSE 0

\* Assigning to _aliases keeps the place of a key that is already there.
WithAlias(i, n) ==
    IF AliasFor(i) # 0
    THEN [k \in DOMAIN aliases |-> IF aliases[k][1] = i THEN <<i, n>> ELSE aliases[k]]
    ELSE Append(aliases, <<i, n>>)

\* resolve_alias: the first item in the order of _aliases that has the alias.
Known(ref) == \E k \in DOMAIN aliases : aliases[k][2] = ref

Resolve(ref) ==
    aliases[CHOOSE k \in DOMAIN aliases :
              /\ aliases[k][2] = ref
              /\ \A j \in 1 .. k - 1 : aliases[j][2] # ref][1]

\* Assigning to _items keeps the place of an item that is already there.
Admit(seen, i) == IF i \in ToSet(seen) THEN seen ELSE Append(seen, i)

\* The item a thread is recording.
Current(c) == Returns[call[c].tool][call[c].at]

\* Two threads are inside `record`.
Overlap(threads) == Cardinality({c \in Call : threads[c].pc \in Recording}) > 1

-----------------------------------------------------------------------------
(* One tool call. *)

\* Thread c goes on to pc, with nothing else of it changed.
Goto(c, pc) == call' = [call EXCEPT ![c].pc = pc]

\* Mutant: the counter is read and written without its lock, and the last call
\* of the budget is given twice.
ConsumeUnlocked(c) ==
    /\ call[c].pc = "start"
    /\ used' = IF used < MaxToolCalls THEN used + 1 ELSE used
    /\ Goto(c, "read")
    /\ UNCHANGED <<phase, iterations, ledger, outcome, shown, overlapped>>

\* budget.consume, under its lock: a refused call reads no evidence.
Consume(c) ==
    /\ call[c].pc = "start"
    /\ IF used < MaxToolCalls
       THEN used' = used + 1 /\ Goto(c, "read")
       ELSE used' = used /\ Goto(c, "refused")
    /\ UNCHANGED <<phase, iterations, ledger, outcome, shown, overlapped>>

\* The evidence service answers, or raises: the unit of the budget is spent.
Read(c) ==
    /\ call[c].pc = "read"
    /\ \E pc \in {"look", "unread"} : Goto(c, pc)
    /\ overlapped' = (overlapped \/ Overlap(call'))
    /\ UNCHANGED <<phase, iterations, used, ledger, outcome, shown>>

\* existing = self._items.get(...): an admitted item is passed over.
Look(c) ==
    /\ call[c].pc = "look"
    /\ IF call[c].at > Len(Returns[call[c].tool]) THEN Goto(c, "payload")
       ELSE IF Current(c) \in ToSet(items) THEN call' = [call EXCEPT ![c].at = @ + 1]
       ELSE Goto(c, "insert")
    /\ UNCHANGED <<phase, iterations, used, ledger, outcome, shown, overlapped>>

\* self._items[...] = item: an equal item inserted meanwhile keeps its place.
Insert(c) ==
    /\ call[c].pc = "insert"
    /\ items' = Admit(items, Current(c))
    /\ Goto(c, "number")
    /\ UNCHANGED <<phase, iterations, used, aliases, trace, outcome, shown, overlapped>>

\* Mutant: the alias counts from zero.
NumberFromZero(c) ==
    /\ call[c].pc = "number"
    /\ call' = [call EXCEPT ![c].pc = "alias", ![c].index = Len(items) - 1]
    /\ UNCHANGED <<phase, iterations, used, ledger, outcome, shown, overlapped>>

\* Mutant: the alias is numbered by the call, not by the item.
NumberOfCall(c) ==
    /\ call[c].pc = "number"
    /\ call' = [call EXCEPT ![c].pc = "alias", ![c].index = Len(trace) + 1]
    /\ UNCHANGED <<phase, iterations, used, ledger, outcome, shown, overlapped>>

\* _evidence_alias(len(self._items)), evaluated before the assignment of its value.
Number(c) ==
    /\ call[c].pc = "number"
    /\ call' = [call EXCEPT ![c].pc = "alias", ![c].index = Len(items)]
    /\ UNCHANGED <<phase, iterations, used, ledger, outcome, shown, overlapped>>

\* self._aliases[...] = the alias
SetAlias(c) ==
    /\ call[c].pc = "alias"
    /\ aliases' = WithAlias(Current(c), call[c].index)
    /\ call' = [call EXCEPT ![c].pc = "look", ![c].at = @ + 1]
    /\ UNCHANGED <<phase, iterations, used, items, trace, outcome, shown, overlapped>>

\* The payload asks for the alias of every item; an item another thread has
\* inserted and not yet aliased raises.
Payload(c) ==
    /\ call[c].pc = "payload"
    /\ LET refs == [k \in DOMAIN Returns[call[c].tool] |-> AliasFor(Returns[call[c].tool][k])]
       IN  IF 0 \in ToSet(refs) THEN Goto(c, "broken")
           ELSE call' = [call EXCEPT ![c].pc = "index", ![c].refs = refs]
    /\ UNCHANGED <<phase, iterations, used, ledger, outcome, shown, overlapped>>

\* call_index = len(self._trace) + 1
Index(c) ==
    /\ call[c].pc = "index"
    /\ call' = [call EXCEPT ![c].pc = "append", ![c].index = Len(trace) + 1]
    /\ UNCHANGED <<phase, iterations, used, ledger, outcome, shown, overlapped>>

\* self._trace.append, and the payload is returned to the model.
AppendTrace(c) ==
    /\ call[c].pc = "append"
    /\ LET t == call[c].tool
       IN  /\ trace' = Append(trace, [index |-> call[c].index, tool |-> t, refs |-> call[c].refs])
           /\ shown' = shown \cup {<<call[c].refs[k], Returns[t][k]>> : k \in DOMAIN Returns[t]}
    /\ Goto(c, "returned")
    /\ UNCHANGED <<phase, iterations, used, items, aliases, outcome, overlapped>>

\* Once a call has raised, the executor cancels the calls it has not started.
Cancel(c) ==
    /\ call[c].pc = "start"
    /\ \E d \in Call : call[d].pc \in Raised
    /\ Goto(c, "cancelled")
    /\ UNCHANGED <<phase, iterations, used, ledger, outcome, shown, overlapped>>

CallStep(c) ==
    \/ Consume(c) \/ Read(c) \/ Look(c) \/ Insert(c) \/ Number(c) \/ SetAlias(c)
    \/ Payload(c) \/ Index(c) \/ AppendTrace(c) \/ Cancel(c)

-----------------------------------------------------------------------------
(* The run. *)

NoClaims(status) == [status |-> status, claims |-> {}, timeline |-> {}]

\* Every way run_execution returns a report or lets an exception through.
End(r, e) ==
    /\ phase' = "ended"
    /\ report' = r /\ error' = e
    /\ call' = [c \in Call |-> Idle]
    /\ UNCHANGED <<used, ledger, artifacts, shown, overlapped>>

\* Mutant: the limit is reached one model call early.
ModelLimitEarly ==
    /\ phase = "model" /\ iterations + 1 >= MaxIterations
    /\ iterations' = iterations
    /\ End(NoClaims("BUDGET_EXHAUSTED"), None)

\* ModelCallLimitMiddleware, before each model call.
ModelLimit ==
    /\ phase = "model" /\ iterations >= MaxIterations
    /\ iterations' = iterations
    /\ End(NoClaims("BUDGET_EXHAUSTED"), None)

MayCallModel == phase = "model" /\ iterations < MaxIterations

\* The provider's error propagates: no report.
ProviderFails ==
    /\ MayCallModel
    /\ iterations' = iterations
    /\ End(None, "provider")

\* The model asks for a batch of tools.
CallTools(batch) ==
    /\ MayCallModel
    /\ iterations' = iterations + 1
    /\ phase' = "tools"
    /\ call' = [c \in Call |->
                  IF batch[c] = None THEN Idle ELSE [Idle EXCEPT !.pc = "start", !.tool = batch[c]]]
    /\ UNCHANGED <<used, ledger, outcome, shown, overlapped>>

\* The batch is over when no thread of it is running.
Quiet == \A c \in Call : call[c].pc \in Raised \cup {"idle", "returned", "cancelled"}

ToolsReturn ==
    /\ phase = "tools" /\ Quiet
    /\ \A c \in Call : call[c].pc \notin Raised
    /\ phase' = "model"
    /\ call' = [c \in Call |-> Idle]
    /\ UNCHANGED <<iterations, used, ledger, outcome, shown, overlapped>>

\* The error a thread that raised ends the run with.
ErrorOf(pc) == IF pc = "unread" THEN "service" ELSE "ledger"

\* Mutant: an exhausted budget is reported and raised as well.
ToolsRaiseTwice(c) ==
    /\ phase = "tools" /\ Quiet
    /\ call[c].pc \in Raised
    /\ iterations' = iterations
    /\ IF call[c].pc = "refused" THEN End(NoClaims("BUDGET_EXHAUSTED"), "ledger")
       ELSE End(None, ErrorOf(call[c].pc))

\* The exception of one of the calls ends the run: an exhausted budget as a
\* report, any other through the caller.
ToolsRaise(c) ==
    /\ phase = "tools" /\ Quiet
    /\ call[c].pc \in Raised
    /\ iterations' = iterations
    /\ IF call[c].pc = "refused" THEN End(NoClaims("BUDGET_EXHAUSTED"), None)
       ELSE End(None, ErrorOf(call[c].pc))

\* Mutant: any admitted item may be cited in the timeline.
GroundedAnyTimeline(output) ==
    \A r \in output.refs \cup output.timeline : r # 0 /\ Known(r)

\* _report_from_output and validate_report_grounding: every reference resolves,
\* and the timeline cites timeline events.
Grounded(output) ==
    /\ \A r \in output.refs \cup output.timeline : r # 0 /\ Known(r)
    /\ \A r \in output.timeline : Resolve(r) \in TimelineItem

ReportOf(output) ==
    [status |-> output.status,
     claims |-> {<<r, Resolve(r)>> : r \in output.refs \cup output.timeline},
     timeline |-> {Resolve(r) : r \in output.timeline}]

\* The model answers with a structured output: its references become claims, or
\* the report fails closed.
Answer(output) ==
    /\ MayCallModel
    /\ iterations' = iterations + 1
    /\ End(IF Grounded(output) THEN ReportOf(output) ELSE NoClaims("FAILED"), None)

\* The provider or the schema rejects the structured output.
AnswerIsInvalid ==
    /\ MayCallModel
    /\ iterations' = iterations + 1
    /\ End(NoClaims("FAILED"), None)

-----------------------------------------------------------------------------
(* save_investigation_artifacts *)

\* The IDs a traced call returned.
ReturnedBy(t) == Returns[t.tool]

\* What a ledger that holds `seen` holds after recording n of the items s.
Admitting(seen, s) ==
    LET after[n \in 0 .. Len(s)] == IF n = 0 THEN seen ELSE Admit(after[n - 1], s[n])
    IN  after

\* What an empty ledger holds after recording n of the calls again.
Replaying(calls) ==
    LET after[n \in 0 .. Len(calls)] ==
          IF n = 0 THEN <<>>
          ELSE LET s == ReturnedBy(calls[n])
               IN  Admitting(after[n - 1], s)[Len(s)]
    IN  after

\* The order in which recording the traced calls again admits their items.
Replayed == Replaying(trace)[Len(trace)]

\* Mutant: the reconstructed ledger is not compared with the persisted items.
VerifiedTraceOnly ==
    \A k \in DOMAIN trace :
         /\ trace[k].index = k
         /\ ToSet(ReturnedBy(trace[k])) \subseteq ToSet(items)

\* EvidenceLedger.from_snapshot: the trace is numbered, its calls' metrics
\* (items and distinct aliases shown) and the ledger's items are reproduced.
Verified ==
    /\ \A k \in DOMAIN trace :
         /\ trace[k].index = k
         /\ ToSet(ReturnedBy(trace[k])) \subseteq ToSet(items)
         /\ Cardinality(ToSet(trace[k].refs)) = Cardinality(ToSet(ReturnedBy(trace[k])))
    /\ Replayed = items

Save ==
    /\ phase = "ended" /\ report # None /\ artifacts = "none"
    /\ artifacts' = IF Verified THEN "saved" ELSE "rejected"
    /\ UNCHANGED <<phase, iterations, used, ledger, call, report, error, shown, overlapped>>

\* load_investigation_artifacts: what was saved is verified once more, from the
\* persisted items and trace.
Load ==
    /\ artifacts = "saved"
    /\ artifacts' = IF Verified /\ report.timeline \subseteq TimelineItem \cap ToSet(items)
                    THEN "loaded" ELSE "refused"
    /\ UNCHANGED <<phase, iterations, used, ledger, call, report, error, shown, overlapped>>

\* A run that raised leaves nothing to save.
Finished ==
    /\ phase = "ended"
    /\ report = None \/ artifacts \in {"loaded", "refused", "rejected"}
    /\ UNCHANGED vars

-----------------------------------------------------------------------------
Batches == [Call -> Tool \cup {None}] \ {[c \in Call |-> None]}

\* References in a structured output: up to two findings and one timeline event.
Outputs ==
    [status : Analytical,
     refs : {s \in SUBSET Ref : Cardinality(s) <= 2},
     timeline : {s \in SUBSET Ref : Cardinality(s) <= 1}]

ModelStep ==
    \/ ModelLimit
    \/ ProviderFails
    \/ AnswerIsInvalid
    \/ \E b \in Batches : CallTools(b)
    \/ \E o \in Outputs : Answer(o)

ToolStep ==
    \/ \E c \in Call : CallStep(c)
    \/ ToolsReturn
    \/ \E c \in Call : ToolsRaise(c)

Persist == Save \/ Load

Next == ModelStep \/ ToolStep \/ Persist \/ Finished

\* The run is one blocking call: it goes on while it can, whatever the model
\* answers, and so does each of its threads.
Spec == Init /\ [][Next]_vars /\ WF_vars(ModelStep) /\ WF_vars(ToolStep) /\ WF_vars(Persist)

-----------------------------------------------------------------------------
(* Properties *)

TypeOK ==
    /\ phase \in {"model", "tools", "ended"}
    /\ iterations \in 0 .. MaxIterations
    /\ used \in 0 .. MaxToolCalls
    /\ items \in Seq(Item)
    /\ aliases \in Seq(Item \X Alias)
    /\ trace \in Seq([index : Nat, tool : Tool, refs : Seq(Alias)])
    /\ call \in [Call -> [pc : PC, tool : Tool \cup {None}, at : Nat \ {0},
                          refs : Seq(Alias), index : Nat]]
    /\ report = None \/ report \in [status : Analytical \cup Operational,
                                    claims : SUBSET (Alias \X Item), timeline : SUBSET Item]
    /\ error \in {None, "provider", "service", "ledger"}
    /\ artifacts \in {"none", "saved", "rejected", "loaded", "refused"}
    /\ shown \subseteq Alias \X Item
    /\ overlapped \in BOOLEAN

\* Parallel calls never read more evidence than the budget allows: the calls
\* that were recorded and those that are reading or recording fit in it together
\* (tools.py, consume before any retrieval).  And a run is reported as exhausted
\* only when one of its two budgets is really used up, whatever the order in
\* which its parallel calls raise.
BudgetIsKept ==
    /\ Len(trace) + Cardinality({c \in Call : call[c].pc \in Granted}) <= MaxToolCalls
    /\ (report # None /\ report.status = "BUDGET_EXHAUSTED") =>
         used = MaxToolCalls \/ iterations = MaxIterations

\* However the calls interleave, every claim of a report is an item that a
\* recorded call returned to the model, and its timeline holds timeline events;
\* a report that failed or ran out of budget claims nothing.
ClaimsAreAdmitted ==
    report # None =>
        /\ \A claim \in report.claims :
             \E k \in DOMAIN trace : claim[2] \in ToSet(ReturnedBy(trace[k]))
        /\ report.timeline \subseteq {claim[2] : claim \in report.claims} \cap TimelineItem
        /\ report.status \in Operational => report.claims = {} /\ report.timeline = {}

\* In a run whose calls were recorded one after another, what the model was
\* shown under a reference is what a claim with that reference means, the
\* ledger never raises, and the artifacts of the run are accepted.
SequentialIsFaithful ==
    ~overlapped =>
        /\ aliases = [k \in DOMAIN aliases |-> <<items[k], k>>]
        /\ \A x, y \in shown : x[1] = y[1] <=> x[2] = y[2]
        /\ report # None => report.claims \subseteq shown
        /\ artifacts # "rejected"
        /\ error # "ledger"

\* An accepted snapshot loads again and reproduces the ledger: its items are
\* those of its recorded calls, in the order in which they were first returned.
SavedIsReproducible ==
    artifacts \notin {"none", "rejected"} =>
        /\ artifacts # "refused"
        /\ ToSet(items) = UNION {ToSet(ReturnedBy(trace[k])) : k \in DOMAIN trace}
        /\ \A i, j \in DOMAIN items :
             i < j => \E k \in DOMAIN trace :
                        /\ items[i] \in ToSet(ReturnedBy(trace[k]))
                        /\ \A m \in 1 .. k - 1 : items[j] \notin ToSet(ReturnedBy(trace[m]))

\* Every run ends, with a report whose artifacts load or are refused before
\* anything is written, or with the error that its caller records, however many
\* calls the model asks for.
RunEnds ==
    <>[](/\ phase = "ended"
         /\ report # None <=> error = None
         /\ report # None => artifacts \in {"loaded", "rejected"})

\* What ledger.py says of its aliases, that one is "a stable, readable reference
\* based only on ledger admission order": a reference names one piece of evidence.
ReferenceNamesOneItem == \A x, y \in shown : x[1] = y[1] => x[2] = y[2]
=============================================================================
