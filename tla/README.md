# Mayajaal in TLA+

TLA+ models of Mayajaal's backend (`src/backend`), TLC configurations that check
them on small instances, and TLAPS proofs that hold for every size. The models
are translated from the Python code. `PROJECT.json` maps every definition to the
lines it models.

Contents: [the system](#the-system) · [components](#components) ·
[modules](#modules) · [runs](#runs) · [bounds](#bounds) · [fairness](#fairness) ·
[proofs](#proofs) · [disagreements found](#disagreements-found) ·
[what is left out](#what-is-left-out) · [plan](#plan)

## The system

Mayajaal receives payment-provider webhooks and decides, per account, whether a
customer looks fraudulent.

```
 provider ──POST──▶ webhook_events (PostgreSQL inbox)          Stage 12A
                        │  background task, CLI, catch-up
                        ▼
              claim ▸ normalize ▸ Neo4j MERGE ▸ PROCESSED      Stage 12B
                        │
                        ▼
        read the graph at a cutoff ▸ features ▸ score ▸        Stage 12C/12D
        probability ▸ decision ▸ one transaction with the case
                        │  an analyst asks
                        ▼
        investigation_jobs ▸ agent with tools ▸ report         Stage 12E
```

PostgreSQL and Neo4j are two systems without a common transaction. Work runs in
background tasks of the API process, in commands an operator starts, and in
several of either at once. Tasks live in memory and die with the process; a
clock-based lease decides when somebody else may take over. These are the
reasons to model it: the hard behaviour lies between transactions.

Offline, the same package generates a synthetic world, resolves identities,
loads the graph in batches, extracts features, and trains, evaluates and
calibrates a model. That part is sequential and mostly numerical.

## Components

| Component | State | Operations | Interacts with | Hard behaviour | What makes it correct |
|---|---|---|---|---|---|
| Webhook ingestion (`api/webhooks.py`, `api/app.py`) | `webhook_events` rows; asyncio tasks | accept, accept again, refuse other bytes, schedule | inbox; pipeline through tasks | duplicates, concurrent deliveries, tasks lost at restart | an accepted row keeps its bytes; it is not forgotten |
| Inbox processing (`api/event_processing.py`, `db/repositories.py`) | status, `claimed_at`; `normalized_events` | claim, claim_next, normalize, project, mark processed or failed, reproject | Neo4j | leases, stale workers, crash between transactions, lost acknowledgements | one owner; only the owner closes; PROCESSED implies projected |
| Realtime pipeline (`api/realtime_pipeline.py`) | `risk_processing_failures` | process, process_next | inbox, scoring | partial failure, repeated catch-up | every accepted risk event is answered |
| Risk scoring and cases (`api/risk_scoring.py`) | vectors, scores, estimates, decisions, `risk_cases`, links, evaluations | process, link case, close case | graph view, immutable repositories | concurrent scorers, a graph that moves between attempts | whole, final lineage; one open case |
| Investigation jobs (`api/investigations.py`) | `investigation_jobs`, runs, reports | trigger, claim, execute, complete, fail, retry | agent, evidence, graph | the same lease protocol around minutes of model calls | completed exactly with its report |
| Identity graph (`graph/`) | Neo4j nodes and relationships | incremental merge, batch load, clear, cutoff view | inbox, scoring, investigations | out-of-order facts, late facts, torn reads, half-done loads | the view of a cutoff does not depend on the future |
| Graph features (`features/`) | none | extract | scoring, baseline | component search, nodes missing from a view | counts agree with the graph |
| Policy (`policy/`) | none; files | decide, odds scenarios | scoring, triggers | ties, probabilities 0 and 1 | cheapest action; stability means what it says |
| Investigation agent (`investigation/agent.py`, `tools.py`) | one run's budget and deps | run, tool calls | evidence service, model provider | parallel tools, exhausted budget, retries | budget never exceeded; a status for every end |
| Ledger and grounding (`ledger.py`, `grounding.py`) | items, aliases, trace | record, resolve, ground | agent | duplicates, unknown aliases | only recorded evidence is cited |
| Evidence service (`investigation/service.py`) | none | five read-only queries | ledger | truncation at limits | bounded and deterministic |
| Identity resolution (`resolution/`) | none | resolve | batch loader | transitivity of fuzzy matches | an equivalence relation |
| Evaluation, calibration, baseline | files | split, fit, score, freeze | policy, runtime | leakage between splits; a command that dies between two files | chronological, disjoint splits; files that load belong together |
| Model comparison (`comparison.py`, its script) | records of a plan | attempt each run once, score, summarize | agent | a run that fails in any phase | every run counts once |
| Synthetic world (`synthetic/`) | accounts, facts, labels of one generation | create customers, contexts and rings | loader, splits | campaigns over ordinary histories | causal histories; campaigns do not show before their actions |
| Scripts, migrations | files | run the parts above | all parts | a command that dies | see each part |

`PROJECT.json` lists every part with its status, and under `hazards` each place
where the code can go wrong in a way a test would hardly reach.

## Modules

| Module | Models | Composed with |
|---|---|---|
| `LeasedWork` | what a table of leased work promises: open, held and done items; takeover; completion by the holder only | instanced by the next three |
| `WebhookInbox` | ingestion and Stage 12B, transaction by transaction | refines `LeasedWork` |
| `WebhookInboxProofs` | invariants of the inbox, and that it implements `LeasedWork`, proved | extends `WebhookInbox` |
| `RiskPipeline` | Stages 12C and 12D: scoring, cases, markers, catch-up | runs on `Inbox == INSTANCE LeasedWork` |
| `RiskPipelineProofs` | what its transactions leave behind, proved | extends `RiskPipeline` |
| `InvestigationJobs` | Stage 12E | refines `LeasedWork` |
| `InvestigationJobsProofs` | invariants of the job table, and that it implements `LeasedWork`, proved | extends `InvestigationJobs` |
| `FeatureExtraction` | the feature layer as pure functions of a view | extended by the next two |
| `FeatureExtractionProofs` | the features and the evidence of every finite view, proved | extends `EvidenceService`, `BoundedInduction` |
| `TemporalGraph` | the Neo4j projection, loader, reset and cutoff view | extends `FeatureExtraction` |
| `TemporalGraphProofs` | what the graph holds, and what a view counts, proved | extends `TemporalGraph`, `FeatureExtractionProofs` |
| `EvidenceService` | the five bounded reads an investigator may make | extends `FeatureExtraction` |
| `InvestigationAgent` | one run of the agent: tools, budget, ledger, grounding, artifacts | what `InvestigationJobs` executes |
| `InvestigationAgentProofs` | budget, claims, ledger and trace of a run, proved | extends `InvestigationAgent`, `BoundedInduction` |
| `BoundedInduction` | induction and recursion over 0 .. N, for sets and functions | extended by proofs |
| `GraphView` | a view of the graph that grows, and what is read from it at fixed cutoffs | extends `EvidenceService` |
| `PolicyDecision` | costs, odds scenarios, tie-breaks, stability, triggers | extended by `OfflinePrograms` |
| `AddressResolution` | exact and fuzzy identity resolution | extended by `OfflinePrograms` |
| `SplitManifest` | evaluation samples, campaign purge, operating threshold | extended by `OfflinePrograms` |
| `ModelLineage` | the files from evaluation to runtime and the commands over them | instanced by `OfflinePrograms` |
| `ModelComparison` | the harness that compares investigation models | instanced by `OfflinePrograms` |
| `SyntheticWorld` | the generator: customers, contexts, rings, campaign actions, labels | instanced by `OfflinePrograms` |
| `OfflinePrograms` | the offline programs side by side, each in a lane of its own | extends `GraphView`, `PolicyDecision`, `AddressResolution` and `SplitManifest`, instances the other three |
| `OfflineProofs` | the offline programs, proved | extends `OfflinePrograms`, `FeatureExtractionProofs` |
| `MC*` | instances for TLC: values of the constants and bounds | |

### WebhookInbox

A row is `status`, `body`, `receivedAt`, `claimedAt`; `normalized` is the table
of canonical events, `graph` the projections Neo4j holds, `tasks` the scheduled
background tasks. A worker's `pc` stands between two transactions, its `token`
is the reading of the clock it claims with. Each `session.begin()` block of
`process`, `process_next` and `_process_claimed`, and each `load_incremental`,
is one action, so a crash (`Die`, `Restart`) falls between any two of them. Time
passes by itself (`Tick`), and any number of workers may read the same instant,
so two claims of a row may carry one `claimed_at`: a worker waits between its
reading and its claim for as long as the lease, while another claims the row
with an equal reading and loses it to a third, whose attempt fails; the first
then claims the row with the reading the second still carries. `reused` is
history: the rows this happened to. Until it happens to a row its `claimed_at`
identifies one processor, and it cannot happen before the lease has run out;
`OneOwner`, `OwnerHoldsClaim` and the refinement say exactly that. A normalizer
that rejects a body does so at every attempt, except that `occurred_at` after
the receipt (`schemas/events.py`) depends on the receipt time. The claim by id
is an UPDATE whose predicate is evaluated atomically, the claim of a batch a
SELECT … FOR UPDATE SKIP LOCKED; both are single steps.

### RiskPipeline

The inbox is the abstract table, as the refinement theorem allows. A scoring is
three steps: `ReadInputs`, `ReadFeatures` (the facts of the graph that the
cutoff admits), `Persist` (vector, score, probability, decision, case link and
evaluation in one transaction). The score and the decision are a function of the
facts read, `Relevant` to the account, so two attempts that read different
graphs make different decisions, which is what the immutable repositories must
catch. `Actionable` decisions open or join a case. A failing attempt records a
marker in a transaction of its own. `StartCatchUp` … `NextItem` is
`process_next`: a selection of claimable rows, then of unscored ones.
`SelectUnscored` compares with the literal of the code and so selects setup
events too.

### InvestigationJobs

A trigger inserts a job or finds the one with its case, decision and key. An
executor reads the clock, claims, executes outside a transaction, and completes
run, report and job in one transaction fenced by its claim. Readings of the
clock are distinct here: what equal ones do to a claim is shown by the inbox,
whose claim and fence are the same statements. `ReportTaken` is the uniqueness
of `report_id`, which depends on the decision and the report and not on the run.

### TemporalGraph and FeatureExtraction

An event's projection is its set of nodes and edges; `MergeEdges` writes an
edge only if both endpoints are stored, as `MATCH` does, and `MergeNodes`
overlays properties as `SET +=` does. Projections of one account are serial in
Neo4j, since each locks the account's node first; a projection is therefore one
step. `ReadNodes` and `ReadEdges` are the two queries of
`feature_projection_at`; between them anything may commit. The loader commits
batch after batch, in the sorted order of the code, and may die at each.
`Extract` is `FeatureService.extract`, including the lookups that raise. The
indexes the code builds from a view's edges (`Users`, `PeersOn`, …) are
operators of those edges alone. `ConnectedAccounts` is the breadth-first search,
ring by ring. Facts arrive in any order, dependents before their orders too, and
an account may be created by several events. Three variables are history:
`cleared`, whether an operator has reset the graph, which forgets the runtime's
facts too; `early`, the dependents whose last projection found no order; and
`loaded`, whether a load has begun, or has run to its end, since the reset.

### InvestigationAgent

`run_execution` and what the langgraph executor does for it. `Answer` is a model
call, whose content is any batch of tool calls or any draft of at most the
references in `Ref`, including malformed ones and those never given. A batch
runs its tools in threads; `Consume` is the locked part of the budget, `Read`
the evidence service, which answers or raises, and `Look`, `Insert`, `Number`,
`SetAlias`, `Payload`, `Index`, `AppendTrace` are the statements of
`EvidenceLedger.record`, which has no lock; the line that numbers and stores an
alias is two of them, since the length is read before it is stored. The first
exception of a batch in the order of its calls ends the run, after the others
finish, as the executor's context does. `shown` and `overlapped` are history:
the aliases the model received, and whether two calls were ever in `record` at
once.

### EvidenceService, PolicyDecision, AddressResolution, SplitManifest

Pure functions, compared with independent definitions. `EvidenceService`
recomputes sharing over the view and the events; its peers are compared with
those of `FeatureExtraction`, which other code computes. Where a read raises
(the neighbourhood of a subject that is not in the graph, a score that is not
reproduced) it is `None`. `PolicyDecision` keeps
probabilities as pairs of weights, so that odds multipliers and costs are exact
integers; the rounding of floats is left out. In `AddressResolution` an entity
is its position in a sequence of normalized forms; RapidFuzz's similarities are
a constant matrix. `SplitManifest` is `build_split_manifest` with the three
cutoffs, and `select_threshold`.

### ModelLineage and ModelComparison

A command overwrites its files one after another and may die at each, leaving
that file torn or untouched. A hash is what it hashes. Commands run one at a
time, as an operator runs them, each under any version of the code and the
configuration; every evaluation saves its models under a new GUID, so that bytes
of two evaluations differ. `RuntimeLoads` is what
`create_realtime_application_runtime` reads and refuses. The comparison attempts
each planned run once; its setup, its execution and the saving of its artifacts
can each fail. A setup that fails before the run's directory is made leaves
`main` nowhere to write the record and ends the comparison (`SetUpAborts`).

### SyntheticWorld

`WorldGenerator.generate` account by account. A time is a number of minutes; an
instant that is drawn is the first or the last that the code can draw, since its
clamps and offsets are monotone in it, and what depends on a probability is a
choice. Amounts, personas, names and devices' traits are left out: no check
reads them. `NewRefs`, `RefsOf` and `CampaignRefs` say which identity an account
uses when, which is what a ring may give away.

## Runs

Every property has a mutant: a definition that deviates from the code as a
plausible bug would, under which TLC finds the property violated. A property
that is the conjunction of several named ones has a mutant for each.

| Run | Question | Answer |
|---|---|---|
| `inbox_fencing` | Can a stale processor disturb a later claim, for one row and three workers with redelivery, crash and clocks that repeat their readings? | Not while the claims carry different readings, and equal ones need a wait of a lease. Rows are durable and the inbox refines `LeasedWork`. |
| `inbox_batches` | Does every accepted row settle while nobody dies, with batches and direct attempts at once? | Yes. |
| `pipeline` | What do two scorers of one account leave behind when a lease is lost, a store fails and a case is closed, and does a repeated catch-up answer every accepted event although threads die? | One whole, final lineage, one open case, an answer for every finished event; and yes, if its limit exceeds the rows that are selected for ever. |
| `catch_up_selects_setup` | Does the second selection skip setup events? | No (violation). |
| `jobs` | Are completion, run and report one, whatever the executors do? | Yes; a key has one job, and jobs settle while nobody dies. |
| `second_report_conflicts` | Can two investigations of one decision end alike? | No (violation). |
| `graph` | Does a decision depend on facts that arrived later, which facts does the graph lose, and is a finished load whole after earlier ones died? | Not in what it counts of identities and commerce, nor in age and velocity unless an account is created twice; only promotions and refunds that found no order; and it is. |
| `graph_out_of_order` | Does a projected fact reach the graph in every order? | No (violation). |
| `agent` | Do parallel tools exceed the budget, does a report cite what was never admitted, does every run end, does what is saved load? | No, no, it does, and it does where no two calls met in the ledger. |
| `agent_aliases` | Does an alias name one item for the whole run? | Not with parallel calls (violation). |
| `offline` | Are the offline programs right: features and evidence, decisions, resolution, splits, lineage of files, comparison, the generated world? | Yes, each against its definition. |
| `world_early` | Is a campaign's account always created before its action? | Not where the action is drawn on the first day (violation). |

`offline` has a lane for each program: a behaviour chooses one at the start and
leaves the variables of the others alone, so its states are the sum of theirs.
`graph` and `pipeline` are made of scenes likewise (`MCTemporalGraph`,
`MCRiskPipeline`).

## Bounds

Each environment step (deliveries, explicit starts, faults, crashes, lost
leases, clock jumps) is spent from the record `Bound`, shown in the `MC` module.
They are as small as the interesting case allows:

* `inbox_fencing`: one row, three workers, two deliveries, two explicit starts,
  one crash, three ticks of the clock. Three workers are an owner, a stale worker
  and the one that takes over from both; with a lease of one, two ticks pass it
  and the third lets a worker wait on. Claims of different rows do not interact, so one
  row is enough for fencing; `inbox_batches` has two, since `SKIP LOCKED` chooses
  among them.
* `pipeline`: in the race two threads, a setup event and two risk events of one
  account. Two risk events suffice for two decisions, two cases and a decision
  that changes with the graph; all but one of the decisions are actionable.
  Accounts share nothing but the graph, whose influence on a decision is any
  subset of `Relevant`. In the recovery a thread and an operator, one risk event,
  a row that never normalizes and is the oldest (delivered first, so that every
  batch selects it before the others), a crash, and a limit of three, which is
  more than the two rows (setup, poison) that stay selectable. With a smaller
  limit they would starve the third.
* `jobs`: two runs, two keys, two executors, two triggers, a retry, a fault, a
  crash, a clock jump. A second executor is the one that takes over.
* `graph`: in the runtime's scene two accounts, six facts, two instants, one
  replay: two instants separate *before* and *after* the cutoff for occurrence
  and knowledge. A second creation of one account has a scene of four facts. In the loader's, five facts of the world, three of the runtime, any
  number of loads, failures and resets; and the same world beside two runtime
  facts that share its address, with a reader and no reset.
* `agent`: two threads, a tool that returns two items and one that returns a
  third, three tool calls, three model calls. Two calls of one tool meet on the
  same items, two of different ones on the length of the ledger. Two threads
  meet between any two statements, and the third call is the one after a budget
  of two, or the one that finds it exhausted.
* `offline`: three accounts in a chain (the shortest in which the search needs a
  second ring), ten groups of facts, all 1024 views in every order; every
  decision over 35 odds, five exposures and six tie-break orders with the
  default costs; sequences of four out of seven addresses with room for two
  candidates, so that the bound cuts one off; worlds of four labelled events of
  three accounts and two campaigns around three cutoffs; four validation
  records; two evaluations and any number of calibrations, decisions and starts
  in three versions; two cases and two models; generated worlds of 90 days with
  at most three accounts and ordinary orders together, campaign actions at 0%,
  1% or 100% of the window (`Fraction`: its first day, its second, on which an
  account has a day at most to precede its action, and its last) and one kind of
  lifecycle change, which is a ring of two, or a member with an order on either
  side of its action; ring sizes of any valid subset of 1..6 and targets of up
  to twelve accounts.

The reset is run by an operator with no loader running.

## Fairness

`WF` of a worker's own steps: a started thread runs on, since database, graph
and model calls are bounded by timeouts. `WF` of starting each scheduled task:
the event loop starts what `create_task` scheduled. Nothing is assumed of
deliveries, explicit commands, crashes or clocks. For accepted events whose task
has died, `EventsAreAnswered` also assumes an operator who keeps running the
catch-up (`Recovery`): without one, a task lost at a restart is lost, which is
how the README of the backend describes it. `Settles` is checked where nobody
dies, and `JobsSettle` says so itself.
`RunEnds` assumes weak fairness of the agent's own steps: `run_execution` is a
blocking call, its threads run on, and the model client answers or raises within
its timeout.

## Proofs

TLAPS checks these theorems, for every value of the constants.

| Module | Theorem | Says |
|---|---|---|
| `WebhookInboxProofs` | `TypeCorrect`, `OneOwnerHolds`, `FenceHolds`, `LeaseHolds`, `ProcessedHolds`, `CanonicalHolds`, `DurabilityHolds` | the invariants and the action properties of `inbox_*` |
| | `InboxRefinesLeasedWork` | the inbox implements `LeasedWork`, until a claim token is used twice |
| `InvestigationJobsProofs` | `TypeCorrect`, `WholeHolds` | a job and its run are one |
| | `JobsRefineLeasedWork` | the job table implements `LeasedWork` |
| `RiskPipelineProofs` | `TypeCorrect`, `WholeHolds`, `KnowledgeHolds`, `OneOpenCaseHolds`, `FinalityHolds` | the invariants and the action property of `pipeline` |
| `TemporalGraphProofs` | `TypeCorrect`, `LoadedHolds`, `RemembranceHolds` | the graph keeps what is written, and a finished load is whole |
| | `FactsHold` | the facts the graph is without are the dependents whose last projection found no order, until a reset |
| | `FutureIgnored` | what a decision counts is fixed by the facts due at its cutoff |
| `FeatureExtractionProofs` | `ComponentsHold`, `FeaturesHold` | both halves of `FeaturesAreConsistent`, for every finite view |
| | `NeighborhoodHolds`, `TimelineHolds`, `PeersHold` | the three parts of `EvidenceIsHonest`, for every finite view, cutoff and limits |
| `InvestigationAgentProofs` | `TypeCorrect`, `BudgetHolds`, `ClaimsHold`, `SavedReproduces`, `SequentialHolds` | the invariants of `agent` |
| `OfflineProofs` | `FeaturesStay`, `EvidenceHolds`, `FutureIsIgnored`, `DecisionsHold`, `AddressesHold`, `EvaluationHolds`, `LineageIsWhole`, `ComparisonHolds`, `WorldHolds` | every property of `offline`, of `OfflineSpec` |
| | `FrozenHolds`, `RuntimeHolds`, `CleanRunHolds` | the three parts of `LineageHolds`, for any versions and number of evaluations |
| | `StableHolds`, `LeniencyHolds`, `UninvestigatedHolds` | the three parts of `DecisionsAreConsistent`, for any whole costs, odds and tie-break order |
| | `CampaignsHold`, `NegativesHold` | the two parts of `EvaluationIsHeldOut` about worlds, for any world |
| | `ThresholdHolds` | its third part, about the threshold, for any predictions |
| | `CountsHold` | the two parts of `ComparisonIsComplete`, for any plan, reports and failures |
| | `MergesHold`, `RepresentativesHold`, `ExactAgreementHolds` | the three parts of `AddressesAreResolved`, for any sequence of addresses |
| | `WorldInvariantHolds` | the inductive invariant of the generator |

Each module's `InvariantHolds` is the inductive invariant that its other
theorems follow from; `OfflineProofs` has one for each program with a state of
its own. `BoundedInduction` has lemmas only. Every safety property that a
passing run checks is stated by a theorem here.

### Assumptions

`InboxAssumption`, `JobsAssumption`, `PipelineAssumption`, `AgentAssumption`,
`GraphAssumption`, `EventAssumption` and `FeatureAssumption` give the constants
the shapes the code gives them: the lease is a positive number, `None` is none
of the values it stands beside, an event's id is its own, the offline world
redeems and refunds orders that it places. `FactsAssumption` and
`LimitsAssumption` say what views are of: finitely many relationships between
the labels that `graph/projection.py` joins, each at the time of its event, and
limits of at least one (`investigation/models.py`). `ResolutionAssumption` says
it of address forms and similarities, `PolicyAssumption` and
`EvaluationAssumption` of what `PolicyConfig` and `EvaluationConfig` validate,
and `WindowAssumption` that a generated window has at least two weeks
(`validate_time_window`). TLC evaluates them on every run.

Some theorems have hypotheses of their own:

* `FutureIgnored` assumes `NoneIsNoVector`: the value for *no vector* is no
  vector.
* The theorems about features assume a finite set of edges.
* Those about files assume `NothingIsMissing`: what a file holds is neither the
  value for *no file* nor that for *torn*.
* `ThresholdHolds` assumes that support needs a sample of each class, which
  `EvaluationConfig` requires; scores are whole numbers, of which only the order
  matters.
* `CountsHold` assumes `ReportsAreFinal`: a report has one of the four statuses,
  and one whose grounding failed is `FAILED` (`score_comparison_run` raises
  otherwise). That cases and models are distinct need not be assumed:
  `build_comparison_summary` refuses a plan that repeats a pair.
* `WorldHolds` and `WorldInvariantHolds` assume `NothingIsShared`: `None` is no
  identity.
* `StableHolds` and its like, unlike `DecisionsHold`, are about any costs: they
  assume whole costs, positive odds multipliers and a
  strict tie-break order; those about splits, cutoffs in order and events at
  times.

### Arguments

**The inbox.** `OwnerHoldsClaim` is not inductive: a worker could, as far as it
says, hold a token that a later claim repeats. `InboxInvariant` adds
`TokensConsistent` (readings in use are not ahead of the clock),
`WorkersConsistent` (what a worker has established when it stands at each place:
a canonical event before the graph, a projection before the finalization),
`RowsConsistent` (a canonical event is that of the row's body) and the other
properties. A claim writes the claimant's own reading. Another worker that holds
the row by the same reading has lost it, past its lease, to a claim that failed
since (`OwnerHoldsClaim`, `StaleOnlyAfterLease`): the claimant has waited that
long, and `Reuse` records it. Each conjunct has a lemma that every action
preserves it; the theorems follow by `PTL`. While no token has been used twice,
a row has at most one owner (`OwnerIsUnique`), so the holder of `LeasedWork` is
well defined, and every step of the inbox is a step of `LeasedWork` or leaves
its variables alone: claims are `Take`s or, past a lease, takeovers; a fenced
finalization is its holder's; everything a stale worker does is a stutter.

**The jobs.** `JobsAreWhole` says that a completed job has its run and its report
and no other job has any; a second executor could complete a job twice as far as
it says. `JobsInvariant` adds where the executors stand (`ExecutorsAtWork`),
that claim tokens are distinct and in the past (`TokensConsistent`), and that
whoever carries the token of the last claim has the job `RUNNING` (`OwnerRuns`).
From the second, a job has one owner (`OwnerIsUnique`), so the holder of
`LeasedWork`, a `CHOOSE` among owners, has no choice; claims are then takes,
completions and failures closes by the holder, and the rest stutters.

**The pipeline.** `PipelineInvariant` is proved conjunct by conjunct, each
preserved by every action. `LineageIsWhole`, `OpenCaseIsUnique` and finality need
only `Persist` and `CloseCase`, since no other step touches the lineage
(`LineageSteps`), and what a commit does there (`PersistDescribed`): the case it
uses is one found earlier, the account's open one, or a new one when there is
none. That a case found earlier still is a case of that account is `FoundIsCase`.
`ScoredOnWhatWasKnown` needs the interleaving: the facts a thread read
(`ThreadsConsistent`) were received by the event's own receipt and stay so,
because receipts are numbered and kept (`StoresConsistent`,
`FinitelyReceived`), while others project, finalize, close and die.
`TypeCorrect` adds that a catch-up never carries more rows than its limit: no two
rows have one receipt number (`ReceiptsNumbered`), so the oldest `n` of any set
are at most `n` (`OldestAreFew`).

**The agent.** A thread stands at a statement of `record`; `CallsConsistent` says
what it has established there (the item it looks at is one its tool returns, the
references so far are those of the items before), `LedgerConsistent` what items
and aliases are. `Accounted` counts: each admitted call is a line of the trace or
a thread on its way to one, so the budget bounds both, however threads overlap.
A claim is grounded against the trace at the end, and traces only grow;
`SavedIsVerified` carries what the save has checked. Without overlap more is
true, and `SequentialInvariant` says it: references are positions, the thread
that records is alone, and the ledger is what a replay of the trace builds. The
replay is a recursion over the trace; that it exists and takes its values is
`Recursion` of `BoundedInduction`, and its value at the end follows by
`Induction`, both stated of sets and functions instead of operators.

**The features.** `ConnectedAccounts` grows a set by rings until it is closed.
It ends because a set that grows within a finite one must stop, by counting; it
is the least closed set because every ring lies in each closed set. The counts
(peers, reuse, shares, velocities) are then inclusions of finite sets.

**The evidence.** Links merge the events of one pair of nodes; that they are one
per pair, join an account to an identity, and are those of the cutoff
(`LinksAre`) makes peers computed from links the peers computed from edges. A
sorted list is a bijection of positions because no two elements have equal rank
(`RanksAre`, `SortedAre`), so that the last `n` are the latest (`LastAre`). The
bounded search has a queue and three limits. Its invariant, through every node it
expands and every link it follows (`SoundStays`, `FollowIs`, `ExpandIs`): nodes
and edges are within the limits; shown edges join shown nodes; every shown node
is reached in as many rounds as its distance; and, until something is cut off,
each node that has left the queue has all its links shown. The number of nodes
that have left the queue bounds the rounds, so the fixed number of rounds of the
model empties it. What is read at a cutoff is a function of the edges, creations
and events up to it (`EvidenceIsSame`, `VectorIsSame`), and a later fact changes
none of them. `ViewsHold` carries from step to step that a view is a finite union
of known facts.

**The graph.** `GraphInvariant` says where edges come from (`Sourced`: an event
or the world, at the time it became known), that an event's nodes stand once it
is projected (`Standing`), that its edges do too unless it is `early`
(`FactsStay`), and what the loader has written by each batch (`Progress`: nodes
first, so that no `MATCH` of a later batch fails). A repeated projection finds
its own edges and writes them as they are. For `FutureIgnored` each reader's
holdings are bounded on both sides: what its queries have returned is of facts
known at the cutoff (`NodesAreDue`, `EdgesAreDue`), and includes all due ones that
were there when it began. So both vectors are computed from the same edges, which
fixes the identity and commerce features. Age and velocity read one property of
nodes, the creation, which `NodesKnow` traces to an event that states it: under
`CreatedOnce`, to one, and then both vectors have the same creations and fail
together. Node properties that later facts overwrite are the categorical values
that the property leaves out.

**The files.** `FrozenIsWhole` is not inductive: it says nothing of a provenance
whose files do not load yet. `LineageInvariant` says that the provenance on the
disk is of one evaluation whatever lies beside it, that a calibrator was fitted
to its own base model and manifest, how far the running command is and what it
has computed, and, for what has ended in order, that it is still there and that
what now runs was computed from it. An action that starts a command establishes
the facts about its output from the loaders' checks; a write moves one of them to
the disk; a crash tears a file, which reading refuses.

**Decisions.** The cost difference of two actions is linear in the odds. A
multiplier between two others is a combination of them with weights that are not
negative, so a difference that favours one action at both ends does so between;
it is a tie only if it is one at an end, where the tie-break order was decisive
already (`BetweenCombines`). For `LeniencyHolds` the two comparisons are
multiplied out and one unknown is eliminated.

**Splits.** A positive sample's event lies in its split's interval, and an account
whose campaign acted in an earlier interval is not sampled later. Two positives
of one campaign are each no later than the other.

**The threshold.** The keys that `select_threshold` compares are fractions, so
what does not exceed is an order (`RatiosAreOrdered`), two keys and the score
make a total one (`ScoresAreOrdered`), and of the first `n` records one has the
best score, by `Induction`. A score that flags as many abusers and as few others
flags a superset or a subset; in either case an F1 that is no better leaves one
of the two counts equal, and the sets with it (`BestIsEfficient`).

**The comparison.** `RecordsConsistent` says that each record is of its planned
run and ended in one of five ways. When the summary is written, the outcomes are
as many pairs as the plan has runs, so no two runs have one outcome and each
model has every case (`PlanIsCovered`): counts of outcomes are counts of runs,
and those of disjoint kinds add up.

**The addresses.** `IsResolved` says of the addresses resolved so far that each
goes to itself or an earlier root, in its bucket, sharing an anchor and similar
enough, or equal. `ResolveNext` preserves it (`NextKeepsResolved`); that the fold
over a sequence takes these steps is `ResolvedExists`, by `Recursion`, and
`Induction` gives the end (`AllAreResolved`). Where nothing is similar, a root is
the first of its form.

**The generated world.** None of the four parts of `WorldIsPlausible` is
inductive. `WorldConsistent` says that the facts of each account are those of one
emission (`AccountIs`): in its window, causally ordered, labelled by its ring
only, and, for a member, with an action that continues. Of identities it says
(`SharesAreOf`) that what a group shares is known as that group's, and is seen
either with members of that ring from their actions on, or is no ring's: a new
ring has a number that nothing has used, and a context is never a ring. The
identities in use at an action are those of the last order before it because a
history is sorted, so that the orders up to a cutoff are a prefix, as many as
the code counts (`NoGaps`, `CutoffIs`). The times follow from the draws, whose
ends keep the order (`CreationIs`, `OrdersAre`, `ActionIs`).

### Only model-checked

All liveness (`EventsAreAnswered`, `Settles`, `JobsSettle`, `RunEnds`), since
fairness and `ENABLED` are beyond the prover; and the five violations, which are
single counterexamples. Induction whose hypothesis is an operator cannot be
instantiated by the installed provers; where a theorem needs induction over data
it is over a set of numbers.

## Disagreements found

* **Catch-up selects setup events.** `unscored_processed_ids` excludes
  `"ACCOUNT_CREATED"`; the column holds `"account_created"`. Setup events have
  no evaluation, so every batch selects the oldest of them again.
* **Two investigations that end alike.** `report_id` does not depend on the
  run. A second key whose agent ends in the same exhausted or rejected report
  cannot store it; the job fails, and so does each retry that ends so.
* **A promotion or refund before its order leaves no edge.** The relationship is
  matched away silently and the row becomes `PROCESSED`.
* **Two evidence items under one alias.** The ledger's docstring promises an
  alias that names one item. Two parallel tool calls can insert between each
  other's insertion and naming; both then take the alias of the larger ledger,
  or one item is renamed after the model saw its first name.
* **An account younger than its campaign action.**
  `_campaign_account_timestamp` says that it creates an account before its
  action. The clamp to one available day may create it later when the action is
  drawn on the first day. An early campaign is centred from 12% of the window
  on, and the drift and hard presets spread it by 14% and 12%, so that `np.clip`
  can put an action on the first day of any window; under the other presets a low
  and slow campaign (from 2%) acts there only in windows of 32 days or less, such
  as the 31 days of `tests/`. `offline` and its theorems have these actions too:
  nothing else of a world's order depends on when an action is drawn.

Noticed and not run:

* Node properties have one value: a view at an old cutoff returns the platform
  last written, while `src/backend/README.md:550` says categorical values are
  selected only from facts present by the cutoff.
* `comparison.py` renders the table of a summary after it is written; a failed
  run has no context metrics, and rendering raises on it.
* `resolve_addresses` can give equal normalized addresses different canonical
  entities: a later duplicate may match a root that came between.
  `AgreesWithExact`, part of `AddressesAreResolved`, says when it cannot.
* `EvidenceLedger.from_snapshot` is not called where the API stores an execution,
  so a trace out of order is stored there, while `save_investigation_artifacts`
  rejects it.
* For an action in the first hour of the second day the same clamp may leave less
  than the hour between account and action that the code asks for.
* Ordinary histories redeem promotions without regard to
  `max_redemptions_per_account`.
* A reset forgets the runtime's facts, whose rows stay `PROCESSED`.
* A case closed between a scorer's read of the open case and its commit receives
  the decision although it is closed (`close_case` has no caller in the backend
  yet); a row that never normalizes takes the whole limit of
  `WebhookEventProcessor.process_next`; a neighbour whose creation is unknown
  makes the extraction of every connected account fail.

## What is left out

Read-only endpoints and response shapes; signature and envelope validation;
JSON and the rendering of artifacts; the value objects of `scoring/`; training,
SHAP, the logistic fit, bootstrap intervals and diagnostics, which are
floating-point work; the amounts, traits and export of the synthetic world;
migrations. Scores and decisions are abstract in the
pipeline, agent outcomes in the jobs. Neo4j and PostgreSQL are modelled by what
the code relies on: atomic statements and transactions, read-committed reads,
unique indexes, `SKIP LOCKED`.

## Plan

Done: every component listed as modelled, and a theorem for every safety
property that a passing run checks.

Left: `CaseLifecycle`, once cases have readers and `close_case` a caller; the
categorical values of a vector, whose nodes keep the latest property only; and
the floating-point parts, which no integer model would show.
