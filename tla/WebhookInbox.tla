----------------------------- MODULE WebhookInbox -----------------------------
(***************************************************************************)
(* The durable webhook inbox and its processors (Stages 12A and 12B).      *)
(*                                                                         *)
(* A verified delivery is inserted once under its provider event ID.       *)
(* Processors claim a row (directly by ID, or the oldest claimable one in  *)
(* a batch), normalize it into one immutable canonical event, merge that   *)
(* event into Neo4j and finalize the row.  PostgreSQL and Neo4j share no   *)
(* transaction, so a processor may stall, fail or die between any two of   *)
(* these steps; a claim is a lease, and its claimed_at value the token     *)
(* that fences finalization.                                               *)
(*                                                                         *)
(* One action is one database transaction, or one call of Neo4j, or one    *)
(* reading of the clock.  A rejected request (bad event ID, signature or   *)
(* envelope) changes nothing and is not an action: Body holds the          *)
(* authenticated, well-formed bodies.                                      *)
(***************************************************************************)
EXTENDS Naturals, FiniteSets

CONSTANTS
    Event,          \* provider event IDs, the inbox's primary key
    Body,           \* raw request bodies
    Normalizable,   \* the bodies the normalizer can map to a canonical event
    ProviderTime,   \* [Body -> Nat]: the body's created_at
    Worker,         \* threads that run a processor: background tasks and CLIs
    None,
    Lease,          \* processing_lease_timeout
    BatchLimit,     \* iterations of one process_next call
    Bound           \* record of the bounds on the environment's steps

ASSUME InboxAssumption ==
    /\ Normalizable \subseteq Body
    /\ ProviderTime \in [Body -> Nat]
    /\ None \notin Worker \cup Body
    /\ Lease \in Nat \ {0}
    /\ BatchLimit \in Nat \ {0}
    /\ Bound \in [delivery : Nat, start : Nat, crash : Nat, tick : Nat]

VARIABLES
    status,         \* webhook_events.status; "ABSENT" when there is no row
    body,           \* webhook_events.raw_body
    receivedAt,     \* webhook_events.received_at
    claimedAt,      \* webhook_events.claimed_at, 0 when NULL
    normalized,     \* normalized_events: the body the canonical event came from
    graph,          \* pairs <<e, b>>: the projection of e, made from b, is in Neo4j
    tasks,          \* tasks[e]: background tasks scheduled and not yet started
    clock,          \* the wall clock: the next reading
    pc,             \* where each worker is
    item,           \* the provider event ID it works on
    fact,           \* the canonical event it holds in memory
    token,          \* its reading of the clock: the claim token
    left,           \* iterations of process_next it has left
    closedBy,       \* history: the worker whose finalization closed the last claim
    reused,         \* history: the rows claimed with another holder's token
    used            \* history: environment steps taken, for Bound

rowVars == <<status, body, receivedAt, claimedAt>>
storeVars == <<normalized, graph>>
workerVars == <<pc, item, fact, token, left>>
vars == <<rowVars, storeVars, tasks, clock, workerVars, closedBy, reused, used>>

Status == {"ABSENT", "RECEIVED", "PROCESSING", "PROCESSED", "FAILED"}

(* Places of a worker that has claimed a row and not finished with it. *)
Holding == {"normalize", "graph", "finalize", "fail"}

PC == Holding \cup {"idle", "claim", "reproject", "loop", "pick"}

Init ==
    /\ status = [e \in Event |-> "ABSENT"]
    /\ body = [e \in Event |-> None]
    /\ receivedAt = [e \in Event |-> 0]
    /\ claimedAt = [e \in Event |-> 0]
    /\ normalized = [e \in Event |-> None]
    /\ graph = {}
    /\ tasks = [e \in Event |-> 0]
    /\ clock = 1
    /\ pc = [w \in Worker |-> "idle"]
    /\ item = [w \in Worker |-> None]
    /\ fact = [w \in Worker |-> None]
    /\ token = [w \in Worker |-> 0]
    /\ left = [w \in Worker |-> 0]
    /\ closedBy = [e \in Event |-> None]
    /\ reused = {}
    /\ used = [delivery |-> 0, start |-> 0, crash |-> 0, tick |-> 0]

-----------------------------------------------------------------------------
(* Helpers *)

(* datetime.now(tz=UTC).  Time passes by itself (Tick), not because it is     *)
(* read: two readings are the same when no tick comes between them.           *)
ReadClock(w) == token' = [token EXCEPT ![w] = clock]

Spend(kind) ==
    /\ used[kind] < Bound[kind]
    /\ used' = [used EXCEPT ![kind] = @ + 1]

(* Mutant: a PROCESSING row is claimable before its lease ran out. *)
ClaimableUnleased(e, t) == status[e] \in {"RECEIVED", "FAILED", "PROCESSING"}

(* The predicate of every claim, for a worker that read the clock at t. *)
Claimable(e, t) ==
    \/ status[e] \in {"RECEIVED", "FAILED"}
    \/ status[e] = "PROCESSING" /\ claimedAt[e] + Lease < t

(* Mutant: finalization checks the status and forgets the token. *)
OwnsRowUnfenced(w) == status[item[w]] = "PROCESSING"

(* The WHERE clause of the fenced finalization. *)
OwnsRow(w) ==
    /\ status[item[w]] = "PROCESSING"
    /\ claimedAt[item[w]] = token[w]

(* The normalizer accepts the row (a mapped body, not dated after its       *)
(* receipt) and normalized_events holds no other canonical event for it.    *)
Normalizes(e) ==
    /\ body[e] \in Normalizable
    /\ ProviderTime[body[e]] <= receivedAt[e]
    /\ normalized[e] \in {None, body[e]}

(* History: w claims e with a token that another worker still holds e by. *)
Reuse(w, e) ==
    LET others == {v \in Worker \ {w} :
                      pc[v] \in Holding /\ item[v] = e /\ token[v] = token[w]}
    IN  reused' = IF others = {} THEN reused ELSE reused \cup {e}

(* The order of claim_next: received_at.  Of rows with one received_at, which  *)
(* the code takes in the order of their IDs, either may come first here.       *)
Older(d, e) == receivedAt[d] < receivedAt[e]

(* Another worker's open transaction may hold the lock on row e. *)
MayBeLocked(w, e) ==
    \E v \in Worker \ {w} : item[v] = e /\ pc[v] \in {"claim", "finalize", "fail"}

(* Mutant: a finished worker always runs another iteration. *)
LeaveLooping(w) ==
    /\ pc' = [pc EXCEPT ![w] = "loop"]
    /\ item' = [item EXCEPT ![w] = None]
    /\ fact' = [fact EXCEPT ![w] = None]
    /\ token' = [token EXCEPT ![w] = 0]
    /\ UNCHANGED left

(* The worker is done with its row: it returns, or its batch goes on. *)
Leave(w) ==
    /\ pc' = [pc EXCEPT ![w] = IF left[w] = 0 THEN "idle" ELSE "loop"]
    /\ item' = [item EXCEPT ![w] = None]
    /\ fact' = [fact EXCEPT ![w] = None]
    /\ token' = [token EXCEPT ![w] = 0]
    /\ UNCHANGED left

Goto(w, place) ==
    /\ pc' = [pc EXCEPT ![w] = place]
    /\ UNCHANGED <<item, fact, token, left>>

-----------------------------------------------------------------------------
(* Stage 12A: the webhook endpoint *)

(* Mutant: the delivery is stored, but no background task is scheduled. *)
DeliverUnscheduled(e, b) ==
    /\ Spend("delivery")
    /\ status[e] = "ABSENT"
    /\ status' = [status EXCEPT ![e] = "RECEIVED"]
    /\ body' = [body EXCEPT ![e] = b]
    /\ receivedAt' = [receivedAt EXCEPT ![e] = clock]
    /\ UNCHANGED <<claimedAt, storeVars, tasks, workerVars, clock, closedBy, reused>>

(* First delivery of e: a durable row, an answer, and a background task. *)
DeliverNew(e, b) ==
    /\ Spend("delivery")
    /\ status[e] = "ABSENT"
    /\ status' = [status EXCEPT ![e] = "RECEIVED"]
    /\ body' = [body EXCEPT ![e] = b]
    /\ receivedAt' = [receivedAt EXCEPT ![e] = clock]
    /\ tasks' = [tasks EXCEPT ![e] = @ + 1]
    /\ UNCHANGED <<claimedAt, storeVars, workerVars, clock, closedBy, reused>>

(* Mutant: ON CONFLICT DO UPDATE, the last delivery of an ID wins. *)
DeliverUpsert(e, b) ==
    /\ Spend("delivery")
    /\ status[e] # "ABSENT"
    /\ body' = [body EXCEPT ![e] = b]
    /\ tasks' = [tasks EXCEPT ![e] = @ + 1]
    /\ UNCHANGED <<status, receivedAt, claimedAt, storeVars, workerVars, clock, closedBy, reused>>

(* Redelivery: the same bytes are accepted and scheduled once more; other   *)
(* bytes under a known ID are answered with 409 and change nothing.         *)
DeliverAgain(e, b) ==
    /\ Spend("delivery")
    /\ status[e] # "ABSENT"
    /\ tasks' = IF b = body[e] THEN [tasks EXCEPT ![e] = @ + 1] ELSE tasks
    /\ UNCHANGED <<rowVars, storeVars, workerVars, clock, closedBy, reused>>

-----------------------------------------------------------------------------
(* Stage 12B: WebhookEventProcessor.process *)

(* The opening read: a finished row is projected again from its canonical   *)
(* event, any other is about to be claimed at the clock's reading.          *)
Begin(w, e) ==
    /\ pc[w] = "idle"
    /\ status[e] # "ABSENT"
    /\ pc' = [pc EXCEPT ![w] = IF status[e] = "PROCESSED" THEN "reproject" ELSE "claim"]
    /\ item' = [item EXCEPT ![w] = e]
    /\ fact' = [fact EXCEPT ![w] =
                    IF status[e] = "PROCESSED" THEN normalized[e] ELSE None]
    /\ ReadClock(w)
    /\ UNCHANGED <<rowVars, storeVars, clock, left, closedBy, reused>>

StartTask(w, e) ==
    /\ tasks[e] > 0
    /\ tasks' = [tasks EXCEPT ![e] = @ - 1]
    /\ Begin(w, e)
    /\ UNCHANGED used

StartProcess(w, e) ==
    /\ Spend("start")
    /\ Begin(w, e)
    /\ UNCHANGED tasks

(* The claim is refused: WebhookClaimUnavailable. *)
ClaimRefused(w) ==
    /\ pc[w] = "claim"
    /\ ~Claimable(item[w], token[w])
    /\ Leave(w)
    /\ UNCHANGED <<rowVars, storeVars, tasks, clock, closedBy, reused, used>>

(* Mutant: the canonical event is not persisted before the projection. *)
ClaimWithoutPersist(w) ==
    LET e == item[w] IN
    /\ pc[w] = "claim"
    /\ Claimable(e, token[w])
    /\ Normalizes(e)
    /\ status' = [status EXCEPT ![e] = "PROCESSING"]
    /\ claimedAt' = [claimedAt EXCEPT ![e] = token[w]]
    /\ fact' = [fact EXCEPT ![w] = body[e]]
    /\ pc' = [pc EXCEPT ![w] = "graph"]
    /\ Reuse(w, e)
    /\ UNCHANGED <<body, receivedAt, storeVars, tasks, clock, item, token, left,
                   closedBy, used>>

(* One transaction claims, normalizes and persists the canonical event. *)
ClaimAndNormalize(w) ==
    LET e == item[w] IN
    /\ pc[w] = "claim"
    /\ Claimable(e, token[w])
    /\ Normalizes(e)
    /\ status' = [status EXCEPT ![e] = "PROCESSING"]
    /\ claimedAt' = [claimedAt EXCEPT ![e] = token[w]]
    /\ normalized' = [normalized EXCEPT ![e] = body[e]]
    /\ fact' = [fact EXCEPT ![w] = body[e]]
    /\ pc' = [pc EXCEPT ![w] = "graph"]
    /\ Reuse(w, e)
    /\ UNCHANGED <<body, receivedAt, graph, tasks, clock, item, token, left,
                   closedBy, used>>

(* The same transaction when normalization fails: claimed and failed at once. *)
ClaimAndReject(w) ==
    LET e == item[w] IN
    /\ pc[w] = "claim"
    /\ Claimable(e, token[w])
    /\ ~Normalizes(e)
    /\ status' = [status EXCEPT ![e] = "FAILED"]
    /\ claimedAt' = [claimedAt EXCEPT ![e] = token[w]]
    /\ closedBy' = [closedBy EXCEPT ![e] = w]
    /\ Reuse(w, e)
    /\ Leave(w)
    /\ UNCHANGED <<body, receivedAt, storeVars, tasks, clock, used>>

-----------------------------------------------------------------------------
(* Stage 12B: WebhookEventProcessor.process_next and _process_claimed *)

StartBatch(w) ==
    /\ Spend("start")
    /\ pc[w] = "idle"
    /\ pc' = [pc EXCEPT ![w] = "loop"]
    /\ left' = [left EXCEPT ![w] = BatchLimit]
    /\ UNCHANGED <<rowVars, storeVars, tasks, clock, item, fact, token, closedBy, reused>>

(* One more iteration: read the clock for the next claim. *)
Iterate(w) ==
    /\ pc[w] = "loop"
    /\ pc' = [pc EXCEPT ![w] = "pick"]
    /\ left' = [left EXCEPT ![w] = @ - 1]
    /\ ReadClock(w)
    /\ UNCHANGED <<rowVars, storeVars, tasks, clock, item, fact, closedBy, reused, used>>

(* claim_next: the oldest claimable row whose lock is free. *)
ClaimNext(w, e) ==
    /\ pc[w] = "pick"
    /\ Claimable(e, token[w])
    /\ \A d \in Event :
          Claimable(d, token[w]) /\ Older(d, e) => MayBeLocked(w, d)
    /\ status' = [status EXCEPT ![e] = "PROCESSING"]
    /\ claimedAt' = [claimedAt EXCEPT ![e] = token[w]]
    /\ item' = [item EXCEPT ![w] = e]
    /\ pc' = [pc EXCEPT ![w] = "normalize"]
    /\ Reuse(w, e)
    /\ UNCHANGED <<body, receivedAt, storeVars, tasks, clock, fact, token, left,
                   closedBy, used>>

(* Nothing claimable that is not locked: the batch ends. *)
NothingToClaim(w) ==
    /\ pc[w] = "pick"
    /\ \A e \in Event : Claimable(e, token[w]) => MayBeLocked(w, e)
    /\ pc' = [pc EXCEPT ![w] = "idle"]
    /\ token' = [token EXCEPT ![w] = 0]
    /\ left' = [left EXCEPT ![w] = 0]
    /\ UNCHANGED <<rowVars, storeVars, tasks, clock, item, fact, closedBy, reused, used>>

(* The claim was lost before the second transaction: the batch continues. *)
ClaimLost(w) ==
    /\ pc[w] = "normalize"
    /\ ~OwnsRow(w)
    /\ Leave(w)
    /\ UNCHANGED <<rowVars, storeVars, tasks, clock, closedBy, reused, used>>

(* Mutant: the second transaction keeps the canonical event to itself. *)
NormalizeWithoutPersist(w) ==
    LET e == item[w] IN
    /\ pc[w] = "normalize"
    /\ OwnsRow(w)
    /\ Normalizes(e)
    /\ fact' = [fact EXCEPT ![w] = body[e]]
    /\ pc' = [pc EXCEPT ![w] = "graph"]
    /\ UNCHANGED <<rowVars, storeVars, tasks, clock, item, token, left, closedBy, reused, used>>

(* The second transaction checks the claim, normalizes and persists. *)
NormalizeClaimed(w) ==
    LET e == item[w] IN
    /\ pc[w] = "normalize"
    /\ OwnsRow(w)
    /\ Normalizes(e)
    /\ normalized' = [normalized EXCEPT ![e] = body[e]]
    /\ fact' = [fact EXCEPT ![w] = body[e]]
    /\ pc' = [pc EXCEPT ![w] = "graph"]
    /\ UNCHANGED <<rowVars, graph, tasks, clock, item, token, left, closedBy, reused, used>>

RejectClaimed(w) ==
    LET e == item[w] IN
    /\ pc[w] = "normalize"
    /\ OwnsRow(w)
    /\ ~Normalizes(e)
    /\ status' = [status EXCEPT ![e] = "FAILED"]
    /\ closedBy' = [closedBy EXCEPT ![e] = w]
    /\ Leave(w)
    /\ UNCHANGED <<body, receivedAt, claimedAt, storeVars, tasks, clock, reused, used>>

-----------------------------------------------------------------------------
(* Both paths: the projection, outside any PostgreSQL transaction *)

Project(w) == graph' = graph \cup {<<item[w], fact[w]>>}

ProjectOk(w) ==
    /\ pc[w] = "graph"
    /\ Project(w)
    /\ Goto(w, "finalize")
    /\ UNCHANGED <<rowVars, normalized, tasks, clock, closedBy, reused, used>>

(* Mutant: an error of the projection is swallowed. *)
ProjectErrorIgnored(w) ==
    /\ pc[w] = "graph"
    /\ Project(w) \/ UNCHANGED graph
    /\ Goto(w, "finalize")
    /\ UNCHANGED <<rowVars, normalized, tasks, clock, closedBy, reused, used>>

(* The driver raises: Neo4j may or may not have committed the merge. *)
ProjectFails(w) ==
    /\ pc[w] = "graph"
    /\ Project(w) \/ UNCHANGED graph
    /\ Goto(w, "fail")
    /\ UNCHANGED <<rowVars, normalized, tasks, clock, closedBy, reused, used>>

(* Projection of an already PROCESSED row; an error only reaches the caller. *)
Reproject(w) ==
    /\ pc[w] = "reproject"
    /\ Project(w) \/ UNCHANGED graph
    /\ Leave(w)
    /\ UNCHANGED <<rowVars, normalized, tasks, clock, closedBy, reused, used>>

(* mark_processed and mark_failed: fenced by status and claimed_at. *)
Finalize(w) ==
    LET e == item[w] IN
    /\ pc[w] \in {"finalize", "fail"}
    /\ OwnsRow(w)
    /\ status' = [status EXCEPT ![e] =
                    IF pc[w] = "finalize" THEN "PROCESSED" ELSE "FAILED"]
    /\ closedBy' = [closedBy EXCEPT ![e] = w]
    /\ Leave(w)
    /\ UNCHANGED <<body, receivedAt, claimedAt, storeVars, tasks, clock, reused, used>>

FinalizeRefused(w) ==
    /\ pc[w] \in {"finalize", "fail"}
    /\ ~OwnsRow(w)
    /\ Leave(w)
    /\ UNCHANGED <<rowVars, storeVars, tasks, clock, closedBy, reused, used>>

-----------------------------------------------------------------------------
(* The environment: time, a dying worker, a restart of the backend *)

Tick ==
    /\ Spend("tick")
    /\ clock' = clock + 1
    /\ UNCHANGED <<rowVars, storeVars, tasks, workerVars, closedBy, reused>>

(* A worker's thread dies, or an exception other than the handled ones ends *)
(* it: its open transaction is rolled back, its claim stays.                *)
Die(w) ==
    /\ Spend("crash")
    /\ pc[w] # "idle"
    /\ pc' = [pc EXCEPT ![w] = "idle"]
    /\ item' = [item EXCEPT ![w] = None]
    /\ fact' = [fact EXCEPT ![w] = None]
    /\ token' = [token EXCEPT ![w] = 0]
    /\ left' = [left EXCEPT ![w] = 0]
    /\ UNCHANGED <<rowVars, storeVars, tasks, clock, closedBy, reused>>

(* The backend restarts: background tasks live in memory only. *)
Restart ==
    /\ Spend("crash")
    /\ tasks' = [e \in Event |-> 0]
    /\ pc' = [w \in Worker |-> "idle"]
    /\ item' = [w \in Worker |-> None]
    /\ fact' = [w \in Worker |-> None]
    /\ token' = [w \in Worker |-> 0]
    /\ left' = [w \in Worker |-> 0]
    /\ UNCHANGED <<rowVars, storeVars, clock, closedBy, reused>>

-----------------------------------------------------------------------------

(* The steps a worker takes once it has started. *)
WorkerStep(w) ==
    \/ ClaimRefused(w) \/ ClaimAndNormalize(w) \/ ClaimAndReject(w)
    \/ Iterate(w) \/ NothingToClaim(w) \/ \E e \in Event : ClaimNext(w, e)
    \/ ClaimLost(w) \/ NormalizeClaimed(w) \/ RejectClaimed(w)
    \/ ProjectOk(w) \/ ProjectFails(w) \/ Reproject(w)
    \/ Finalize(w) \/ FinalizeRefused(w)

Environment ==
    \/ \E e \in Event, b \in Body : DeliverNew(e, b) \/ DeliverAgain(e, b)
    \/ \E w \in Worker : StartBatch(w) \/ Die(w)
    \/ \E w \in Worker, e \in Event : StartProcess(w, e)
    \/ Tick
    \/ Restart

Next ==
    \/ \E w \in Worker : WorkerStep(w)
    \/ \E w \in Worker, e \in Event : StartTask(w, e)
    \/ Environment

Spec == Init /\ [][Next]_vars

(* The event loop starts every scheduled task and a started call runs on. *)
Fairness ==
    /\ \A w \in Worker : WF_vars(WorkerStep(w))
    /\ \A e \in Event : WF_vars(\E w \in Worker : StartTask(w, e))

FairSpec == Spec /\ Fairness
-----------------------------------------------------------------------------
(* Properties *)

TypeOK ==
    /\ status \in [Event -> Status]
    /\ body \in [Event -> Body \cup {None}]
    /\ receivedAt \in [Event -> Nat]
    /\ claimedAt \in [Event -> Nat]
    /\ normalized \in [Event -> Body \cup {None}]
    /\ graph \subseteq Event \X Body
    /\ tasks \in [Event -> Nat]
    /\ clock \in Nat \ {0}
    /\ pc \in [Worker -> PC]
    /\ item \in [Worker -> Event \cup {None}]
    /\ fact \in [Worker -> Body \cup {None}]
    /\ token \in [Worker -> Nat]
    /\ left \in [Worker -> 0..BatchLimit]
    /\ closedBy \in [Event -> Worker \cup {None}]
    /\ reused \subseteq Event
    /\ used \in [{"delivery", "start", "crash", "tick"} -> Nat]

(* w has claimed e, is not finished with it, and no later claim replaced its own. *)
Owns(w, e) ==
    /\ pc[w] \in Holding
    /\ item[w] = e
    /\ token[w] = claimedAt[e]

(* claimed_at alone identifies the current claim, although it is a reading   *)
(* of a clock that may return it to other workers too: two processors carry  *)
(* the token of one row only once its lease has run out, and only where the  *)
(* later of them had waited that long between its reading and its claim.     *)
OneOwner ==
    \A v, w \in Worker : \A e \in Event :
        Owns(v, e) /\ Owns(w, e) /\ v # w => e \in reused /\ claimedAt[e] + Lease < clock

(* As long as a processor carries the current token, its row is PROCESSING:  *)
(* nobody but the owner can take a row out of PROCESSING, so a stale worker  *)
(* cannot fail or finish a row that a later claim works on.  The exception   *)
(* is a token that was used twice, past its lease.                           *)
OwnerHoldsClaim ==
    \A w \in Worker : \A e \in Event :
        Owns(w, e) =>
            status[e] = "PROCESSING" \/ (e \in reused /\ claimedAt[e] + Lease < clock)

(* A row is worked on twice at a time only after a lease ran out: a worker   *)
(* that lost its row to another claim lost it past its lease.                *)
StaleOnlyAfterLease ==
    \A w \in Worker : \A e \in Event :
        pc[w] \in Holding /\ item[w] = e /\ ~Owns(w, e) => token[w] + Lease < clock

(* PROCESSED promises the canonical event and its projection, whichever of   *)
(* several overlapping, failing or dying attempts finished the row.          *)
ProcessedIsProjected ==
    \A e \in Event :
        status[e] = "PROCESSED" => normalized[e] = body[e] /\ <<e, body[e]>> \in graph

(* Canonical data precedes projection: Neo4j never holds a fact of a         *)
(* delivery that normalized_events does not hold, nor two versions of one.   *)
GraphIsCanonical ==
    \A e \in Event, b \in Body : <<e, b>> \in graph => normalized[e] = b

(* What was acknowledged stays: a row keeps its bytes and its receipt time   *)
(* (hence its scoring cutoff), and PROCESSED is final.                       *)
RowsAreDurable ==
    [][\A e \in Event :
          /\ status[e] # "ABSENT" =>
                 /\ status'[e] # "ABSENT"
                 /\ body'[e] = body[e] /\ receivedAt'[e] = receivedAt[e]
          /\ status[e] = "PROCESSED" => status'[e] = "PROCESSED"]_vars

(* The inbox as leased work: a row is held by the worker that owns it.       *)
Lease_Phase ==
    [e \in Event |-> IF status[e] = "ABSENT" THEN "absent"
                     ELSE IF status[e] = "PROCESSING" THEN "held"
                     ELSE IF status[e] = "PROCESSED" THEN "done"
                     ELSE "open"]

Lease_Holder ==
    [e \in Event |-> IF \E w \in Worker : Owns(w, e)
                         THEN CHOOSE w \in Worker : Owns(w, e)
                         ELSE None]

Leased == INSTANCE LeasedWork WITH
    Work <- Event, Holder <- Worker, NoHolder <- None,
    phase <- Lease_Phase, holder <- Lease_Holder

(* Every claim, takeover, finalization and crash of the inbox is a step of   *)
(* the lease protocol: only the current claimant closes a row, and a         *)
(* finished row is never claimed again.  Until a token is used twice, that   *)
(* is; the properties above say when that can be.                            *)
ImplementsLeasedWork ==
    Leased!Init /\ [][Leased!Next \/ reused' # {}]_(Leased!vars)

(* While no worker dies, an accepted delivery does not linger: a background  *)
(* task brings it to PROCESSED or FAILED.                                    *)
Settles ==
    \A e \in Event :
        status[e] \in {"RECEIVED", "PROCESSING"} ~> status[e] \in {"PROCESSED", "FAILED"}

-----------------------------------------------------------------------------
(* The inductive invariant behind these properties *)

(* Workers that carry a reading of the clock. *)
Reading == Holding \cup {"claim", "pick", "reproject"}

(* What each row says of itself and of its canonical event. *)
RowsConsistent ==
    \A e \in Event :
        /\ body[e] \in Body <=> status[e] # "ABSENT"
        /\ normalized[e] \in {None, body[e]}

(* What a worker has established by the time it is at each place. *)
WorkersConsistent ==
    \A w \in Worker :
        /\ pc[w] \in Holding \cup {"claim", "reproject"} =>
               item[w] \in Event /\ status[item[w]] # "ABSENT"
        /\ pc[w] \in {"graph", "finalize", "fail", "reproject"} =>
               fact[w] = body[item[w]] /\ normalized[item[w]] = body[item[w]]
        /\ pc[w] \in {"finalize", "reproject"} => <<item[w], body[item[w]]>> \in graph
        /\ pc[w] = "loop" => left[w] > 0

(* Readings of the clock are not in the future. *)
TokensConsistent == \A w \in Worker : pc[w] \in Reading => token[w] <= clock

InboxInvariant ==
    /\ TypeOK
    /\ RowsConsistent
    /\ WorkersConsistent
    /\ TokensConsistent
    /\ OneOwner
    /\ OwnerHoldsClaim
    /\ StaleOnlyAfterLease
    /\ ProcessedIsProjected
    /\ GraphIsCanonical
===============================================================================
