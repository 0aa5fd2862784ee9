----------------------------- MODULE TemporalGraph -----------------------------
(***************************************************************************)
(* The derived identity graph in Neo4j (mayajaal/graph): the incremental   *)
(* projection of one canonical event, the batch loader of the offline      *)
(* world, the reset, and the cutoff view the scorer and the investigation  *)
(* read.                                                                   *)
(*                                                                         *)
(* An incremental projection is one managed write transaction.  It writes  *)
(* the node of its account first and keeps that node locked, so two        *)
(* projections of one account are serial and a projection is one step      *)
(* here.  A batch of the loader is a transaction of its own.  A view is    *)
(* read by two queries, and Neo4j reads what is committed: a projection    *)
(* that commits between them is in the edges of the view and not in its    *)
(* nodes.                                                                  *)
(***************************************************************************)
EXTENDS FeatureExtraction, Sequences

CONSTANTS Event,      \* canonical events of the runtime: records
                      \* [id, type, account, order, item, attr, total, at]
          World,      \* the events of the offline world, loaded in batches
          Reader,     \* scorers and investigations that read views
          MaxTime,    \* bound on the clock
          MaxReplays  \* bound on projections of an event already projected

\* An event is known by its id, the primary key of the canonical events; the ids
\* of the offline world are its own (uuid5 of a name).
ASSUME GraphAssumption ==
    /\ MaxTime \in Nat /\ MaxReplays \in Nat
    /\ None \notin 0 .. MaxTime
    /\ Event \cap World = {}
    /\ \A e \in Event \cup World :
          /\ e.id \in Nat /\ e.at \in 0 .. MaxTime
          /\ \A f \in Event \cup World : e.id = f.id => e = f

VARIABLES clock,     \* receipt time
          knownAt,   \* [Event -> receipt time or None]: Event.ingested_at
          projected, \* runtime events whose load_incremental has returned
          replays,   \* bounded count of repeated projections
          nodes,     \* [key -> properties]
          edges,     \* the relationships
          batch,     \* the loader's next batch, 0 when no loader runs
          loaded,    \* history: "no" load since the last reset, one "begun", or
                     \* one that ran to its end and left the world "whole"
          view,      \* [Reader -> what the reader has read so far]
          early,     \* history: dependents that found no order when they were
                     \* last projected
          cleared    \* history: TRUE once an operator has reset the graph

vars == <<clock, knownAt, projected, replays, nodes, edges, batch, loaded, view,
          early, cleared>>

----------------------------------------------------------------------------
(* The payload of one event: its nodes and its edges. *)

Account(e) == <<"Account", e.account>>
Order(e)   == <<"Order", e.order>>

\* The label of the entity that an event names beside its account.
ItemLabel == [device_seen |-> "Device", ip_seen |-> "IPAddress",
              payment_attached |-> "PaymentIdentity", order_placed |-> "Address",
              promotion_redeemed |-> "Promotion",
              refund_requested |-> "Refund", refund_resolved |-> "Refund"]

Item(e) == <<ItemLabel[e.type], e.item>>

IdentityEdge == [device_seen |-> "USED_DEVICE", ip_seen |-> "SEEN_FROM",
                 payment_attached |-> "PAID_WITH"]

Dependent(e) == e.type \in {"promotion_redeemed", "refund_requested", "refund_resolved"}

\* Every event has one of the seven types, and the offline world redeems and
\* refunds orders it places.
ASSUME EventAssumption ==
    /\ \A e \in Event \cup World :
          e.type \in DOMAIN ItemLabel \cup {"account_created"}
    /\ \A e \in World : Dependent(e) =>
          \E o \in World : o.type = "order_placed" /\ o.order = e.order

NoProperties == [created |-> None, createdKnown |-> None, attr |-> None]

AccountProperties(e, known) ==
    IF e.type = "account_created"
    THEN [created |-> e.at, createdKnown |-> known, attr |-> None]
    ELSE NoProperties

\* A dependent's payload has no Order node: only an order_placed writes it.
NodesOf(e, known) ==
    {<<Account(e), AccountProperties(e, known)>>}
    \cup (IF e.type = "account_created" THEN {}
          ELSE {<<Item(e), [NoProperties EXCEPT !.attr = e.attr]>>})
    \cup (IF e.type = "order_placed"
          THEN {<<Order(e), [NoProperties EXCEPT !.attr = e.total]>>} ELSE {})

Edge(type, source, target, e, known) ==
    [type |-> type, source |-> source, target |-> target,
     id |-> e.id, kind |-> e.type, at |-> e.at, known |-> known]

EdgesOf(e, known) ==
    IF e.type \in DOMAIN IdentityEdge
        THEN {Edge(IdentityEdge[e.type], Account(e), Item(e), e, known)}
    ELSE IF e.type = "order_placed"
        THEN {Edge("PLACED", Account(e), Order(e), e, known),
              Edge("SHIPPED_TO", Order(e), Item(e), e, known)}
    ELSE IF e.type = "promotion_redeemed"
        THEN {Edge("USED_PROMO", Order(e), Item(e), e, known)}
    ELSE IF Dependent(e)
        THEN {Edge("HAS_REFUND", Order(e), Item(e), e, known)}
    ELSE {}

----------------------------------------------------------------------------
(* The Cypher statements. *)

\* Mutant: SET node = row.properties.
Replace(old, new) == new

\* SET node += row.properties: a property that is given replaces the stored
\* one, a property left out keeps it.
Overlay(old, new) ==
    [p \in DOMAIN old |-> IF new[p] = None THEN old[p] ELSE new[p]]

MergeNodes(stored, rows) ==
    [k \in DOMAIN stored \cup {r[1] : r \in rows} |->
        LET old == IF k \in DOMAIN stored THEN stored[k] ELSE NoProperties
        IN  IF \E r \in rows : r[1] = k
            THEN Overlay(old, (CHOOSE r \in rows : r[1] = k)[2])
            ELSE old]

\* Mutant: one lifetime edge between two nodes, the event not part of the key.
LifetimeMerge(x, y) == x.type = y.type /\ x.source = y.source /\ x.target = y.target

SameMerge(x, y) ==
    x.type = y.type /\ x.source = y.source /\ x.target = y.target /\ x.id = y.id

\* Mutant: edges are merged without a MATCH of their endpoints.
MergeUnmatched(stored, present, rows) ==
    {x \in stored : \A r \in rows : ~SameMerge(x, r)} \cup rows

\* MATCH both endpoints, then MERGE on the event id and SET its facts.  A row
\* whose endpoint is missing matches nothing: it writes nothing and raises
\* nothing.
MergeEdges(stored, present, rows) ==
    LET matched == {r \in rows : r.source \in present /\ r.target \in present}
    IN  {x \in stored : \A r \in matched : ~SameMerge(x, r)} \cup matched

----------------------------------------------------------------------------
Idle == [stage |-> "idle"]
NoNodes == [k \in {} |-> NoProperties]

Init ==
    /\ clock = 0
    /\ knownAt = [e \in Event |-> None]
    /\ projected = {}
    /\ replays = 0
    /\ nodes = NoNodes
    /\ edges = {}
    /\ batch = 0
    /\ loaded = "no"
    /\ view = [r \in Reader |-> Idle]
    /\ early = {}
    /\ cleared = FALSE

Tick ==
    /\ clock < MaxTime
    /\ clock' = clock + 1
    /\ UNCHANGED <<knownAt, projected, replays, nodes, edges, batch, loaded, view, early,
                   cleared>>

\* The provider delivers e, and the receipt time becomes its ingested_at.  The
\* schema refuses an event that claims to have occurred after its receipt: such
\* a row only ever fails and never comes here.
Receive(e) ==
    /\ knownAt[e] = None
    /\ e.at <= clock
    /\ knownAt' = [knownAt EXCEPT ![e] = clock]
    /\ UNCHANGED <<clock, projected, replays, nodes, edges, batch, loaded, view, early,
                   cleared>>

\* load_incremental: nodes before edges, in one transaction.
WriteProjection(e) ==
    LET written == MergeNodes(nodes, NodesOf(e, knownAt[e]))
    IN  /\ nodes' = written
        /\ edges' = MergeEdges(edges, DOMAIN written, EdgesOf(e, knownAt[e]))
        /\ early' = IF Dependent(e) /\ Order(e) \notin DOMAIN written
                    THEN early \cup {e} ELSE early \ {e}

Project(e) ==
    /\ knownAt[e] # None
    /\ e \notin projected
    /\ WriteProjection(e)
    /\ projected' = projected \cup {e}
    /\ UNCHANGED <<clock, knownAt, replays, batch, loaded, view, cleared>>

\* A retry whose acknowledgement was lost, or process() of a PROCESSED row.
Replay(e) ==
    /\ e \in projected
    /\ replays < MaxReplays
    /\ WriteProjection(e)
    /\ replays' = replays + 1
    /\ UNCHANGED <<clock, knownAt, projected, batch, loaded, view, cleared>>

----------------------------------------------------------------------------
(* The batch loader: sorted labels, then sorted edge types. *)

\* Mutant: the edge batches run before the node batches.
EdgesFirst ==
    <<"HAS_REFUND", "PAID_WITH", "PLACED", "SEEN_FROM",
     "SHIPPED_TO", "USED_DEVICE", "USED_PROMO",
     "Account", "Address", "Device", "IPAddress", "Order",
     "PaymentIdentity", "Promotion", "Refund">>

Batches ==
    <<"Account", "Address", "Device", "IPAddress", "Order",
     "PaymentIdentity", "Promotion", "Refund",
     "HAS_REFUND", "PAID_WITH", "PLACED", "SEEN_FROM",
     "SHIPPED_TO", "USED_DEVICE", "USED_PROMO">>

\* The offline world knows a fact a second after it occurs, the same instant of
\* the model's clock.  Its entity tables give one
\* row to a node, whatever number of events name it.
WorldRows == UNION {NodesOf(e, e.at) : e \in World}
WorldKeys == {r[1] : r \in WorldRows}

WorldProperty(key, p) ==
    LET given == {r \in WorldRows : r[1] = key /\ r[2][p] # None}
    IN  IF given = {} THEN None ELSE (CHOOSE r \in given : TRUE)[2][p]

WorldNodes(label) ==
    {<<k, [p \in DOMAIN NoProperties |-> WorldProperty(k, p)]>> :
        k \in {w \in WorldKeys : w[1] = label}}

WorldEdges(type) == {x \in UNION {EdgesOf(e, e.at) : e \in World} : x.type = type}

StartLoad ==
    /\ World # {}
    /\ batch = 0
    /\ batch' = 1
    /\ loaded' = IF loaded = "no" THEN "begun" ELSE loaded
    /\ UNCHANGED <<clock, knownAt, projected, replays, nodes, edges, view, early, cleared>>

\* One auto-committed statement.
LoadBatch ==
    /\ batch > 0
    /\ nodes' = MergeNodes(nodes, WorldNodes(Batches[batch]))
    /\ edges' = MergeEdges(edges, DOMAIN nodes, WorldEdges(Batches[batch]))
    /\ batch' = (batch + 1) % (Len(Batches) + 1)
    /\ loaded' = IF batch = Len(Batches) THEN "whole" ELSE loaded
    /\ UNCHANGED <<clock, knownAt, projected, replays, view, early, cleared>>

LoadFails ==
    /\ batch > 0
    /\ batch' = 0
    /\ UNCHANGED <<clock, knownAt, projected, replays, nodes, edges, loaded, view, early,
                   cleared>>

\* neo4j-reset, run by the operator before a load: nothing else remembers that
\* the graph is gone, so PROCESSED rows stay PROCESSED.
Clear ==
    /\ batch = 0
    /\ World # {}
    /\ nodes # NoNodes
    /\ nodes' = NoNodes
    /\ edges' = {}
    /\ loaded' = "no"
    /\ cleared' = TRUE
    /\ UNCHANGED <<clock, knownAt, projected, replays, batch, view, early>>

----------------------------------------------------------------------------
(* feature_projection_at: the nodes, then the edges. *)

KnownNodes(stored, cutoff) ==
    {k \in DOMAIN stored :
        k[1] = "Account" =>
            /\ stored[k].created # None
            /\ stored[k].createdKnown # None
            /\ stored[k].created <= cutoff
            /\ stored[k].createdKnown <= cutoff}

\* Mutant: the occurrence filter alone, as in the offline view.
OccurredEdges(stored, cutoff) == {x \in stored : x.at <= cutoff}

KnownEdges(stored, cutoff) ==
    {x \in stored : x.at <= cutoff /\ x.known <= cutoff}

\* The scorer takes account and cutoff from a PROCESSED event, setup excluded;
\* an investigation takes them from that event's decision.
ReadNodes(r, e) ==
    /\ view[r].stage = "idle"
    /\ e \in projected
    /\ e.type # "account_created"
    /\ view' = [view EXCEPT ![r] =
           [stage |-> "nodes", of |-> e,
            after |-> (projected \ early) \cup (IF loaded = "whole" THEN World ELSE {}),
            nodes |-> [k \in KnownNodes(nodes, knownAt[e]) |-> nodes[k]]]]
    /\ UNCHANGED <<clock, knownAt, projected, replays, nodes, edges, batch, loaded, early,
                   cleared>>

ReadEdges(r) ==
    /\ view[r].stage = "nodes"
    /\ view' = [view EXCEPT ![r] =
           [stage |-> "read", of |-> @.of, after |-> @.after,
            nodes |-> @.nodes, edges |-> KnownEdges(edges, knownAt[@.of])]]
    /\ UNCHANGED <<clock, knownAt, projected, replays, nodes, edges, batch, loaded, early,
                   cleared>>

Forget(r) ==
    /\ view[r].stage = "read"
    /\ view' = [view EXCEPT ![r] = Idle]
    /\ UNCHANGED <<clock, knownAt, projected, replays, nodes, edges, batch, loaded, early,
                   cleared>>

----------------------------------------------------------------------------
Next ==
    \/ Tick
    \/ \E e \in Event : Receive(e) \/ Project(e) \/ Replay(e)
    \/ StartLoad \/ LoadBatch \/ LoadFails \/ Clear
    \/ \E r \in Reader : ReadEdges(r) \/ Forget(r) \/ (\E e \in Event : ReadNodes(r, e))

Spec == Init /\ [][Next]_vars

----------------------------------------------------------------------------
(* Properties. *)

Keys == {r[1] : r \in WorldRows \cup UNION {NodesOf(e, 0) : e \in Event}}

\* Every variable has its type, and every edge joins two stored nodes.
TypeOK ==
    /\ clock \in 0 .. MaxTime
    /\ knownAt \in [Event -> 0 .. MaxTime \cup {None}]
    /\ projected \subseteq {e \in Event : knownAt[e] # None}
    /\ replays \in 0 .. MaxReplays
    /\ DOMAIN nodes \subseteq Keys
    /\ \A x \in edges : x.source \in DOMAIN nodes /\ x.target \in DOMAIN nodes
    /\ batch \in 0 .. Len(Batches)
    /\ loaded \in {"no", "begun", "whole"}
    /\ \A r \in Reader : view[r].stage \in {"idle", "nodes", "read"}
    /\ early \subseteq projected
    /\ cleared \in BOOLEAN

\* A projection that has returned has put its facts into the graph, whatever
\* was projected, replayed or loaded since: the row may become PROCESSED on it
\* (event_processing.py, "only a successful idempotent projection advances the
\* inbox").  merge_relationships_query writes nothing, and raises nothing, for a
\* fact whose endpoint is not there yet.  A reset forgets the runtime facts as
\* well, and their rows stay PROCESSED (repository.py, clear).
FactsReachTheGraph ==
    ~cleared => \A e \in projected : EdgesOf(e, knownAt[e]) \subseteq edges

\* What the code does keep: short of a reset, the only projected facts the graph
\* is without are the promotions and refunds whose last projection came before
\* their order was there, and a projection repeated after the order repairs
\* them; no later projection, replay or load takes a relationship back
\* (_merge_incremental_projection, merge_relationships_query).
OnlyEarlyDependentsAreLost ==
    ~cleared => early = {e \in projected : ~(EdgesOf(e, knownAt[e]) \subseteq edges)}

\* When a fact became known: the offline world knows it as it occurs.
KnownOf(e) == IF e \in World THEN e.at ELSE knownAt[e]

FactsKnownBy(cutoff) ==
    {e \in Event : knownAt[e] # None /\ knownAt[e] <= cutoff /\ e.at <= cutoff}
    \cup {e \in World : loaded # "no" /\ e.at <= cutoff}

\* The view of a graph that holds these facts and no other.
ViewOfFacts(facts) ==
    LET rows == UNION {NodesOf(e, KnownOf(e)) : e \in facts}
        prop(k, p) == LET given == {r \in rows : r[1] = k /\ r[2][p] # None}
                      IN  IF given = {} THEN None ELSE (CHOOSE r \in given : TRUE)[2][p]
    IN  [nodes |-> [k \in {r[1] : r \in rows} |->
                       [p \in DOMAIN NoProperties |-> prop(k, p)]],
         edges |-> UNION {EdgesOf(e, KnownOf(e)) : e \in facts}]

Cutoff(r) == knownAt[view[r].of]

\* What a decision rests on: the facts known at its cutoff, but for those that a
\* missing order has lost.
DueFacts(r) == FactsKnownBy(Cutoff(r)) \ early

\* The read began when all of them were in the graph.
Settled(r) ==
    /\ view[r].stage = "read"
    /\ ~cleared
    /\ DueFacts(r) \subseteq view[r].after

\* The event that creates the account of a key.
Creates(e, k) == e.type = "account_created" /\ Account(e) = k

\* The facts the graph has heard of.
Facts == projected \cup (IF loaded = "no" THEN {} ELSE World)

\* No account that a known fact creates has been created by another fact, whose
\* projection would replace the creation the node has (SET node +=).
CreatedOnce(r) ==
    \A e \in FactsKnownBy(Cutoff(r)), f \in Facts, k \in Keys :
        Creates(e, k) /\ Creates(f, k) => e = f

VectorOf(r) ==
    Extract([nodes |-> view[r].nodes, edges |-> view[r].edges],
            Account(view[r].of), Cutoff(r))

DueVector(r) ==
    Extract(ViewOfFacts(DueFacts(r)), Account(view[r].of), Cutoff(r))

\* What a decision counts is fixed by the facts due at its cutoff: whatever is
\* received, projected, replayed or loaded later, even between the two queries
\* of the read, the scorer or an investigation that reads at that cutoff finds
\* the same identity and commerce features; and unless an account is created a
\* second time, the same age and velocity, and it fails closed exactly when
\* those facts alone would make it fail (feature_projection_at, snapshot_at).
DecisionIgnoresTheFuture ==
    \A r \in Reader : Settled(r) =>
        LET found == VectorOf(r)
            due == DueVector(r)
        IN  /\ found # None /\ due # None
                 => found.identity = due.identity /\ found.commerce = due.commerce
            /\ CreatedOnce(r)
                 => IF due = None THEN found = None
                    ELSE found # None /\ Counts(found) = Counts(due)

\* A load that ran to its end has put the whole world into the graph, also
\* after earlier loads that died between two batches and with projections in
\* between (load, _merge_batch_projection).
LoadedIsWhole ==
    loaded = "whole" => /\ WorldKeys \subseteq DOMAIN nodes
                        /\ UNION {EdgesOf(e, e.at) : e \in World} \subseteq edges

\* No property of a node is lost by a later write: an account keeps its creation
\* through every event, load and replay that does not state one, and only a
\* reset forgets it (_properties omits what is not given, SET node += keeps it).
NothingIsForgotten ==
    [][\A k \in DOMAIN nodes : nodes' # NoNodes =>
         /\ k \in DOMAIN nodes'
         /\ \A p \in DOMAIN NoProperties : nodes[k][p] # None => nodes'[k][p] # None]_vars
================================================================================
