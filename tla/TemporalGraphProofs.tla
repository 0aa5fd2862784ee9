------------------------- MODULE TemporalGraphProofs -------------------------
(***************************************************************************)
(* Theorems about TemporalGraph: what the graph holds of the events that   *)
(* were projected or loaded, and what a view extracts from it.             *)
(***************************************************************************)
EXTENDS TemporalGraph, FeatureExtractionProofs, TLAPS

(* The node labels of the loader's first eight batches. *)
LabelSet == {Batches[i] : i \in 1 .. 8}
(* The relationship types of its last seven. *)
TypeSet == {Batches[i] : i \in 9 .. 15}

(* The loader's batches: eight labels, then seven relationship types. *)
LEMMA BatchesAre ==
    /\ Len(Batches) = 15
    /\ \A t \in LabelSet : \E i \in 1 .. 8 : Batches[i] = t
    /\ \A t \in TypeSet : \E i \in 9 .. 15 : Batches[i] = t
  BY DEF Batches, LabelSet, TypeSet

(* The keys of the nodes that an event writes. *)
NodeKeys(e) ==
    {Account(e)}
    \cup (IF e.type = "account_created" THEN {} ELSE {Item(e)})
    \cup (IF e.type = "order_placed" THEN {Order(e)} ELSE {})

(* They are the keys of its rows, whenever it becomes known. *)
LEMMA KeysAre ==
    ASSUME NEW e, NEW k
    PROVE  {r[1] : r \in NodesOf(e, k)} = NodeKeys(e)
  <1>1. ASSUME NEW r \in NodesOf(e, k) PROVE r[1] \in NodeKeys(e)
    BY DEF NodesOf, NodeKeys
  <1>2. ASSUME NEW n \in NodeKeys(e) PROVE \E r \in NodesOf(e, k) : r[1] = n
    <2>1. <<Account(e), AccountProperties(e, k)>> \in NodesOf(e, k)
      BY DEF NodesOf
    <2>2. e.type # "account_created"
             => <<Item(e), [NoProperties EXCEPT !.attr = e.attr]>> \in NodesOf(e, k)
      BY DEF NodesOf
    <2>3. e.type = "order_placed"
             => <<Order(e), [NoProperties EXCEPT !.attr = e.total]>> \in NodesOf(e, k)
      BY DEF NodesOf
    <2> QED
      BY <2>1, <2>2, <2>3 DEF NodeKeys
  <1> QED
    BY <1>1, <1>2

(* A row names a key once and gives the three properties. *)
LEMMA RowsAre ==
    ASSUME NEW e, NEW k, NEW r \in NodesOf(e, k)
    PROVE  DOMAIN r[2] = DOMAIN NoProperties
  BY DEF NodesOf, AccountProperties, NoProperties

(* An edge carries the id and the times of its event. *)
LEMMA EdgesName ==
    ASSUME NEW e, NEW k, NEW x \in EdgesOf(e, k)
    PROVE  x.id = e.id /\ x.at = e.at /\ x.known = k
  BY DEF EdgesOf, Edge

(* No event writes two edges of one type. *)
LEMMA OneEdgeOfAType ==
    ASSUME NEW e, NEW k, NEW x \in EdgesOf(e, k), NEW y \in EdgesOf(e, k), x.type = y.type
    PROVE  x = y
  BY DEF EdgesOf, Edge

(* An edge ends at a node of its event; it starts at one too, or at the order   *)
(* of a promotion or of a refund.                                               *)
LEMMA EdgesEnd ==
    ASSUME NEW e, NEW k, NEW x \in EdgesOf(e, k)
    PROVE  /\ x.target \in NodeKeys(e) \ {Account(e)}
           /\ x.source \in NodeKeys(e) \/ (Dependent(e) /\ x.source = Order(e))
  BY DEF EdgesOf, Edge, NodeKeys, Dependent, Account, Order, Item, ItemLabel, IdentityEdge

(* Its type is one of the seven that the loader writes. *)
LEMMA EdgeHasType ==
    ASSUME NEW e, NEW k, NEW x \in EdgesOf(e, k)
    PROVE  x.type \in TypeSet
  <1>1. TypeSet = {"HAS_REFUND", "PAID_WITH", "PLACED", "SEEN_FROM",
                   "SHIPPED_TO", "USED_DEVICE", "USED_PROMO"}
    BY DEF TypeSet, Batches
  <1> QED
    BY <1>1 DEF EdgesOf, Edge, IdentityEdge

(* Two edges that a MERGE takes for one are of one event, and so are equal. *)
LEMMA NoCollision ==
    ASSUME NEW e \in Event \cup World, NEW f \in Event \cup World, NEW k, NEW l,
           e = f => k = l,
           NEW x \in EdgesOf(e, k), NEW y \in EdgesOf(f, l), SameMerge(x, y)
    PROVE  x = y
  <1>1. e.id = f.id
    BY EdgesName DEF SameMerge
  <1>2. e = f
    BY <1>1, GraphAssumption
  <1> QED
    BY <1>2, OneEdgeOfAType DEF SameMerge

(* The rows of a MERGE whose endpoints are there. *)
Matched(present, rows) == {r \in rows : r.source \in present /\ r.target \in present}

(* Without a collision a MERGE adds what it matches and keeps the rest. *)
LEMMA MergedEdges ==
    ASSUME NEW stored, NEW present, NEW rows,
           \A x \in stored, r \in rows : SameMerge(x, r) => x = r
    PROVE  MergeEdges(stored, present, rows) = stored \cup Matched(present, rows)
  BY DEF MergeEdges, Matched

(* A node holds the three properties of the model. *)
Whole(stored) == \A k \in DOMAIN stored : DOMAIN stored[k] = DOMAIN NoProperties

(* MERGE of nodes adds the keys of its rows, and keeps what is given. *)
LEMMA MergedNodes ==
    ASSUME NEW stored, NEW rows, Whole(stored)
    PROVE  /\ DOMAIN MergeNodes(stored, rows) = DOMAIN stored \cup {r[1] : r \in rows}
           /\ Whole(MergeNodes(stored, rows))
           /\ \A k \in DOMAIN stored : \A p \in DOMAIN NoProperties :
                stored[k][p] # None => MergeNodes(stored, rows)[k][p] # None
  <1> DEFINE M == MergeNodes(stored, rows)
             Old(k) == IF k \in DOMAIN stored THEN stored[k] ELSE NoProperties
             Row(k) == CHOOSE r \in rows : r[1] = k
             Is(k) == \E r \in rows : r[1] = k
  <1>1. M = [k \in DOMAIN stored \cup {r[1] : r \in rows} |->
               IF Is(k) THEN Overlay(Old(k), Row(k)[2]) ELSE Old(k)]
    BY DEF MergeNodes
  <1>2. ASSUME NEW k PROVE DOMAIN Old(k) = DOMAIN NoProperties
    BY DEF Whole
  <1>3. ASSUME NEW k \in DOMAIN M
        PROVE  M[k] = IF Is(k) THEN Overlay(Old(k), Row(k)[2]) ELSE Old(k)
    BY <1>1
  <1> HIDE DEF M, Old, Row, Is
  <1>4. ASSUME NEW k \in DOMAIN M PROVE DOMAIN M[k] = DOMAIN NoProperties
    BY <1>2, <1>3 DEF Overlay
  <1>5. ASSUME NEW k \in DOMAIN stored, NEW p \in DOMAIN NoProperties, stored[k][p] # None
        PROVE  M[k][p] # None
    <2>1. k \in DOMAIN M /\ Old(k) = stored[k]
      BY <1>1 DEF Old
    <2>2. CASE Is(k)
      BY <1>2, <1>3, <1>5, <2>1, <2>2 DEF Overlay
    <2>3. CASE ~Is(k)
      BY <1>3, <1>5, <2>1, <2>3
    <2> QED
      BY <2>2, <2>3
  <1>6. DOMAIN M = DOMAIN stored \cup {r[1] : r \in rows}
    BY <1>1
  <1> QED
    BY <1>4, <1>5, <1>6 DEF M, Whole

----------------------------------------------------------------------------
(* The inductive invariant. *)

(* Every edge is of a fact that the graph has heard of. *)
Sourced == \A x \in edges : \E e \in Facts : x \in EdgesOf(e, KnownOf(e))

(* No projected event is without its nodes, short of a reset. *)
Standing == ~cleared => \A e \in projected : NodeKeys(e) \subseteq DOMAIN nodes

(* A projected event has all its edges, or it is a dependent that found no     *)
(* order and has none.                                                         *)
FactsStay ==
    ~cleared => \A e \in projected :
        /\ e \notin early => EdgesOf(e, knownAt[e]) \subseteq edges
        /\ e \in early => Dependent(e) /\ EdgesOf(e, knownAt[e]) \cap edges = {}

(* What a batch of the loader leaves behind. *)
Done(i) ==
    /\ i <= 8 => \A k \in WorldKeys : k[1] = Batches[i] => k \in DOMAIN nodes
    /\ i > 8 => WorldEdges(Batches[i]) \subseteq edges

(* A load has begun, and the batches before the next one have left theirs. *)
Progress == batch > 0 => loaded # "no" /\ \A i \in 1 .. batch - 1 : Done(i)

(* The parts TLC checks (TypeOK, LoadedIsWhole, and OnlyEarlyDependentsAreLost   *)
(* in the form of FactsStay) and what makes them inductive: edges have a source  *)
(* among the facts, projected events keep their nodes, and the loader leaves     *)
(* each batch whole.                                                             *)
GraphInvariant ==
    /\ TypeOK
    /\ DOMAIN view = Reader
    /\ Whole(nodes)
    /\ Sourced
    /\ Standing
    /\ FactsStay
    /\ Progress
    /\ LoadedIsWhole

(* The empty graph satisfies it. *)
LEMMA InitInvariant == Init => GraphInvariant
  <1> SUFFICES ASSUME Init PROVE GraphInvariant
    OBVIOUS
  <1>1. TypeOK /\ DOMAIN view = Reader
    <2>1. knownAt \in [Event -> 0 .. MaxTime \cup {None}]
      BY DEF Init
    <2>2. clock \in 0 .. MaxTime /\ replays \in 0 .. MaxReplays /\ batch \in 0 .. Len(Batches)
      BY GraphAssumption, BatchesAre DEF Init
    <2>3. \A r \in Reader : view[r].stage \in {"idle", "nodes", "read"}
      BY DEF Init, Idle
    <2>4. DOMAIN nodes \subseteq Keys /\ edges = {} /\ projected = {}
      BY DEF Init, NoNodes
    <2>5. loaded = "no" /\ cleared \in BOOLEAN /\ DOMAIN view = Reader /\ early = {}
      BY DEF Init
    <2> QED
      BY <2>1, <2>2, <2>3, <2>4, <2>5 DEF TypeOK
  <1>2. Whole(nodes) /\ Sourced /\ Standing /\ Progress /\ LoadedIsWhole
    BY DEF Init, NoNodes, Whole, Sourced, Standing, Progress, LoadedIsWhole
  <1>3. FactsStay
    BY DEF Init, FactsStay
  <1> QED
    BY <1>1, <1>2, <1>3 DEF GraphInvariant

(* The keys that the world names, event by event. *)
LEMMA WorldKeysAre == WorldKeys = UNION {NodeKeys(e) : e \in World}
  <1>1. ASSUME NEW k \in WorldKeys PROVE \E e \in World : k \in NodeKeys(e)
    BY KeysAre DEF WorldKeys, WorldRows
  <1>2. ASSUME NEW e \in World, NEW k \in NodeKeys(e) PROVE k \in WorldKeys
    <2>1. PICK r \in NodesOf(e, e.at) : r[1] = k
      BY KeysAre
    <2> QED
      BY <2>1 DEF WorldKeys, WorldRows
  <1> QED
    BY <1>1, <1>2

(* The keys of the type invariant include those of every event. *)
LEMMA KeysHold ==
    /\ WorldKeys \subseteq Keys
    /\ \A e \in Event : NodeKeys(e) \subseteq Keys
  <1>1. WorldKeys \subseteq Keys
    BY DEF WorldKeys, Keys
  <1>2. ASSUME NEW e \in Event, NEW k \in NodeKeys(e) PROVE k \in Keys
    <2>1. PICK r \in NodesOf(e, 0) : r[1] = k
      BY KeysAre
    <2> QED
      BY <2>1 DEF Keys
  <1> QED
    BY <1>1, <1>2

(* What a projection writes, first or repeated. *)
LEMMA Projecting ==
    ASSUME GraphInvariant, NEW e \in Event, knownAt[e] # None, WriteProjection(e)
    PROVE  /\ DOMAIN nodes' = DOMAIN nodes \cup NodeKeys(e)
           /\ Whole(nodes')
           /\ edges' = edges \cup Matched(DOMAIN nodes', EdgesOf(e, knownAt[e]))
  <1> DEFINE rows == NodesOf(e, knownAt[e])
  <1>1. nodes' = MergeNodes(nodes, rows) /\ Whole(nodes)
    BY DEF WriteProjection, GraphInvariant
  <1>2. {r[1] : r \in rows} = NodeKeys(e)
    BY KeysAre
  <1> HIDE DEF rows
  <1>3. DOMAIN nodes' = DOMAIN nodes \cup NodeKeys(e) /\ Whole(nodes')
    BY <1>1, <1>2, MergedNodes
  <1>4. ASSUME NEW x \in edges, NEW r \in EdgesOf(e, knownAt[e]), SameMerge(x, r)
        PROVE  x = r
    <2>1. PICK f \in Event \cup World : x \in EdgesOf(f, KnownOf(f))
      BY DEF GraphInvariant, Sourced, Facts, TypeOK
    <2>2. f = e => KnownOf(f) = knownAt[e]
      BY GraphAssumption DEF KnownOf
    <2> QED
      BY <1>4, <2>1, <2>2, NoCollision
  <1>5. edges' = edges \cup Matched(DOMAIN nodes', EdgesOf(e, knownAt[e]))
    <2>1. edges' = MergeEdges(edges, DOMAIN nodes', EdgesOf(e, knownAt[e]))
      BY DEF WriteProjection
    <2> QED
      BY <1>4, <2>1, MergedEdges
  <1> QED
    BY <1>3, <1>5

(* What the loader's batch writes. *)
LEMMA Loading ==
    ASSUME GraphInvariant, LoadBatch
    PROVE  /\ DOMAIN nodes' = DOMAIN nodes \cup {k \in WorldKeys : k[1] = Batches[batch]}
           /\ Whole(nodes')
           /\ edges' = edges \cup Matched(DOMAIN nodes, WorldEdges(Batches[batch]))
  <1> DEFINE t == Batches[batch]
             rows == WorldNodes(t)
  <1>1. nodes' = MergeNodes(nodes, rows) /\ Whole(nodes)
    BY DEF LoadBatch, GraphInvariant
  <1>2. {r[1] : r \in rows} = {k \in WorldKeys : k[1] = t}
    <2>1. ASSUME NEW r \in rows PROVE r[1] \in WorldKeys /\ r[1][1] = t
      BY DEF WorldNodes
    <2>2. ASSUME NEW k \in WorldKeys, k[1] = t
          PROVE  <<k, [p \in DOMAIN NoProperties |-> WorldProperty(k, p)]>> \in rows
      BY <2>2 DEF WorldNodes
    <2> HIDE DEF rows, t
    <2>3. ASSUME NEW k \in WorldKeys, k[1] = t PROVE \E r \in rows : r[1] = k
      <3>1. <<k, [p \in DOMAIN NoProperties |-> WorldProperty(k, p)]>>[1] = k
        OBVIOUS
      <3> QED
        BY <2>2, <2>3, <3>1
    <2> QED
      BY <2>1, <2>3
  <1>3. DOMAIN nodes' = DOMAIN nodes \cup {k \in WorldKeys : k[1] = t} /\ Whole(nodes')
    <2> HIDE DEF rows, t
    <2> QED
      BY <1>1, <1>2, MergedNodes
  <1>4. ASSUME NEW x \in edges, NEW r \in WorldEdges(t), SameMerge(x, r)
        PROVE  x = r
    <2>1. PICK f \in Event \cup World : x \in EdgesOf(f, KnownOf(f))
      BY DEF GraphInvariant, Sourced, Facts, TypeOK
    <2>2. PICK e \in World : r \in EdgesOf(e, e.at)
      BY DEF WorldEdges
    <2>3. f = e => KnownOf(f) = e.at
      BY DEF KnownOf
    <2> QED
      BY <1>4, <2>1, <2>2, <2>3, NoCollision
  <1>5. edges' = edges \cup Matched(DOMAIN nodes, WorldEdges(t))
    <2>1. edges' = MergeEdges(edges, DOMAIN nodes, WorldEdges(t))
      BY DEF LoadBatch
    <2> HIDE DEF t
    <2> QED
      BY <1>4, <2>1, MergedEdges
  <1> QED
    BY <1>3, <1>5

----------------------------------------------------------------------------
(* Every step preserves the invariant. *)

(* A projection, first or repeated, preserves the parts about the graph. *)
LEMMA ProjectingPreserves ==
    ASSUME GraphInvariant, NEW e \in Event, knownAt[e] # None, WriteProjection(e),
           UNCHANGED <<clock, knownAt, batch, loaded, view, cleared>>,
           projected' = projected \cup {e}, replays' \in 0 .. MaxReplays
    PROVE  GraphInvariant'
  <1> DEFINE mine == EdgesOf(e, knownAt[e])
             lost == Dependent(e) /\ Order(e) \notin DOMAIN nodes'
  <1>1. /\ DOMAIN nodes' = DOMAIN nodes \cup NodeKeys(e)
        /\ Whole(nodes')
        /\ edges' = edges \cup Matched(DOMAIN nodes', mine)
    BY Projecting
  <1>2. early' = IF lost THEN early \cup {e} ELSE early \ {e}
    BY DEF WriteProjection
  <1>3. TypeOK'
    <2>1. DOMAIN nodes' \subseteq Keys
      BY <1>1, KeysHold DEF GraphInvariant, TypeOK
    <2>2. \A x \in edges' : x.source \in DOMAIN nodes' /\ x.target \in DOMAIN nodes'
      BY <1>1 DEF GraphInvariant, TypeOK, Matched
    <2>3. early' \subseteq projected'
      BY <1>2 DEF GraphInvariant, TypeOK
    <2> QED
      BY <2>1, <2>2, <2>3 DEF GraphInvariant, TypeOK
  <1>4. Whole(nodes)' /\ DOMAIN view' = Reader
    BY <1>1 DEF GraphInvariant, Whole
  <1>5. Sourced'
    <2> SUFFICES ASSUME NEW x \in edges'
                 PROVE  \E f \in Facts' : x \in EdgesOf(f, KnownOf(f)')
      BY DEF Sourced
    <2>1. CASE x \in edges
      BY <2>1 DEF GraphInvariant, Sourced, Facts, KnownOf
    <2>2. CASE x \in mine
      <3>1. KnownOf(e)' = knownAt[e] /\ e \in Facts'
        BY GraphAssumption DEF KnownOf, Facts
      <3> QED
        BY <2>2, <3>1
    <2> QED
      BY <1>1, <2>1, <2>2 DEF Matched
  <1>6. Standing'
    BY <1>1 DEF GraphInvariant, Standing
  <1>7. FactsStay'
    <2> SUFFICES ASSUME ~cleared, NEW f \in projected'
                 PROVE  /\ f \notin early' => EdgesOf(f, knownAt[f]) \subseteq edges'
                        /\ f \in early'
                             => Dependent(f) /\ EdgesOf(f, knownAt[f]) \cap edges' = {}
      BY DEF FactsStay
    <2>1. CASE f # e
      <3>1. f \in projected /\ (f \in early' <=> f \in early)
        BY <1>2, <2>1
      <3>2. f \in Event /\ f.id # e.id
        BY <2>1, <3>1, GraphAssumption DEF GraphInvariant, TypeOK
      <3>3. EdgesOf(f, knownAt[f]) \cap mine = {}
        BY <3>2, EdgesName
      <3> QED
        BY <1>1, <3>1, <3>3 DEF GraphInvariant, FactsStay, Matched
    <2>2. CASE f = e /\ ~lost
      <3>1. ASSUME NEW x \in mine PROVE x.source \in DOMAIN nodes' /\ x.target \in DOMAIN nodes'
        BY <1>1, <2>2, EdgesEnd
      <3> QED
        BY <1>1, <1>2, <2>2, <3>1 DEF Matched
    <2>3. CASE f = e /\ lost
      <3>1. ASSUME NEW x \in mine PROVE x.source = Order(e)
        BY <2>3 DEF EdgesOf, Edge, Dependent, IdentityEdge
      <3>2. \A x \in mine : x \notin edges
        BY <1>1, <2>3, <3>1 DEF GraphInvariant, TypeOK
      <3>3. \A x \in mine : x \notin edges'
        BY <1>1, <2>3, <3>1, <3>2 DEF Matched
      <3> QED
        BY <1>2, <2>3, <3>3
    <2> QED
      BY <2>1, <2>2, <2>3
  <1>8. Progress'
    BY <1>1 DEF GraphInvariant, Progress, Done
  <1>9. LoadedIsWhole'
    BY <1>1 DEF GraphInvariant, LoadedIsWhole
  <1> QED
    BY <1>3, <1>4, <1>5, <1>6, <1>7, <1>8, <1>9 DEF GraphInvariant

(* A step that leaves the graph and its facts alone, or begins a load. *)
LEMMA AloneKeeps ==
    ASSUME GraphInvariant, TypeOK', DOMAIN view' = Reader, Progress',
           UNCHANGED <<knownAt, projected, nodes, edges, early, cleared>>,
           loaded' = loaded \/ (loaded = "no" /\ loaded' = "begun")
    PROVE  GraphInvariant'
  <1>1. Sourced' /\ Standing' /\ FactsStay'
    BY DEF GraphInvariant, Sourced, Facts, KnownOf, Standing, FactsStay
  <1>2. LoadedIsWhole'
    BY DEF GraphInvariant, LoadedIsWhole
  <1>3. Whole(nodes)'
    BY DEF GraphInvariant, Whole
  <1> QED
    BY <1>1, <1>2, <1>3 DEF GraphInvariant

(* A receipt gives an event its time. *)
LEMMA ReceivePreserves ==
    ASSUME GraphInvariant, NEW e \in Event, Receive(e)
    PROVE  GraphInvariant'
  <1>1. /\ \A f \in Event : f # e => knownAt'[f] = knownAt[f]
        /\ knownAt'[e] = clock /\ knownAt' \in [Event -> 0 .. MaxTime \cup {None}]
        /\ knownAt[e] = None /\ clock # None
        /\ UNCHANGED <<clock, projected, replays, nodes, edges, batch, loaded, view, early,
                       cleared>>
    BY GraphAssumption DEF Receive, GraphInvariant, TypeOK
  <1>2. e \notin projected /\ e \notin World
    BY <1>1, GraphAssumption DEF GraphInvariant, TypeOK
  <1>3. TypeOK' /\ DOMAIN view' = Reader
    BY <1>1 DEF GraphInvariant, TypeOK
  <1>4. Whole(nodes)' /\ Standing' /\ LoadedIsWhole'
    BY <1>1 DEF GraphInvariant, Whole, Standing, LoadedIsWhole
  <1>5. Progress'
    BY <1>1 DEF GraphInvariant, Progress, Done
  <1>6. Facts' = Facts /\ \A f \in Facts : f \in World \/ (f \in Event /\ f # e)
    BY <1>1, <1>2 DEF Facts, GraphInvariant, TypeOK
  <1>7. Sourced'
    BY <1>1, <1>6 DEF GraphInvariant, Sourced, KnownOf
  <1>8. FactsStay'
    <2>1. \A f \in projected : knownAt'[f] = knownAt[f]
      BY <1>1, <1>2 DEF GraphInvariant, TypeOK
    <2> QED
      BY <1>1, <2>1 DEF GraphInvariant, FactsStay
  <1> QED
    BY <1>3, <1>4, <1>5, <1>7, <1>8 DEF GraphInvariant

(* The endpoints of the world's edges are nodes of the world. *)
LEMMA WorldEdgesEnd ==
    ASSUME NEW t, NEW x \in WorldEdges(t)
    PROVE  x.source \in WorldKeys /\ x.target \in WorldKeys
  <1>1. PICK e \in World : x \in EdgesOf(e, e.at)
    BY DEF WorldEdges
  <1>2. x.target \in WorldKeys
    BY <1>1, EdgesEnd, WorldKeysAre
  <1>3. CASE x.source \in NodeKeys(e)
    BY <1>1, <1>2, <1>3, WorldKeysAre
  <1>4. CASE Dependent(e) /\ x.source = Order(e)
    <2>1. PICK o \in World : o.type = "order_placed" /\ o.order = e.order
      BY <1>1, <1>4, EventAssumption
    <2>2. Order(e) \in NodeKeys(o)
      BY <2>1 DEF NodeKeys, Order
    <2> QED
      BY <1>2, <1>4, <2>1, <2>2, WorldKeysAre
  <1> QED
    BY <1>1, <1>3, <1>4, EdgesEnd

(* Every key of the world has a label that some batch loads. *)
LEMMA WorldKeysLabelled ==
    ASSUME NEW k \in WorldKeys
    PROVE  \E i \in 1 .. 8 : Batches[i] = k[1]
  <1>1. PICK e \in World : k \in NodeKeys(e)
    BY WorldKeysAre
  <1>2. e.type \in DOMAIN ItemLabel \cup {"account_created"}
    BY <1>1, EventAssumption
  <1>3. k[1] \in LabelSet
    BY <1>1, <1>2 DEF NodeKeys, Account, Order, Item, ItemLabel, LabelSet, Batches
  <1> QED
    BY <1>3 DEF LabelSet

(* A batch of the loader leaves what Progress says of it. *)
LEMMA LoadBatchPreserves ==
    ASSUME GraphInvariant, LoadBatch
    PROVE  GraphInvariant'
  <1> DEFINE t == Batches[batch]
             end == IF batch = 15 THEN 0 ELSE batch + 1
  <1>1. /\ DOMAIN nodes' = DOMAIN nodes \cup {k \in WorldKeys : k[1] = t}
        /\ Whole(nodes')
        /\ edges' = edges \cup Matched(DOMAIN nodes, WorldEdges(t))
    BY Loading
  <1>2. /\ batch \in 1 .. 15 /\ batch' = end
        /\ loaded' = IF batch = 15 THEN "whole" ELSE loaded
        /\ UNCHANGED <<clock, knownAt, projected, replays, view, early, cleared>>
    <2>1. batch \in 1 .. 15
      BY BatchesAre DEF LoadBatch, GraphInvariant, TypeOK
    <2>2. (batch + 1) % 16 = end
      BY <2>1
    <2> QED
      BY <2>1, <2>2, BatchesAre DEF LoadBatch
  <1> HIDE DEF t
  <1>3. TypeOK'
    <2>1. DOMAIN nodes' \subseteq Keys
      BY <1>1, KeysHold DEF GraphInvariant, TypeOK
    <2>2. \A x \in edges' : x.source \in DOMAIN nodes' /\ x.target \in DOMAIN nodes'
      BY <1>1 DEF GraphInvariant, TypeOK, Matched
    <2>3. batch' \in 0 .. Len(Batches)
      BY <1>2, BatchesAre
    <2>4. loaded' \in {"no", "begun", "whole"}
      BY <1>2 DEF GraphInvariant, TypeOK
    <2> QED
      BY <1>2, <2>1, <2>2, <2>3, <2>4 DEF GraphInvariant, TypeOK
  <1>4. Whole(nodes)' /\ DOMAIN view' = Reader
    BY <1>1, <1>2 DEF GraphInvariant, Whole
  <1>5. Sourced'
    <2>1. loaded # "no" /\ loaded' # "no"
      BY <1>2 DEF GraphInvariant, Progress
    <2>2. Facts = projected \cup World /\ Facts' = projected \cup World
      BY <1>2, <2>1 DEF Facts
    <2> SUFFICES ASSUME NEW x \in edges'
                 PROVE  \E f \in Facts' : x \in EdgesOf(f, KnownOf(f)')
      BY DEF Sourced
    <2>3. CASE x \in edges
      BY <1>2, <2>2, <2>3 DEF GraphInvariant, Sourced, KnownOf
    <2>4. CASE x \in WorldEdges(t)
      <3>1. PICK e \in World : x \in EdgesOf(e, e.at)
        BY <2>4 DEF WorldEdges
      <3> QED
        BY <2>2, <3>1 DEF KnownOf
    <2> QED
      BY <1>1, <2>3, <2>4 DEF Matched
  <1>6. Standing'
    BY <1>1, <1>2 DEF GraphInvariant, Standing
  <1>7. FactsStay'
    <2>1. ASSUME NEW f \in projected, NEW x \in EdgesOf(f, knownAt[f]), x \in WorldEdges(t)
          PROVE  FALSE
      <3>1. PICK e \in World : x \in EdgesOf(e, e.at)
        BY <2>1 DEF WorldEdges
      <3>2. f \in Event /\ x.id = f.id /\ x.id = e.id
        BY <3>1, EdgesName DEF GraphInvariant, TypeOK
      <3> QED
        BY <3>1, <3>2, GraphAssumption
    <2> QED
      BY <1>1, <1>2, <2>1 DEF GraphInvariant, FactsStay, Matched
  <1>8. \A i \in 1 .. batch : Done(i)'
    <2> SUFFICES ASSUME NEW i \in 1 .. batch PROVE Done(i)'
      OBVIOUS
    <2>1. CASE i < batch
      <3>1. Done(i)
        BY <1>2, <2>1 DEF GraphInvariant, Progress
      <3> QED
        BY <1>1, <3>1 DEF Done
    <2>2. CASE i = batch /\ batch <= 8
      BY <1>1, <1>2, <2>2 DEF Done, t
    <2>3. CASE i = batch /\ batch > 8
      <3>1. ASSUME NEW j \in 1 .. 8 PROVE Done(j)
        BY <1>2, <2>3 DEF GraphInvariant, Progress
      <3>2. WorldKeys \subseteq DOMAIN nodes
        BY <3>1, WorldKeysLabelled DEF Done
      <3>3. WorldEdges(t) \subseteq edges'
        BY <1>1, <3>2, WorldEdgesEnd DEF Matched
      <3> QED
        BY <1>2, <2>3, <3>3 DEF Done, t
    <2> QED
      BY <1>2, <2>1, <2>2, <2>3
  <1>9. Progress'
    BY <1>2, <1>8 DEF GraphInvariant, Progress
  <1>10. LoadedIsWhole'
    <2>1. CASE loaded = "whole"
      BY <1>1, <1>2, <2>1 DEF GraphInvariant, LoadedIsWhole
    <2>2. CASE batch = 15
      <3>1. WorldKeys \subseteq DOMAIN nodes'
        BY <1>8, <2>2, WorldKeysLabelled DEF Done
      <3>2. ASSUME NEW e \in World, NEW x \in EdgesOf(e, e.at) PROVE x \in edges'
        <4>1. PICK i \in 9 .. 15 : Batches[i] = x.type
          <5>1. x.type \in TypeSet
            BY EdgeHasType
          <5> QED
            BY <5>1 DEF TypeSet
        <4>2. x \in WorldEdges(Batches[i])
          BY <4>1 DEF WorldEdges
        <4> QED
          BY <1>8, <2>2, <4>1, <4>2 DEF Done
      <3> QED
        BY <3>1, <3>2 DEF LoadedIsWhole
    <2>3. CASE loaded # "whole" /\ batch # 15
      BY <1>2, <2>3 DEF LoadedIsWhole
    <2> QED
      BY <2>1, <2>2, <2>3
  <1> QED
    BY <1>3, <1>4, <1>5, <1>6, <1>7, <1>9, <1>10 DEF GraphInvariant

(* A reset empties the graph while no loader runs. *)
LEMMA ClearPreserves ==
    ASSUME GraphInvariant, Clear
    PROVE  GraphInvariant'
  <1>1. TypeOK' /\ DOMAIN view' = Reader
    BY DEF Clear, NoNodes, GraphInvariant, TypeOK
  <1>2. Whole(nodes)' /\ Sourced' /\ Standing' /\ Progress' /\ LoadedIsWhole'
    BY DEF Clear, NoNodes, Whole, Sourced, Standing, Progress, LoadedIsWhole
  <1>3. FactsStay'
    BY DEF Clear, FactsStay
  <1> QED
    BY <1>1, <1>2, <1>3 DEF GraphInvariant

(* So does every step of the system. *)
LEMMA NextPreserves == GraphInvariant /\ [Next]_vars => GraphInvariant'
  <1> SUFFICES ASSUME GraphInvariant, [Next]_vars PROVE GraphInvariant'
    OBVIOUS
  <1>1. ASSUME UNCHANGED vars PROVE GraphInvariant'
    <2>1. TypeOK' /\ DOMAIN view' = Reader /\ Progress'
      BY <1>1 DEF vars, GraphInvariant, TypeOK, Progress, Done
    <2> QED
      BY <1>1, <2>1, AloneKeeps DEF vars
  <1>2. ASSUME Tick PROVE GraphInvariant'
    <2>1. TypeOK' /\ DOMAIN view' = Reader /\ Progress'
      BY <1>2, GraphAssumption DEF Tick, GraphInvariant, TypeOK, Progress, Done
    <2> QED
      BY <1>2, <2>1, AloneKeeps DEF Tick
  <1>3. ASSUME NEW e \in Event, Receive(e) PROVE GraphInvariant'
    BY <1>3, ReceivePreserves
  <1>4. ASSUME NEW e \in Event, Project(e) PROVE GraphInvariant'
    <2>1. replays' \in 0 .. MaxReplays
      BY <1>4 DEF Project, GraphInvariant, TypeOK
    <2> QED
      BY <1>4, <2>1, ProjectingPreserves DEF Project
  <1>5. ASSUME NEW e \in Event, Replay(e) PROVE GraphInvariant'
    <2>1. replays' \in 0 .. MaxReplays
      BY <1>5, GraphAssumption DEF Replay, GraphInvariant, TypeOK
    <2>2. knownAt[e] # None /\ projected' = projected \cup {e}
      BY <1>5 DEF Replay, GraphInvariant, TypeOK
    <2> QED
      BY <1>5, <2>1, <2>2, ProjectingPreserves DEF Replay
  <1>6. ASSUME StartLoad PROVE GraphInvariant'
    <2>1. TypeOK' /\ DOMAIN view' = Reader /\ Progress'
      BY <1>6, BatchesAre DEF StartLoad, GraphInvariant, TypeOK, Progress
    <2> QED
      BY <1>6, <2>1, AloneKeeps DEF StartLoad
  <1>7. ASSUME LoadBatch PROVE GraphInvariant'
    BY <1>7, LoadBatchPreserves
  <1>8. ASSUME LoadFails PROVE GraphInvariant'
    <2>1. TypeOK' /\ DOMAIN view' = Reader /\ Progress'
      BY <1>8, BatchesAre DEF LoadFails, GraphInvariant, TypeOK, Progress
    <2> QED
      BY <1>8, <2>1, AloneKeeps DEF LoadFails
  <1>9. ASSUME Clear PROVE GraphInvariant'
    BY <1>9, ClearPreserves
  <1>10. ASSUME NEW r \in Reader, ReadEdges(r) \/ Forget(r) \/ \E e \in Event : ReadNodes(r, e)
         PROVE  GraphInvariant'
    <2>1. /\ view' \in {[view EXCEPT ![r] = s] :
                   s \in {view'[r]}} /\ view'[r].stage \in {"idle", "nodes", "read"}
          /\ UNCHANGED <<clock, knownAt, projected, replays, nodes, edges, batch, loaded, early,
                         cleared>>
      BY <1>10 DEF ReadEdges, Forget, ReadNodes, Idle, GraphInvariant
    <2>2. TypeOK' /\ DOMAIN view' = Reader /\ Progress'
      BY <2>1 DEF GraphInvariant, TypeOK, Progress, Done
    <2> QED
      BY <2>1, <2>2, AloneKeeps
  <1> QED
    BY <1>1, <1>2, <1>3, <1>4, <1>5, <1>6, <1>7, <1>8, <1>9, <1>10 DEF Next

----------------------------------------------------------------------------
(* The properties of the runs. *)

(* The invariant of load_incremental, the batch loader, the reset and the view.  *)
THEOREM InvariantHolds == Spec => []GraphInvariant
  BY InitInvariant, NextPreserves, PTL DEF Spec

(* Every variable keeps its type, and the graph holds nodes of known events only. *)
THEOREM TypeCorrect == Spec => []TypeOK
  <1>1. GraphInvariant => TypeOK
    BY DEF GraphInvariant
  <1> QED
    BY <1>1, InvariantHolds, PTL

(* A load that ran to its end has every node and edge of the offline world:       *)
(* labels go before relationships, so every MATCH of a batch finds its ends.       *)
THEOREM LoadedHolds == Spec => []LoadedIsWhole
  <1>1. GraphInvariant => LoadedIsWhole
    BY DEF GraphInvariant
  <1> QED
    BY <1>1, InvariantHolds, PTL

(* Short of a reset, the projected facts that the graph is without are exactly   *)
(* the dependents whose last projection found no order, whatever was projected,   *)
(* replayed or loaded in between.                                                 *)
THEOREM FactsHold == Spec => []OnlyEarlyDependentsAreLost
  <1>1. ASSUME NEW e, Dependent(e) PROVE EdgesOf(e, knownAt[e]) # {}
    BY <1>1 DEF EdgesOf, Dependent
  <1>2. GraphInvariant => OnlyEarlyDependentsAreLost
    BY <1>1 DEF GraphInvariant, FactsStay, TypeOK, OnlyEarlyDependentsAreLost
  <1> QED
    BY <1>2, InvariantHolds, PTL

(* What one step may do to the properties of a node. *)
Remembered ==
    \A k \in DOMAIN nodes : nodes' # NoNodes =>
         /\ k \in DOMAIN nodes'
         /\ \A p \in DOMAIN NoProperties : nodes[k][p] # None => nodes'[k][p] # None

(* MERGE remembers: no write drops a node or an attribute that was given. *)
LEMMA WritesRemember ==
    ASSUME GraphInvariant, NEW rows, nodes' = MergeNodes(nodes, rows)
    PROVE  Remembered
  <1>1. Whole(nodes)
    BY DEF GraphInvariant
  <1>2. /\ DOMAIN nodes' = DOMAIN nodes \cup {r[1] : r \in rows}
        /\ \A k \in DOMAIN nodes : \A p \in DOMAIN NoProperties :
             nodes[k][p] # None => nodes'[k][p] # None
    <2> DEFINE M == MergeNodes(nodes, rows)
    <2>1. /\ DOMAIN M = DOMAIN nodes \cup {r[1] : r \in rows}
          /\ \A k \in DOMAIN nodes : \A p \in DOMAIN NoProperties :
               nodes[k][p] # None => M[k][p] # None
      BY <1>1, MergedNodes
    <2>2. nodes' = M
      OBVIOUS
    <2> HIDE DEF M
    <2> QED
      BY <2>1, <2>2
  <1> QED
    BY <1>2 DEF Remembered

(* No step but a reset loses a node, or a property of one: MERGE and SET += add. *)
THEOREM RemembranceHolds == Spec => NothingIsForgotten
  <1>1. GraphInvariant /\ [Next]_vars => [Remembered]_vars
    <2> SUFFICES ASSUME GraphInvariant, Next PROVE Remembered
      OBVIOUS
    <2>1. ASSUME NEW e \in Event, WriteProjection(e) PROVE Remembered
      BY <2>1, WritesRemember DEF WriteProjection
    <2>2. ASSUME LoadBatch PROVE Remembered
      BY <2>2, WritesRemember DEF LoadBatch
    <2>3. ASSUME nodes' = nodes PROVE Remembered
      BY <2>3 DEF Remembered
    <2>4. ASSUME nodes' = NoNodes PROVE Remembered
      BY <2>4 DEF Remembered
    <2> QED
      BY <2>1, <2>2, <2>3, <2>4 DEF Next, Tick, Receive, Project, Replay, StartLoad, LoadFails,
         Clear, ReadEdges, Forget, ReadNodes
  <1> QED
    BY <1>1, InvariantHolds, PTL DEF Spec, NothingIsForgotten, Remembered

----------------------------------------------------------------------------
(* What a node and a view know of the creation of an account. *)

(* The creation that k has in stored is that of one of the facts. *)
Stated(stored, k, facts) ==
    \/ \E e \in facts : /\ Creates(e, k)
                        /\ stored[k].created = e.at
                        /\ stored[k].createdKnown = KnownOf(e)
    \/ stored[k].created = None /\ stored[k].createdKnown = None

(* Every node has the creation of a fact or none, and a projected creation, or   *)
(* one of a world whose accounts are loaded, is not missed.                      *)
NodesKnow ==
    /\ \A k \in DOMAIN nodes : Stated(nodes, k, Facts)
    /\ ~cleared => \A e \in projected, k \in DOMAIN nodes :
           Creates(e, k) => nodes[k].created # None
    /\ batch > 1 \/ loaded = "whole" => \A e \in World, k \in DOMAIN nodes :
           Creates(e, k) => nodes[k].created # None

(* The facts of the graph that had occurred and were known by c. *)
Timely(c) == {e \in Facts : e.at <= c /\ KnownOf(e) <= c}

(* What the first query has read, and what the graph keeps for the second. *)
NodesAreDue(r) ==
    /\ view[r].of \in projected
    /\ view[r].after \subseteq Facts
    /\ \A k \in DOMAIN view[r].nodes : Stated(view[r].nodes, k, Timely(Cutoff(r)))
    /\ \A e \in view[r].after : /\ NodeKeys(e) \ {Account(e)} \subseteq DOMAIN view[r].nodes
                                /\ EdgesOf(e, KnownOf(e)) \subseteq edges
    /\ \A e \in view[r].after \cap Timely(Cutoff(r)), k \in Keys : Creates(e, k) =>
          \/ k \in DOMAIN view[r].nodes /\ view[r].nodes[k].created # None
          \/ \E g \in Facts : g # e /\ Creates(g, k)

(* What the second has. *)
EdgesAreDue(r) ==
    /\ view[r].edges \subseteq KnownEdges(edges, Cutoff(r))
    /\ \A e \in view[r].after \cap Timely(Cutoff(r)) : EdgesOf(e, KnownOf(e)) \subseteq view[r].edges

(* What makes DecisionIgnoresTheFuture inductive: nodes are known well enough    *)
(* for the next reader and, short of a reset, each reader holds what it is due.  *)
ViewInvariant ==
    /\ NodesKnow
    /\ ~cleared => \A r \in Reader : /\ view[r].stage # "idle" => NodesAreDue(r)
                                     /\ view[r].stage = "read" => EdgesAreDue(r)

(* The times of a fact are not None. *)
LEMMA FactsHaveTimes ==
    ASSUME GraphInvariant, NEW e \in Facts
    PROVE  /\ e \in Event \cup World /\ e.at # None /\ KnownOf(e) # None
           /\ e.at \in 0 .. MaxTime /\ KnownOf(e) \in 0 .. MaxTime
  BY GraphAssumption DEF Facts, KnownOf, GraphInvariant, TypeOK

(* A fact is timely exactly if it is among those known by the cutoff. *)
LEMMA TimelyIsKnown ==
    ASSUME GraphInvariant, NEW c
    PROVE  Timely(c) = FactsKnownBy(c) \cap Facts
  BY GraphAssumption DEF Timely, FactsKnownBy, Facts, KnownOf, GraphInvariant, TypeOK

(* What one row of an event says of the creation of a key. *)
LEMMA RowsKnow ==
    ASSUME NEW e, NEW known, NEW r \in NodesOf(e, known)
    PROVE  /\ Creates(e, r[1]) => r[2].created = e.at /\ r[2].createdKnown = known
           /\ ~Creates(e, r[1]) => r[2].created = None /\ r[2].createdKnown = None
  BY DEF NodesOf, Creates, AccountProperties, NoProperties

(* The row of an account that its creation writes. *)
LEMMA CreationHasRow ==
    ASSUME NEW e, NEW known, NEW k, Creates(e, k)
    PROVE  \E r \in NodesOf(e, known) : r[1] = k
  <1>1. <<Account(e), AccountProperties(e, known)>> \in NodesOf(e, known)
    BY DEF NodesOf
  <1> QED
    BY <1>1 DEF Creates

(* A MERGE leaves to each node the creation of a fact, if its rows have one.  *)
LEMMA MergedStated ==
    ASSUME NEW stored, NEW rows, NEW facts, Whole(stored),
           \A e \in facts : e.at # None /\ KnownOf(e) # None,
           \A k \in DOMAIN stored : Stated(stored, k, facts),
           \A r \in rows : \/ \E e \in facts : /\ Creates(e, r[1])
                                               /\ r[2].created = e.at
                                               /\ r[2].createdKnown = KnownOf(e)
                           \/ r[2].created = None /\ r[2].createdKnown = None,
           NEW k \in DOMAIN MergeNodes(stored, rows)
    PROVE  /\ Stated(MergeNodes(stored, rows), k, facts)
           /\ (\E r \in rows : r[1] = k) /\ (\A r \in rows : r[1] = k => r[2].created # None)
                => MergeNodes(stored, rows)[k].created # None
  <1> DEFINE M == MergeNodes(stored, rows)
             Old == IF k \in DOMAIN stored THEN stored[k] ELSE NoProperties
             Row == CHOOSE r \in rows : r[1] = k
             Is == \E r \in rows : r[1] = k
  <1>1. M[k] = IF Is THEN Overlay(Old, Row[2]) ELSE Old
    BY DEF MergeNodes
  <1>2. DOMAIN Old = {"created", "createdKnown", "attr"}
    BY DEF Whole, NoProperties
  <1>3. Is => Row \in rows /\ Row[1] = k
    OBVIOUS
  <1>4. \/ \E e \in facts : /\ Creates(e, k) /\ Old.created = e.at
                            /\ Old.createdKnown = KnownOf(e)
        \/ Old.created = None /\ Old.createdKnown = None
    <2>1. CASE k \in DOMAIN stored
      BY <2>1 DEF Stated
    <2>2. CASE k \notin DOMAIN stored
      BY <2>2 DEF NoProperties
    <2> QED
      BY <2>1, <2>2
  <1>5. Is => \/ \E e \in facts : /\ Creates(e, k) /\ Row[2].created = e.at
                                  /\ Row[2].createdKnown = KnownOf(e)
              \/ Row[2].created = None /\ Row[2].createdKnown = None
    BY <1>3
  <1> HIDE DEF M, Old, Row, Is
  <1>6. Is => /\ M[k].created = IF Row[2].created = None THEN Old.created ELSE Row[2].created
              /\ M[k].createdKnown = IF Row[2].createdKnown = None THEN Old.createdKnown
                                     ELSE Row[2].createdKnown
    BY <1>1, <1>2 DEF Overlay
  <1>7. Stated(M, k, facts)
    <2>1. CASE ~Is
      BY <1>1, <1>4, <2>1 DEF Stated
    <2>2. CASE Is /\ Row[2].created = None /\ Row[2].createdKnown = None
      BY <1>4, <1>6, <2>2 DEF Stated
    <2>3. CASE Is /\ \E e \in facts : /\ Creates(e, k) /\ Row[2].created = e.at
                                      /\ Row[2].createdKnown = KnownOf(e)
      <3>1. PICK e \in facts : /\ Creates(e, k) /\ Row[2].created = e.at
                               /\ Row[2].createdKnown = KnownOf(e)
        BY <2>3
      <3>2. M[k].created = e.at /\ M[k].createdKnown = KnownOf(e)
        BY <1>6, <2>3, <3>1
      <3> QED
        BY <3>1, <3>2 DEF Stated
    <2> QED
      BY <1>5, <2>1, <2>2, <2>3
  <1>8. ASSUME Is, \A r \in rows : r[1] = k => r[2].created # None
        PROVE  M[k].created # None
    BY <1>3, <1>6, <1>8
  <1> QED
    BY <1>7, <1>8 DEF M, Is

(* What the world's tables say of the creation of an account. *)
LEMMA WorldStates ==
    ASSUME NEW k
    PROVE  \/ \E g \in World : /\ Creates(g, k) /\ WorldProperty(k, "created") = g.at
                               /\ WorldProperty(k, "createdKnown") = g.at
           \/ /\ WorldProperty(k, "created") = None /\ WorldProperty(k, "createdKnown") = None
              /\ \A g \in World : ~Creates(g, k)
  <1> DEFINE given(p) == {r \in WorldRows : r[1] = k /\ r[2][p] # None}
  <1>1. \A p : WorldProperty(k, p) = IF given(p) = {} THEN None
                                     ELSE (CHOOSE r \in given(p) : TRUE)[2][p]
    BY DEF WorldProperty
  <1>2. ASSUME NEW r \in WorldRows, r[1] = k
        PROVE  \/ \E g \in World : /\ Creates(g, k) /\ r[2]["created"] = g.at
                                   /\ r[2]["createdKnown"] = g.at /\ g.at # None
               \/ r[2]["created"] = None /\ r[2]["createdKnown"] = None
    <2>1. PICK g \in World : r \in NodesOf(g, g.at)
      BY DEF WorldRows
    <2>2. g.at # None
      BY GraphAssumption
    <2> QED
      BY <1>2, <2>1, <2>2, RowsKnow
  <1>3. given("created") = given("createdKnown")
    BY <1>2
  <1>4. ASSUME NEW g \in World, Creates(g, k) PROVE given("created") # {}
    <2>1. PICK r \in NodesOf(g, g.at) : r[1] = k
      BY <1>4, CreationHasRow
    <2>2. r \in WorldRows /\ r[2]["created"] = g.at /\ g.at # None
      BY <1>4, <2>1, RowsKnow, GraphAssumption DEF WorldRows
    <2> QED
      BY <2>1, <2>2
  <1>5. CASE given("created") = {}
    BY <1>1, <1>3, <1>4, <1>5
  <1>6. CASE given("created") # {}
    <2> DEFINE r == CHOOSE r \in given("created") : TRUE
    <2>1. r \in given("created")
      BY <1>6
    <2>2. WorldProperty(k, "created") = r[2]["created"]
          /\ WorldProperty(k, "createdKnown") = r[2]["createdKnown"]
      BY <1>1, <1>3, <1>6
    <2>3. r \in WorldRows /\ r[1] = k /\ r[2]["created"] # None
      BY <2>1
    <2> HIDE DEF r
    <2> QED
      BY <1>2, <2>2, <2>3
  <1> QED
    BY <1>5, <1>6

(* What the loader writes of a creation. *)
LEMMA WorldNodesState ==
    ASSUME NEW t, NEW r \in WorldNodes(t)
    PROVE  /\ \/ \E g \in World : Creates(g, r[1]) /\ r[2].created = g.at
                                     /\ r[2].createdKnown = KnownOf(g)
              \/ r[2].created = None /\ r[2].createdKnown = None
           /\ \A g \in World : Creates(g, r[1]) => r[2].created # None
  <1>1. PICK k \in WorldKeys :
          r = <<k, [p \in DOMAIN NoProperties |-> WorldProperty(k, p)]>>
    BY DEF WorldNodes
  <1>2. /\ r[1] = k /\ r[2].created = WorldProperty(k, "created")
        /\ r[2].createdKnown = WorldProperty(k, "createdKnown")
    BY <1>1 DEF NoProperties
  <1>3. \A g \in World : KnownOf(g) = g.at /\ g.at # None
    BY GraphAssumption DEF KnownOf
  <1> QED
    BY <1>2, <1>3, WorldStates

(* No reader has read, and there are no nodes. *)
LEMMA ViewsStart == Init => ViewInvariant
  BY DEF Init, Idle, ViewInvariant, NodesKnow, NoNodes

(* Facts are not forgotten and keep their times; edges stay until a reset.  *)
LEMMA FactsGrow ==
    ASSUME GraphInvariant, [Next]_vars, ~cleared'
    PROVE  /\ ~cleared /\ projected \subseteq projected' /\ Facts \subseteq Facts'
           /\ edges \subseteq edges'
           /\ \A e \in Facts : KnownOf(e)' = KnownOf(e)
           /\ \A e \in projected : knownAt'[e] = knownAt[e]
  <1>1. \A e \in projected : e \in Event /\ knownAt[e] # None
    BY DEF GraphInvariant, TypeOK
  <1>2. ASSUME NEW e \in Event, knownAt[e] # None, WriteProjection(e) PROVE edges \subseteq edges'
    BY <1>2, Projecting
  <1>3. ASSUME LoadBatch PROVE edges \subseteq edges'
    BY <1>3, Loading
  <1>4. CASE \E e \in Event : Receive(e)
    BY <1>1, <1>4 DEF Receive, Facts, KnownOf, GraphInvariant, TypeOK
  <1>5. CASE \E e \in Event : Project(e)
    BY <1>1, <1>2, <1>5 DEF Project, Facts, KnownOf
  <1>6. CASE \E e \in Event : Replay(e)
    BY <1>1, <1>2, <1>6 DEF Replay, Facts, KnownOf
  <1>7. CASE LoadBatch
    BY <1>3, <1>7 DEF LoadBatch, Facts, KnownOf
  <1>8. CASE StartLoad
    BY <1>8 DEF StartLoad, Facts, KnownOf
  <1>9. CASE \/ Tick \/ LoadFails \/ UNCHANGED vars
             \/ \E r \in Reader : ReadEdges(r) \/ Forget(r) \/ \E e \in Event : ReadNodes(r, e)
    BY <1>9 DEF Tick, LoadFails, ReadEdges, Forget, ReadNodes, vars, Facts, KnownOf
  <1>10. ~Clear
    BY DEF Clear
  <1> QED
    BY <1>4, <1>5, <1>6, <1>7, <1>8, <1>9, <1>10 DEF Next

(* A projection keeps what the nodes know, and adds the creation it is about. *)
LEMMA WritesKnow ==
    ASSUME GraphInvariant, NodesKnow, NEW e \in Event, knownAt[e] # None,
           WriteProjection(e), UNCHANGED <<knownAt, batch, loaded, cleared>>,
           projected' = projected \cup {e}
    PROVE  NodesKnow'
  <1> DEFINE rows == NodesOf(e, knownAt[e])
             later == projected \cup {e} \cup (IF loaded = "no" THEN {} ELSE World)
  <1>1. nodes' = MergeNodes(nodes, rows) /\ Whole(nodes)
    BY DEF WriteProjection, GraphInvariant
  <1>2. Facts' = later /\ Facts \subseteq later /\ e \in later
    BY DEF Facts
  <1>3. \A f \in later : f.at # None /\ KnownOf(f) # None
    BY FactsHaveTimes, GraphAssumption DEF Facts, KnownOf
  <1>4. KnownOf(e) = knownAt[e] /\ e.at # None
    BY GraphAssumption DEF KnownOf
  <1>5. \A k \in DOMAIN nodes : Stated(nodes, k, later)
    BY <1>2 DEF NodesKnow, Stated
  <1>6. ASSUME NEW r \in rows
        PROVE  \/ \E f \in later : /\ Creates(f, r[1]) /\ r[2].created = f.at
                                   /\ r[2].createdKnown = KnownOf(f)
               \/ r[2].created = None /\ r[2].createdKnown = None
    BY <1>2, <1>4, RowsKnow
  <1>7. \A k : Creates(e, k) => /\ \E r \in rows : r[1] = k
                                /\ \A r \in rows : r[1] = k => r[2].created # None
    BY <1>4, RowsKnow, CreationHasRow
  <1> HIDE DEF rows, later
  <1>8. ASSUME NEW k \in DOMAIN nodes'
        PROVE  Stated(nodes', k, later) /\ (Creates(e, k) => nodes'[k].created # None)
    <2> DEFINE M == MergeNodes(nodes, rows)
    <2>1. nodes' = M
      BY <1>1
    <2>2. k \in DOMAIN M
      BY <1>8, <2>1
    <2>3. /\ Stated(M, k, later)
          /\ (\E r \in rows : r[1] = k) /\ (\A r \in rows : r[1] = k => r[2].created # None)
               => M[k].created # None
      BY <1>1, <1>3, <1>5, <1>6, <2>2, MergedStated
    <2> HIDE DEF M
    <2> QED
      BY <1>7, <2>1, <2>3
  <1>9. ASSUME NEW k \in DOMAIN nodes, nodes[k].created # None
        PROVE  nodes'[k].created # None
    <2>1. /\ "created" \in DOMAIN NoProperties /\ NoProperties.created = None
          /\ nodes[k]["created"] # None
      BY <1>9 DEF NoProperties
    <2> DEFINE M == MergeNodes(nodes, rows)
    <2>2. \A p \in DOMAIN NoProperties : nodes[k][p] # None => M[k][p] # None
      BY <1>1, MergedNodes
    <2>3. nodes' = M
      BY <1>1
    <2> HIDE DEF M
    <2> QED
      BY <2>1, <2>2, <2>3
  <1>10. \A k \in DOMAIN nodes' : Stated(nodes, k, Facts)'
    BY <1>2, <1>8 DEF Stated, KnownOf
  <1>11. ASSUME ~cleared, NEW f \in projected', NEW k \in DOMAIN nodes', Creates(f, k)
         PROVE  nodes'[k].created # None
    <2>1. CASE f = e
      BY <1>8, <1>11, <2>1
    <2>2. CASE f \in projected
      <3>1. k \in DOMAIN nodes
        BY <1>11, <2>2 DEF GraphInvariant, Standing, NodeKeys, Creates
      <3> QED
        BY <1>9, <1>11, <2>2, <3>1 DEF NodesKnow
    <2> QED
      BY <2>1, <2>2
  <1>12. ASSUME batch > 1 \/ loaded = "whole", NEW f \in World, NEW k \in DOMAIN nodes', Creates(f, k)
         PROVE  nodes'[k].created # None
    <2>1. k \in WorldKeys /\ k[1] = "Account"
      BY <1>12, WorldKeysAre DEF NodeKeys, Creates, Account
    <2>2. k \in DOMAIN nodes
      <3>1. CASE loaded = "whole"
        BY <2>1, <3>1 DEF GraphInvariant, LoadedIsWhole
      <3>2. CASE batch > 1
        <4>1. Done(1) /\ Batches[1] = "Account"
          BY <3>2 DEF GraphInvariant, Progress, TypeOK, Batches
        <4> QED
          BY <2>1, <4>1 DEF Done
      <3> QED
        BY <1>12, <3>1, <3>2
    <2> QED
      BY <1>9, <1>12, <2>2 DEF NodesKnow
  <1> QED
    BY <1>10, <1>11, <1>12 DEF NodesKnow

(* A batch of the loader does, too. *)
LEMMA LoadsKnow ==
    ASSUME GraphInvariant, NodesKnow, LoadBatch
    PROVE  NodesKnow'
  <1> DEFINE rows == WorldNodes(Batches[batch])
  <1>1. /\ nodes' = MergeNodes(nodes, rows) /\ Whole(nodes)
        /\ UNCHANGED <<knownAt, projected, cleared>>
    BY DEF LoadBatch, GraphInvariant
  <1>2. Facts' = Facts /\ World \subseteq Facts
    BY DEF GraphInvariant, Progress, LoadBatch, Facts
  <1>3. \A f \in Facts : f.at # None /\ KnownOf(f) # None
    BY FactsHaveTimes
  <1>4. ASSUME NEW r \in rows
        PROVE  \/ \E f \in Facts : /\ Creates(f, r[1]) /\ r[2].created = f.at
                                   /\ r[2].createdKnown = KnownOf(f)
               \/ r[2].created = None /\ r[2].createdKnown = None
    BY <1>2, WorldNodesState
  <1>5. \A k \in DOMAIN nodes : Stated(nodes, k, Facts)
    BY DEF NodesKnow
  <1>6. ASSUME batch = 1, NEW f \in World, NEW k, Creates(f, k)
        PROVE  /\ \E r \in rows : r[1] = k
               /\ \A r \in rows : r[1] = k => r[2].created # None
    <2>1. k \in WorldKeys /\ k[1] = "Account" /\ Batches[1] = "Account"
      BY <1>6, WorldKeysAre DEF NodeKeys, Creates, Account, Batches
    <2>2. <<k, [p \in DOMAIN NoProperties |-> WorldProperty(k, p)]>> \in rows
      BY <1>6, <2>1 DEF WorldNodes
    <2>3. \E r \in rows : r[1] = k
      <3> HIDE DEF rows
      <3> QED
        BY <2>2
    <2> QED
      BY <1>6, <2>3, WorldNodesState
  <1> HIDE DEF rows
  <1>7. ASSUME NEW k \in DOMAIN nodes'
        PROVE  /\ Stated(nodes', k, Facts)
               /\ \A f \in World : batch = 1 /\ Creates(f, k) => nodes'[k].created # None
    <2> DEFINE M == MergeNodes(nodes, rows)
    <2>1. nodes' = M
      BY <1>1
    <2>2. k \in DOMAIN M
      BY <1>7, <2>1
    <2>3. /\ Stated(M, k, Facts)
          /\ (\E r \in rows : r[1] = k) /\ (\A r \in rows : r[1] = k => r[2].created # None)
               => M[k].created # None
      BY <1>1, <1>3, <1>4, <1>5, <2>2, MergedStated, ZenonT(60)
    <2>4. ASSUME NEW f \in World, batch = 1, Creates(f, k)
          PROVE  M[k].created # None
      <3>1. (\E r \in rows : r[1] = k) /\ (\A r \in rows : r[1] = k => r[2].created # None)
        BY <1>6, <2>4
      <3> QED
        BY ONLY <2>3, <3>1
    <2> HIDE DEF M
    <2> QED
      BY ONLY <2>1, <2>3, <2>4
  <1>8. ASSUME NEW k \in DOMAIN nodes, nodes[k].created # None
        PROVE  nodes'[k].created # None
    <2>1. /\ "created" \in DOMAIN NoProperties /\ NoProperties.created = None
          /\ nodes[k]["created"] # None
      BY <1>8 DEF NoProperties
    <2> DEFINE M == MergeNodes(nodes, rows)
    <2>2. \A p \in DOMAIN NoProperties : nodes[k][p] # None => M[k][p] # None
      BY <1>1, MergedNodes
    <2>3. nodes' = M
      BY <1>1
    <2> HIDE DEF M
    <2> QED
      BY <2>1, <2>2, <2>3
  <1>9. \A k \in DOMAIN nodes' : Stated(nodes, k, Facts)'
    BY <1>1, <1>2, <1>7 DEF Stated, KnownOf
  <1>10. ASSUME ~cleared, NEW f \in projected, NEW k \in DOMAIN nodes', Creates(f, k)
         PROVE  nodes'[k].created # None
    <2>1. k \in DOMAIN nodes
      BY <1>10 DEF GraphInvariant, Standing, NodeKeys, Creates
    <2> QED
      BY <1>8, <1>10, <2>1 DEF NodesKnow
  <1>11. ASSUME NEW f \in World, NEW k \in DOMAIN nodes', Creates(f, k)
         PROVE  nodes'[k].created # None
    <2>1. batch \in 1 .. 15
      BY BatchesAre DEF LoadBatch, GraphInvariant, TypeOK
    <2>2. CASE batch = 1
      BY <1>7, <1>11, <2>2
    <2>3. CASE batch > 1
      <3>1. k \in WorldKeys /\ k[1] = "Account" /\ Batches[1] = "Account"
        BY <1>11, WorldKeysAre DEF NodeKeys, Creates, Account, Batches
      <3>2. Done(1)
        BY <2>1, <2>3 DEF GraphInvariant, Progress
      <3>3. k \in DOMAIN nodes
        BY <3>1, <3>2 DEF Done
      <3> QED
        BY <1>8, <1>11, <2>3, <3>3 DEF NodesKnow
    <2> QED
      BY <2>1, <2>2, <2>3
  <1> QED
    BY <1>1, <1>9, <1>10, <1>11 DEF NodesKnow

(* Every step keeps what the nodes know. *)
LEMMA NodesKnowStays ==
    ASSUME GraphInvariant, NodesKnow, [Next]_vars
    PROVE  NodesKnow'
  <1>1. ASSUME UNCHANGED <<nodes, projected, cleared>>, \A e \in Facts : KnownOf(e)' = KnownOf(e),
               Facts \subseteq Facts', batch' > 1 => batch > 1, loaded' = "whole" => loaded = "whole"
        PROVE  NodesKnow'
    BY <1>1 DEF NodesKnow, Stated
  <1>2. \A e \in projected : e \in Event /\ knownAt[e] # None
    BY DEF GraphInvariant, TypeOK
  <1>3. CASE \E e \in Event : Receive(e)
    <2>1. /\ UNCHANGED <<nodes, projected, cleared, batch, loaded>> /\ Facts' = Facts
          /\ \A e \in Facts : KnownOf(e)' = KnownOf(e)
      BY <1>2, <1>3 DEF Receive, Facts, KnownOf, GraphInvariant, TypeOK
    <2> QED
      BY <1>1, <2>1
  <1>4. CASE \E e \in Event : Project(e)
    BY <1>4, WritesKnow DEF Project
  <1>5. CASE \E e \in Event : Replay(e)
    <2>1. PICK e \in Event : Replay(e)
      BY <1>5
    <2>2. knownAt[e] # None /\ projected' = projected \cup {e}
      BY <1>2, <2>1 DEF Replay
    <2> QED
      BY <2>1, <2>2, WritesKnow DEF Replay
  <1>6. CASE LoadBatch
    BY <1>6, LoadsKnow
  <1>7. CASE StartLoad
    <2>1. /\ UNCHANGED <<nodes, projected, cleared, knownAt>> /\ batch' = 1
          /\ loaded' = "whole" => loaded = "whole"
      BY <1>7 DEF StartLoad
    <2>2. Facts \subseteq Facts' /\ \A e \in Facts : KnownOf(e)' = KnownOf(e)
      BY <1>7, <2>1 DEF StartLoad, Facts, KnownOf
    <2> QED
      BY <1>1, <2>1, <2>2
  <1>8. CASE LoadFails
    <2>1. /\ UNCHANGED <<nodes, projected, cleared, knownAt, loaded>> /\ batch' = 0
      BY <1>8 DEF LoadFails
    <2>2. Facts' = Facts /\ \A e \in Facts : KnownOf(e)' = KnownOf(e)
      BY <2>1 DEF Facts, KnownOf
    <2> QED
      BY <1>1, <2>1, <2>2
  <1>9. CASE Clear
    BY <1>9 DEF Clear, NodesKnow, NoNodes
  <1>10. CASE \/ Tick \/ UNCHANGED vars
             \/ \E r \in Reader : ReadEdges(r) \/ Forget(r) \/ \E e \in Event : ReadNodes(r, e)
    <2>1. UNCHANGED <<nodes, projected, cleared, knownAt, loaded, batch>>
      BY <1>10 DEF Tick, ReadEdges, Forget, ReadNodes, vars
    <2>2. Facts' = Facts /\ \A e \in Facts : KnownOf(e)' = KnownOf(e)
      BY <2>1 DEF Facts, KnownOf
    <2> QED
      BY <1>1, <2>1, <2>2
  <1> QED
    BY <1>3, <1>4, <1>5, <1>6, <1>7, <1>8, <1>9, <1>10 DEF Next

(* A view that is due stays due while facts are added. *)
LEMMA DueStays ==
    ASSUME GraphInvariant, ViewInvariant, [Next]_vars, ~cleared', NEW r \in Reader,
           view'[r] = view[r]
    PROVE  /\ view'[r].stage # "idle" => NodesAreDue(r)'
           /\ view'[r].stage = "read" => EdgesAreDue(r)'
  <1> SUFFICES ASSUME view[r].stage # "idle"
               PROVE  NodesAreDue(r)' /\ (view[r].stage = "read" => EdgesAreDue(r)')
    OBVIOUS
  <1>1. /\ ~cleared /\ projected \subseteq projected' /\ Facts \subseteq Facts'
        /\ edges \subseteq edges'
        /\ \A e \in Facts : KnownOf(e)' = KnownOf(e)
        /\ \A e \in projected : knownAt'[e] = knownAt[e]
    BY FactsGrow
  <1>2. NodesAreDue(r) /\ (view[r].stage = "read" => EdgesAreDue(r))
    BY <1>1 DEF ViewInvariant
  <1> DEFINE c == Cutoff(r)
  <1>3. Cutoff(r)' = c
    BY <1>1, <1>2 DEF Cutoff, NodesAreDue
  <1>4. Timely(c) \subseteq Timely(Cutoff(r))' /\ Timely(Cutoff(r))' \cap Facts = Timely(c)
    BY <1>1, <1>3 DEF Timely
  <1>5. \A e \in view[r].after : e \in Facts /\ KnownOf(e)' = KnownOf(e)
    BY <1>1, <1>2 DEF NodesAreDue
  <1>6. ASSUME NEW k, Stated(view[r].nodes, k, Timely(c))
        PROVE  Stated(view[r].nodes, k, Timely(Cutoff(r)))'
    <2>1. \A e \in Timely(c) : KnownOf(e)' = KnownOf(e) /\ e \in Timely(Cutoff(r))'
      BY <1>1, <1>4 DEF Timely
    <2> QED
      BY <1>6, <2>1 DEF Stated
  <1>7. NodesAreDue(r)'
    <2>1. \A e \in view[r].after \cap Timely(Cutoff(r))' : e \in Timely(c)
      BY <1>4, <1>5
    <2>2. /\ view'[r].of \in projected' /\ view'[r].after \subseteq Facts'
          /\ \A k \in DOMAIN view'[r].nodes : Stated(view[r].nodes, k, Timely(Cutoff(r)))'
      BY <1>1, <1>2, <1>6 DEF NodesAreDue
    <2>3. \A e \in view[r].after :
             /\ NodeKeys(e) \ {Account(e)} \subseteq DOMAIN view[r].nodes
             /\ EdgesOf(e, KnownOf(e)') \subseteq edges'
      BY <1>1, <1>2, <1>5 DEF NodesAreDue
    <2>4. \A e \in view[r].after \cap Timely(Cutoff(r))', k \in Keys : Creates(e, k) =>
            \/ k \in DOMAIN view[r].nodes /\ view[r].nodes[k].created # None
            \/ \E g \in Facts' : g # e /\ Creates(g, k)
      BY <1>1, <1>2, <2>1 DEF NodesAreDue
    <2> QED
      BY <2>2, <2>3, <2>4 DEF NodesAreDue
  <1>8. ASSUME EdgesAreDue(r) PROVE EdgesAreDue(r)'
    <2>1. view[r].edges \subseteq KnownEdges(edges', c)
      BY <1>1, <1>8 DEF EdgesAreDue, KnownEdges
    <2>2. \A e \in view[r].after \cap Timely(Cutoff(r))' :
             EdgesOf(e, KnownOf(e)') \subseteq view[r].edges
      BY <1>4, <1>5, <1>8 DEF EdgesAreDue
    <2> QED
      BY <1>3, <2>1, <2>2 DEF EdgesAreDue
  <1> QED
    BY <1>2, <1>7, <1>8

(* The first query reads what is known by the cutoff, and all that is there.  *)
LEMMA ReadNodesIsDue ==
    ASSUME GraphInvariant, NodesKnow, ~cleared, NEW r \in Reader, NEW e \in Event, ReadNodes(r, e)
    PROVE  view'[r].stage = "nodes" /\ NodesAreDue(r)'
  <1> DEFINE c == knownAt[e]
             N == [k \in KnownNodes(nodes, c) |-> nodes[k]]
             there == (projected \ early) \cup (IF loaded = "whole" THEN World ELSE {})
  <1>1. /\ view'[r] = [stage |-> "nodes", of |-> e, after |-> there, nodes |-> N]
        /\ e \in projected
        /\ UNCHANGED <<knownAt, projected, edges, loaded>>
    BY DEF ReadNodes, GraphInvariant
  <1>2. /\ Cutoff(r)' = c /\ Facts' = Facts /\ \A f : KnownOf(f)' = KnownOf(f)
        /\ Timely(Cutoff(r))' = Timely(c)
    BY <1>1 DEF Cutoff, Facts, KnownOf, Timely
  <1>3. there \subseteq Facts
    BY DEF Facts
  <1>4. ASSUME NEW k \in DOMAIN N PROVE Stated(N, k, Timely(c))
    <2>1. N[k] = nodes[k] /\ k \in DOMAIN nodes /\ Stated(nodes, k, Facts)
      BY <1>4 DEF KnownNodes, NodesKnow
    <2>2. ASSUME NEW f \in Facts, Creates(f, k), nodes[k].created = f.at,
                 nodes[k].createdKnown = KnownOf(f)
          PROVE  f \in Timely(c)
      <3>1. k[1] = "Account"
        BY <2>2 DEF Creates, Account
      <3> QED
        BY <1>4, <2>2, <3>1 DEF KnownNodes, Timely
    <2> QED
      BY <2>1, <2>2 DEF Stated
  <1>5. ASSUME NEW f \in there
        PROVE  /\ NodeKeys(f) \subseteq DOMAIN nodes
               /\ EdgesOf(f, KnownOf(f)) \subseteq edges
    <2>1. CASE f \in projected /\ f \notin early
      <3>1. f \in Event /\ KnownOf(f) = knownAt[f]
        BY <2>1, GraphAssumption DEF GraphInvariant, TypeOK, KnownOf
      <3> QED
        BY <2>1, <3>1 DEF GraphInvariant, Standing, FactsStay
    <2>2. CASE loaded = "whole" /\ f \in World
      <3>1. NodeKeys(f) \subseteq WorldKeys /\ KnownOf(f) = f.at
        BY <2>2, WorldKeysAre DEF KnownOf
      <3> QED
        BY <2>2, <3>1 DEF GraphInvariant, LoadedIsWhole
    <2> QED
      BY <2>1, <2>2
  <1>6. ASSUME NEW f \in there PROVE NodeKeys(f) \ {Account(f)} \subseteq DOMAIN N
    <2>1. f \in Event \cup World /\ f.type \in DOMAIN ItemLabel \cup {"account_created"}
      BY <1>3, FactsHaveTimes, EventAssumption
    <2>2. \A k \in NodeKeys(f) \ {Account(f)} : k[1] # "Account"
      BY <2>1 DEF NodeKeys, Order, Item, ItemLabel
    <2> QED
      BY <1>5, <2>2 DEF KnownNodes
  <1>7. ASSUME NEW f \in there \cap Timely(c), NEW k, Creates(f, k)
        PROVE  \/ k \in DOMAIN N /\ N[k].created # None
               \/ \E g \in Facts : g # f /\ Creates(g, k)
    <2>1. k \in DOMAIN nodes
      BY <1>5, <1>7 DEF NodeKeys, Creates
    <2>2. nodes[k].created # None
      BY <1>7, <2>1 DEF NodesKnow
    <2>3. PICK g \in Facts : /\ Creates(g, k) /\ nodes[k].created = g.at
                             /\ nodes[k].createdKnown = KnownOf(g)
      BY <2>1, <2>2 DEF NodesKnow, Stated
    <2>4. CASE g = f
      <3>1. /\ nodes[k].created # None /\ nodes[k].createdKnown # None
            /\ nodes[k].created <= c /\ nodes[k].createdKnown <= c
        BY <1>7, <2>3, <2>4, FactsHaveTimes DEF Timely
      <3>2. k \in DOMAIN N
        BY <2>1, <3>1 DEF KnownNodes
      <3> QED
        BY <3>1, <3>2
    <2> QED
      BY <2>3, <2>4
  <1> HIDE DEF N, there, c
  <1>8. NodesAreDue(r)'
    <2>1. \A k \in DOMAIN view'[r].nodes : Stated(view[r].nodes, k, Timely(Cutoff(r)))'
      BY <1>1, <1>2, <1>4 DEF Stated
    <2> QED
      BY <1>1, <1>2, <1>3, <1>5, <1>6, <1>7, <2>1 DEF NodesAreDue
  <1> QED
    BY <1>1, <1>8

(* The second query: the edges of the facts known by the cutoff. *)
LEMMA ReadEdgesIsDue ==
    ASSUME GraphInvariant, NEW r \in Reader, ReadEdges(r), NodesAreDue(r)
    PROVE  view'[r].stage = "read" /\ NodesAreDue(r)' /\ EdgesAreDue(r)'
  <1> DEFINE c == Cutoff(r)
  <1>1. /\ view'[r].stage = "read" /\ view'[r].of = view[r].of /\ view'[r].after = view[r].after
        /\ view'[r].nodes = view[r].nodes /\ view'[r].edges = KnownEdges(edges, c)
        /\ UNCHANGED <<knownAt, projected, edges, loaded>>
    BY DEF ReadEdges, GraphInvariant, Cutoff
  <1>2. /\ Cutoff(r)' = c /\ Facts' = Facts /\ \A f : KnownOf(f)' = KnownOf(f)
        /\ Timely(Cutoff(r))' = Timely(c)
    BY <1>1 DEF Cutoff, Facts, KnownOf, Timely
  <1>3. NodesAreDue(r)'
    <2>1. \A k \in DOMAIN view'[r].nodes : Stated(view[r].nodes, k, Timely(Cutoff(r)))'
      BY <1>1, <1>2 DEF NodesAreDue, Stated
    <2> QED
      BY <1>1, <1>2, <2>1 DEF NodesAreDue
  <1>4. ASSUME NEW e \in view[r].after \cap Timely(c), NEW x \in EdgesOf(e, KnownOf(e))
        PROVE  x \in KnownEdges(edges, c)
    <2>1. x \in edges
      BY <1>4 DEF NodesAreDue
    <2>2. x.at = e.at /\ x.known = KnownOf(e)
      BY EdgesName
    <2> QED
      BY <1>4, <2>1, <2>2 DEF KnownEdges, Timely
  <1>5. EdgesAreDue(r)'
    BY <1>1, <1>2, <1>4 DEF EdgesAreDue
  <1> QED
    BY <1>1, <1>3, <1>5

(* Every step keeps the readers' dues. *)
LEMMA ViewsStay ==
    ASSUME GraphInvariant, ViewInvariant, [Next]_vars
    PROVE  ViewInvariant'
  <1>1. NodesKnow'
    BY NodesKnowStays DEF ViewInvariant
  <1>2. ASSUME ~cleared', NEW q \in Reader
        PROVE  /\ view'[q].stage # "idle" => NodesAreDue(q)'
               /\ view'[q].stage = "read" => EdgesAreDue(q)'
    <2>1. ~cleared
      BY <1>2, FactsGrow
    <2>2. CASE view'[q] = view[q]
      BY <1>2, <2>2, DueStays
    <2>3. ASSUME NEW e \in Event, ReadNodes(q, e)
          PROVE  view'[q].stage = "nodes" /\ NodesAreDue(q)'
      BY <2>1, <2>3, ReadNodesIsDue DEF ViewInvariant
    <2>4. ASSUME ReadEdges(q)
          PROVE  view'[q].stage = "read" /\ NodesAreDue(q)' /\ EdgesAreDue(q)'
      <3>1. NodesAreDue(q)
        BY <2>1, <2>4 DEF ViewInvariant, ReadEdges
      <3> QED
        BY <2>4, <3>1, ReadEdgesIsDue
    <2>5. ASSUME Forget(q) PROVE view'[q].stage = "idle"
      BY <2>5 DEF Forget, Idle, GraphInvariant
    <2>6. \/ view'[q] = view[q]
          \/ ReadEdges(q) \/ Forget(q) \/ \E e \in Event : ReadNodes(q, e)
      <3>1. ASSUME NEW r \in Reader, r # q,
                   ReadEdges(r) \/ Forget(r) \/ \E e \in Event : ReadNodes(r, e)
            PROVE  view'[q] = view[q]
        BY <3>1 DEF ReadEdges, Forget, ReadNodes, GraphInvariant
      <3>2. ASSUME view' = view PROVE view'[q] = view[q]
        BY <3>2
      <3> QED
        BY <3>1, <3>2 DEF Next, vars, Tick, Receive, Project, Replay, StartLoad, LoadBatch,
           LoadFails, Clear
    <2> QED
      BY <2>2, <2>3, <2>4, <2>5, <2>6
  <1> QED
    BY <1>1, <1>2 DEF ViewInvariant

(* The edges and the creations of a view of facts. *)
LEMMA FactsViewed ==
    ASSUME NEW F, \A e \in F : e.at # None /\ KnownOf(e) # None, NEW k
    PROVE  LET N == ViewOfFacts(F).nodes
           IN  /\ DOMAIN N = UNION {NodeKeys(e) : e \in F}
               /\ k \in DOMAIN N =>
                    \/ \E e \in F : /\ Creates(e, k) /\ N[k].created = e.at
                                    /\ N[k].createdKnown = KnownOf(e)
                    \/ /\ N[k].created = None
                       /\ \A e \in F : ~Creates(e, k)
  <1> DEFINE rows == UNION {NodesOf(e, KnownOf(e)) : e \in F}
             given(p) == {r \in rows : r[1] = k /\ r[2][p] # None}
             N == ViewOfFacts(F).nodes
             prop(n, p) == LET g == {r \in rows : r[1] = n /\ r[2][p] # None}
                           IN  IF g = {} THEN None ELSE (CHOOSE r \in g : TRUE)[2][p]
  <1>1. N = [n \in {r[1] : r \in rows} |-> [p \in DOMAIN NoProperties |-> prop(n, p)]]
    BY DEF ViewOfFacts
  <1>2. {r[1] : r \in rows} = UNION {NodeKeys(e) : e \in F}
    <2>1. ASSUME NEW r \in rows PROVE \E e \in F : r[1] \in NodeKeys(e)
      <3>1. PICK e \in F : r \in NodesOf(e, KnownOf(e))
        OBVIOUS
      <3> QED
        BY <3>1, KeysAre
    <2>2. ASSUME NEW e \in F, NEW n \in NodeKeys(e) PROVE \E r \in rows : r[1] = n
      <3>1. PICK r \in NodesOf(e, KnownOf(e)) : r[1] = n
        BY KeysAre
      <3> QED
        BY <3>1
    <2> HIDE DEF rows
    <2> QED
      BY <2>1, <2>2
  <1>3. ASSUME k \in DOMAIN N
        PROVE /\ N[k].created = IF given("created") = {} THEN None
                           ELSE (CHOOSE r \in given("created") : TRUE)[2]["created"]
              /\ N[k].createdKnown = IF given("createdKnown") = {} THEN None
                           ELSE (CHOOSE r \in given("createdKnown") : TRUE)[2]["createdKnown"]
    BY <1>1, <1>3 DEF NoProperties
  <1>4. ASSUME NEW r \in rows, r[1] = k
        PROVE  \/ \E e \in F : /\ Creates(e, k) /\ r[2]["created"] = e.at
                               /\ r[2]["createdKnown"] = KnownOf(e)
               \/ r[2]["created"] = None /\ r[2]["createdKnown"] = None
    <2>1. PICK e \in F : r \in NodesOf(e, KnownOf(e))
      OBVIOUS
    <2> QED
      BY <1>4, <2>1, RowsKnow
  <1>5. ASSUME NEW e \in F, Creates(e, k) PROVE given("created") # {}
    <2>1. PICK r \in NodesOf(e, KnownOf(e)) : r[1] = k
      BY <1>5, CreationHasRow
    <2>2. r \in rows /\ r[2]["created"] = e.at
      BY <1>5, <2>1, RowsKnow
    <2> QED
      BY <2>1, <2>2
  <1>6. given("created") = given("createdKnown")
    BY <1>4
  <1>7. DOMAIN N = UNION {NodeKeys(e) : e \in F}
    BY <1>1, <1>2
  <1>8. ASSUME k \in DOMAIN N, given("created") # {}
        PROVE  \E e \in F : /\ Creates(e, k) /\ N[k].created = e.at
                            /\ N[k].createdKnown = KnownOf(e)
    <2> DEFINE r == CHOOSE r \in given("created") : TRUE
    <2>1. r \in given("created")
      BY <1>8
    <2>2. N[k].created = r[2]["created"] /\ N[k].createdKnown = r[2]["createdKnown"]
      BY <1>3, <1>6, <1>8
    <2>3. r \in rows /\ r[1] = k /\ r[2]["created"] # None
      BY <2>1
    <2> HIDE DEF r, N, rows
    <2> QED
      BY <1>4, <2>2, <2>3
  <1>9. ASSUME k \in DOMAIN N, given("created") = {}
        PROVE  N[k].created = None /\ \A e \in F : ~Creates(e, k)
    BY <1>3, <1>5, <1>9
  <1> QED
    BY <1>7, <1>8, <1>9 DEF N

(* The views that are read are extracted from as the facts would be. *)
LEMMA DueIsExtracted ==
    ASSUME GraphInvariant, ViewInvariant, NoneIsNoVector
    PROVE  DecisionIgnoresTheFuture
  <1> SUFFICES ASSUME NEW r \in Reader, Settled(r)
               PROVE  LET found == VectorOf(r)
                          due == DueVector(r)
                      IN  /\ found # None /\ due # None
                               => found.identity = due.identity /\ found.commerce = due.commerce
                          /\ CreatedOnce(r)
                               => IF due = None THEN found = None
                                  ELSE found # None /\ Counts(found) = Counts(due)
    BY DEF DecisionIgnoresTheFuture
  <1> DEFINE c == Cutoff(r)
             F == DueFacts(r)
             N == view[r].nodes
             E == view[r].edges
             M == ViewOfFacts(F).nodes
             a == Account(view[r].of)
  <1>1. NodesAreDue(r) /\ EdgesAreDue(r)
    BY DEF Settled, ViewInvariant
  <1>2. F \subseteq view[r].after /\ view[r].after \subseteq Facts
    BY <1>1 DEF Settled, NodesAreDue
  <1>3. /\ F = Timely(c) \ early
        /\ Timely(c) \subseteq FactsKnownBy(c)
        /\ \A e \in F : e.at # None /\ KnownOf(e) # None
    <2>1. Timely(c) = FactsKnownBy(c) \cap Facts
      BY TimelyIsKnown
    <2>2. F = FactsKnownBy(c) \ early /\ F \subseteq Facts
      BY <1>2 DEF DueFacts
    <2> HIDE DEF F, c
    <2> QED
      BY <2>1, <2>2, FactsHaveTimes
  <1>4. E = UNION {EdgesOf(e, KnownOf(e)) : e \in F}
    <2>1. ASSUME NEW x \in E PROVE \E e \in F : x \in EdgesOf(e, KnownOf(e))
      <3>1. x \in edges /\ x.at <= c /\ x.known <= c
        BY <1>1 DEF EdgesAreDue, KnownEdges
      <3>2. PICK e \in Facts : x \in EdgesOf(e, KnownOf(e))
        BY <3>1 DEF GraphInvariant, Sourced
      <3>3. e \in Timely(c)
        BY <3>1, <3>2, EdgesName DEF Timely
      <3>4. e \notin early
        <4>1. ASSUME e \in early PROVE FALSE
          <5>1. e \in projected /\ e \in Event /\ KnownOf(e) = knownAt[e]
            BY <4>1, GraphAssumption DEF GraphInvariant, TypeOK, KnownOf
          <5>2. EdgesOf(e, knownAt[e]) \cap edges = {}
            BY <4>1, <5>1 DEF GraphInvariant, FactsStay, Settled
          <5> QED
            BY <3>1, <3>2, <5>1, <5>2
        <4> QED
          BY <4>1
      <3> QED
        BY <1>3, <3>2, <3>3, <3>4
    <2>2. ASSUME NEW e \in F PROVE EdgesOf(e, KnownOf(e)) \subseteq E
      BY <1>1, <1>2, <1>3 DEF EdgesAreDue
    <2> HIDE DEF F, E
    <2> QED
      BY <2>1, <2>2
  <1>5. ViewOfFacts(F) = [nodes |-> M, edges |-> E]
    BY <1>4 DEF ViewOfFacts
  <1>6. DOMAIN M = UNION {NodeKeys(e) : e \in F}
    BY <1>3, FactsViewed
  <1>7. \A x \in E : x.target \in DOMAIN N /\ x.target \in DOMAIN M
    <2> SUFFICES ASSUME NEW x \in E PROVE x.target \in DOMAIN N /\ x.target \in DOMAIN M
      OBVIOUS
    <2>1. PICK e \in F : x \in EdgesOf(e, KnownOf(e))
      BY <1>4
    <2>2. x.target \in NodeKeys(e) \ {Account(e)}
      BY <2>1, EdgesEnd
    <2>3. x.target \in DOMAIN N
      BY <1>1, <1>2, <2>1, <2>2 DEF NodesAreDue
    <2> HIDE DEF M, N, F
    <2> QED
      BY <1>6, <2>1, <2>2, <2>3
  <1>8. ASSUME CreatedOnce(r), NEW k
        PROVE  CreatedAt([nodes |-> N, edges |-> E], k, c) = CreatedAt([nodes |-> M, edges |-> E], k, c)
    <2>1. /\ k \in DOMAIN M =>
               \/ \E e \in F : /\ Creates(e, k) /\ M[k].created = e.at
                               /\ M[k].createdKnown = KnownOf(e)
               \/ M[k].created = None /\ \A e \in F : ~Creates(e, k)
      BY <1>3, FactsViewed
    <2>2. ASSUME NEW e \in Facts, Creates(e, k) PROVE k \in Keys /\ e \notin early
      <3>1. k \in NodeKeys(e) /\ ~Dependent(e)
        BY <2>2 DEF Creates, NodeKeys, Dependent
      <3>2. k \in Keys
        BY <3>1, KeysHold, WorldKeysAre, FactsHaveTimes
      <3>3. e \notin early
        BY <3>1 DEF GraphInvariant, FactsStay, Settled, TypeOK
      <3> QED
        BY <3>2, <3>3
    <2>3. k \in DOMAIN N =>
               \/ \E e \in F : /\ Creates(e, k) /\ N[k].created = e.at
                               /\ N[k].createdKnown = KnownOf(e)
               \/ N[k].created = None
      <3> SUFFICES ASSUME k \in DOMAIN N
                   PROVE  \/ \E e \in F : /\ Creates(e, k) /\ N[k].created = e.at
                                          /\ N[k].createdKnown = KnownOf(e)
                          \/ N[k].created = None
        OBVIOUS
      <3>1. Stated(N, k, Timely(c))
        BY <1>1 DEF NodesAreDue
      <3>2. ASSUME NEW e \in Timely(c), Creates(e, k) PROVE e \in F
        BY <1>3, <2>2, <3>2 DEF Timely
      <3> HIDE DEF N, F, c
      <3> QED
        BY <3>1, <3>2 DEF Stated
    <2>4. ASSUME NEW e \in F, NEW f \in Facts, Creates(e, k), Creates(f, k) PROVE e = f
      <3>1. e \in FactsKnownBy(c) /\ e \in Facts
        BY <1>2, <1>3
      <3>2. k \in Keys
        BY <2>2, <2>4
      <3> QED
        BY <1>8, <2>4, <3>1, <3>2 DEF CreatedOnce
    <2>5. ASSUME NEW e \in F, Creates(e, k)
          PROVE  k \in DOMAIN N /\ N[k].created # None
      <3>1. e \in view[r].after \cap Timely(c) /\ e \in Facts
        BY <1>2, <1>3
      <3>2. k \in Keys
        BY <2>2, <2>5, <3>1
      <3>3. \/ k \in DOMAIN N /\ N[k].created # None
            \/ \E g \in Facts : g # e /\ Creates(g, k)
        BY <1>1, <2>5, <3>1, <3>2 DEF NodesAreDue
      <3> QED
        BY <2>4, <2>5, <3>3
    <2>6. F \subseteq Facts
      BY <1>2
    <2> HIDE DEF M, N, E, F, c
    <2>7. CASE \E e \in F : Creates(e, k)
      <3>1. PICK e \in F : Creates(e, k)
        BY <2>7
      <3>2. k \in DOMAIN M
        BY <1>6, <3>1 DEF NodeKeys, Creates
      <3>3. M[k].created = e.at /\ M[k].createdKnown = KnownOf(e)
        BY <2>1, <2>4, <2>6, <3>1, <3>2
      <3>4. k \in DOMAIN N /\ N[k].created = e.at /\ N[k].createdKnown = KnownOf(e)
        BY <2>3, <2>4, <2>5, <2>6, <3>1
      <3> QED
        BY <3>2, <3>3, <3>4 DEF CreatedAt
    <2>8. CASE \A e \in F : ~Creates(e, k)
      <3>1. k \in DOMAIN N => N[k].created = None
        BY <2>3, <2>8
      <3>2. k \in DOMAIN M => M[k].created = None
        BY <2>1, <2>8
      <3> QED
        BY <3>1, <3>2 DEF CreatedAt
    <2> QED
      BY <2>7, <2>8
  <1>9. /\ VectorOf(r) = Extract([nodes |-> N, edges |-> E], a, c)
        /\ DueVector(r) = Extract([nodes |-> M, edges |-> E], a, c)
    BY <1>5 DEF VectorOf, DueVector
  <1> HIDE DEF M, N, E, a, c
  <1>10. CreatedOnce(r)
           => IF DueVector(r) = None THEN VectorOf(r) = None
              ELSE VectorOf(r) # None /\ Counts(VectorOf(r)) = Counts(DueVector(r))
    BY <1>7, <1>8, <1>9, ExtractsAgree
  <1>11. VectorOf(r) # None /\ DueVector(r) # None
           => /\ VectorOf(r).identity = DueVector(r).identity
              /\ VectorOf(r).commerce = DueVector(r).commerce
    <2> DEFINE S == {x \in E : x.at <= c}
    <2>1. ASSUME NEW n, Extract([nodes |-> n, edges |-> E], a, c) # None
          PROVE  /\ Extract([nodes |-> n, edges |-> E], a, c).identity = IdentityFeatures(S, a)
                 /\ Extract([nodes |-> n, edges |-> E], a, c).commerce = CommerceFeatures(S, a)
      <3> DEFINE V == [nodes |-> n, edges |-> S]
      <3>1. SnapshotAt([nodes |-> n, edges |-> E], c) = V /\ V.edges = S
        BY Snapshots
      <3> HIDE DEF V, S
      <3>2. Extract([nodes |-> n, edges |-> E], a, c) =
              [age        |-> c - CreatedAt(V, a, c),
               identity   |-> IdentityFeatures(S, a),
               commerce   |-> CommerceFeatures(S, a),
               velocity   |-> VelocityFeatures(V, a, c),
               categories |-> CategoricalFeatures(V, a)]
        BY <2>1, <3>1 DEF Extract
      <3> QED
        BY <3>2
    <2> HIDE DEF S
    <2>2. /\ VectorOf(r) # None => VectorOf(r).identity = IdentityFeatures(S, a)
                                  /\ VectorOf(r).commerce = CommerceFeatures(S, a)
          /\ DueVector(r) # None => DueVector(r).identity = IdentityFeatures(S, a)
                                   /\ DueVector(r).commerce = CommerceFeatures(S, a)
      BY <1>9, <2>1
    <2> QED
      BY <2>2
  <1> QED
    BY <1>10, <1>11

(* A read that began with every fact due at its cutoff in the graph finds the    *)
(* identity and commerce counts that those facts alone would give, whatever is    *)
(* received, projected, replayed or loaded between or after its two queries, with *)
(* dependents in any order, any offline world and accounts created any number of  *)
(* times; where no account is created twice the age, the velocity and the         *)
(* failures too.  It assumes that a vector is not None.                           *)
THEOREM FutureIgnored ==
    ASSUME NoneIsNoVector
    PROVE  Spec => []DecisionIgnoresTheFuture
  <1>1. Init => GraphInvariant /\ ViewInvariant
    BY InitInvariant, ViewsStart
  <1>2. GraphInvariant /\ ViewInvariant /\ [Next]_vars => (GraphInvariant /\ ViewInvariant)'
    BY NextPreserves, ViewsStay
  <1>3. GraphInvariant /\ ViewInvariant => DecisionIgnoresTheFuture
    BY DueIsExtracted
  <1> QED
    BY <1>1, <1>2, <1>3, PTL DEF Spec

==============================================================================
