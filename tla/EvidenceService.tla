---------------------------- MODULE EvidenceService ----------------------------
(***************************************************************************)
(* The evidence service of investigations (investigation/service.py): five *)
(* reads of one subject's history at a fixed cutoff, each bounded by the   *)
(* limits of InvestigationConfig.  It is pure; a view is that of           *)
(* FeatureExtraction with one more field, events: the canonical events     *)
(* [id, type, at, account, order] known to the application.                *)
(*                                                                         *)
(* A limits record holds max_graph_hops (hops), max_graph_nodes (nodes),   *)
(* max_graph_edges (edges), max_related_accounts (related),                *)
(* max_events_per_tool (events) and max_timeline_events (timeline).        *)
(***************************************************************************)
EXTENDS FeatureExtraction, Sequences, SequencesExt

\* The order of GraphNodeType's values, which links are sorted by.
LabelRank == [Account |-> 0, Address |-> 1, Device |-> 2, IPAddress |-> 3, PaymentIdentity |-> 4]

\* The labels of the nodes that a relationship of each type joins (projection.py).
Ends ==
    [USED_DEVICE |-> <<"Account", "Device">>, SEEN_FROM |-> <<"Account", "IPAddress">>,
     PAID_WITH |-> <<"Account", "PaymentIdentity">>, PLACED |-> <<"Account", "Order">>,
     SHIPPED_TO |-> <<"Order", "Address">>, USED_PROMO |-> <<"Order", "Promotion">>,
     HAS_REFUND |-> <<"Order", "Refund">>]

IsRelationship(x) ==
    /\ x.type \in DOMAIN Ends
    /\ x.source \in {Ends[x.type][1]} \X Nat
    /\ x.target \in {Ends[x.type][2]} \X Nat
    /\ x.at \in Nat

TimelineTypes ==
    {"payment_attached", "order_placed", "promotion_redeemed", "refund_requested",
     "refund_resolved"}

\* sorted(): an element's place is the number of elements before it.
SortedBy(set, before(_, _)) ==
    [k \in 1 .. Cardinality(set) |->
        CHOOSE x \in set : Cardinality({y \in set : before(y, x)}) = k - 1]

EarliestOf(times) == CHOOSE t \in times : \A u \in times : t <= u
LatestOf(times) == CHOOSE t \in times : \A u \in times : u <= t

-----------------------------------------------------------------------------
(* Links between accounts and identities. *)

\* Mutant: the cutoff is left to the feature layer.
UsesEver(view, cutoff) ==
    LET direct == {x \in view.edges : x.type \in IdentityTypes}
    IN  {[account |-> x.source, identity |-> x.target, at |-> x.at, ids |-> {x.id}] : x \in direct}

\* Mutant: an address is not an identity.
UsesDirect(view, cutoff) ==
    LET direct == {x \in SnapshotAt(view, cutoff).edges : x.type \in IdentityTypes}
    IN  {[account |-> x.source, identity |-> x.target, at |-> x.at, ids |-> {x.id}] : x \in direct}

\* The uses of identities at the cutoff: direct ones, and an address through an
\* order that was placed and shipped to it.
Uses(view, cutoff) ==
    LET known == SnapshotAt(view, cutoff).edges
        direct == {x \in known : x.type \in IdentityTypes}
        placed == {x \in known : x.type = "PLACED"}
        shipped == {x \in known : x.type = "SHIPPED_TO"}
    IN  {[account |-> x.source, identity |-> x.target, at |-> x.at, ids |-> {x.id}] : x \in direct}
        \cup {[account |-> p[1].source, identity |-> p[2].target,
               at |-> IF p[1].at < p[2].at THEN p[2].at ELSE p[1].at,
               ids |-> {p[1].id, p[2].id}] :
                 p \in {q \in placed \X shipped : q[1].target = q[2].source}}

\* _links_at and _merge_links: one link for each account and identity.
LinksAt(view, cutoff) ==
    LET uses == Uses(view, cutoff)
        of(pair) == {u \in uses : <<u.account, u.identity>> = pair}
    IN  {[account |-> pair[1], identity |-> pair[2],
          first |-> EarliestOf({u.at : u \in of(pair)}),
          last |-> LatestOf({u.at : u \in of(pair)}),
          ids |-> UNION {u.ids : u \in of(pair)}] :
            pair \in {<<u.account, u.identity>> : u \in uses}}

\* _link_sort_key
Before(k, l) ==
    LET rank(x) == <<LabelRank[x.identity[1]], x.identity[2], x.account[2]>>
        a == rank(k)
        b == rank(l)
    IN  \/ a[1] < b[1]
        \/ a[1] = b[1] /\ (a[2] < b[2] \/ (a[2] = b[2] /\ a[3] < b[3]))

\* _links_by_node: the links of a node, in order.
LinksOf(links, node) ==
    SortedBy({l \in links : node \in {l.account, l.identity}}, Before)

OtherEnd(link, node) == IF node = link.account THEN link.identity ELSE link.account

-----------------------------------------------------------------------------
(* The neighbourhood *)

\* One link of the node being expanded, at the given distance from the root.
Follow(s, link, node, distance, limits) ==
    LET other == OtherEnd(link, node)
        isNew == other \notin s.nodes
    IN  IF \/ isNew /\ Cardinality(s.nodes) >= limits.nodes
           \/ link \notin s.edges /\ Cardinality(s.edges) >= limits.edges
        THEN [s EXCEPT !.truncated = TRUE]
        ELSE [s EXCEPT !.edges = @ \cup {link},
                       !.nodes = @ \cup {other},
                       !.pending = IF isNew THEN Append(@, <<other, distance + 1>>) ELSE @]

\* The links of the node, one after another.
FollowAll(s, mine, node, distance, limits) ==
    LET followed[k \in 0 .. Len(mine)] ==
            IF k = 0 THEN s ELSE Follow(followed[k - 1], mine[k], node, distance, limits)
    IN  followed[Len(mine)]

\* Mutant: what lies beyond the hop limit is not mentioned.
ExpandQuietly(s, links, limits) ==
    IF s.pending = <<>> THEN s
    ELSE LET node == Head(s.pending)[1]
             distance == Head(s.pending)[2]
             rest == [s EXCEPT !.pending = Tail(@)]
         IN  IF distance >= limits.hops THEN rest
             ELSE FollowAll(rest, LinksOf(links, node), node, distance, limits)

\* The node at the head of the queue is expanded, or left at the hop limit.
Expand(s, links, limits) ==
    IF s.pending = <<>> THEN s
    ELSE LET node == Head(s.pending)[1]
             distance == Head(s.pending)[2]
             rest == [s EXCEPT !.pending = Tail(@)]
             mine == LinksOf(links, node)
         IN  IF distance >= limits.hops
             THEN [rest EXCEPT !.truncated = @ \/ mine # <<>>]
             ELSE FollowAll(rest, mine, node, distance, limits)

\* _bounded_neighborhood: every node is queued once, so as many rounds as there
\* are nodes empty the queue.
Neighborhood(links, root, limits) ==
    LET start == [nodes |-> {root}, edges |-> {}, pending |-> <<<<root, 0>>>>, truncated |-> FALSE]
        size == Cardinality({root} \cup UNION {{l.account, l.identity} : l \in links})
        round[n \in 0 .. size] == IF n = 0 THEN start ELSE Expand(round[n - 1], links, limits)
    IN  round[size]

\* get_identity_neighborhood: None where it raises, for a subject that is not
\* in the graph.
IdentityNeighborhood(view, subject, cutoff, limits) ==
    IF subject \in DOMAIN view.nodes THEN Neighborhood(LinksAt(view, cutoff), subject, limits)
    ELSE None

-----------------------------------------------------------------------------
(* Peers, activity and the timeline *)

\* The links of other accounts to the identities of the subject.
PeerLinks(links, subject) ==
    {l \in links : l.account # subject /\ [account |-> subject, identity |-> l.identity]
                     \in {[account |-> m.account, identity |-> m.identity] : m \in links}}

\* _rank_related_accounts: breadth of shared types, then recency, then ID.
RankedPeers(links, subject) ==
    LET shared == PeerLinks(links, subject)
        of(a) == {l \in shared : l.account = a}
        breadth(a) == Cardinality({l.identity[1] : l \in of(a)})
        recent(a) == LatestOf({l.last : l \in of(a)})
        ahead(a, b) ==
            \/ breadth(a) > breadth(b)
            \/ breadth(a) = breadth(b)
               /\ (recent(a) > recent(b) \/ (recent(a) = recent(b) /\ a[2] < b[2]))
    IN  SortedBy({l.account : l \in shared}, ahead)

SelectedPeers(links, subject, limits) ==
    LET ranked == RankedPeers(links, subject)
    IN  ToSet(SubSeq(ranked, 1, IF limits.related < Len(ranked) THEN limits.related ELSE Len(ranked)))

\* The last n elements of a sequence.
LastOf(s, n) == SubSeq(s, IF Len(s) > n THEN Len(s) - n + 1 ELSE 1, Len(s))

\* get_shared_identity_summary: one item for each identity shared with a peer.
SharedIdentities(links, subject, limits) ==
    LET selected == SelectedPeers(links, subject, limits)
        users(i) == {l \in links : l.identity = i}
        peers(i) == {l.account : l \in users(i)} \ {subject}
    IN  {[identity |-> i, count |-> Cardinality(peers(i)), returned |-> peers(i) \cap selected,
          truncated |-> ~(peers(i) \subseteq selected),
          first |-> EarliestOf({l.first : l \in users(i)}),
          last |-> LatestOf({l.last : l \in users(i)})] :
            i \in {l.identity : l \in PeerLinks(links, subject)}}

\* _activity_events: the history of the subject and of its selected peers.
ActivityEvents(view, links, subject, cutoff, limits) ==
    LET accounts == {subject} \cup SelectedPeers(links, subject, limits)
        earlier(e, f) == e.at < f.at \/ (e.at = f.at /\ e.id < f.id)
    IN  SortedBy({e \in view.events : e.at <= cutoff /\ e.account \in accounts}, earlier)

\* _activity_amounts: the totals of the orders that the history places.
OrderTotal(view, history) ==
    ValueOf(view.nodes, {e.order : e \in {x \in ToSet(history) : x.type = "order_placed"}}
                            \cap DOMAIN view.nodes)

\* get_related_activity: aggregates of the whole history, whatever is retrieved.
Activity(view, links, subject, cutoff, limits) ==
    LET history == ActivityEvents(view, links, subject, cutoff, limits)
    IN  [related |-> SelectedPeers(links, subject, limits),
         total |-> Len(history),
         byType |-> [t \in {e.type : e \in ToSet(history)} |->
                        Cardinality({e \in ToSet(history) : e.type = t})],
         accounts |-> Cardinality({e.account : e \in ToSet(history)}),
         amount |-> OrderTotal(view, history),
         truncated |-> Len(history) > limits.events]

\* The events of a history that the timeline shows, in their order.
HighSignal(history) ==
    LET kept[n \in 0 .. Len(history)] ==
            IF n = 0 THEN <<>>
            ELSE IF history[n].type \in TimelineTypes THEN Append(kept[n - 1], history[n])
            ELSE kept[n - 1]
    IN  kept[Len(history)]

\* Mutant: the first events are retrieved instead of the last.
TimelineFirst(view, links, subject, cutoff, limits) ==
    LET history == ActivityEvents(view, links, subject, cutoff, limits)
        signals == HighSignal(history)
        selected == SubSeq(signals, 1, IF Len(signals) < limits.timeline THEN Len(signals)
                                       ELSE limits.timeline)
    IN  [events |-> selected,
         truncated |-> Len(signals) > Len(selected),
         observed |-> IF selected = <<>> THEN cutoff ELSE Last(selected).at]

\* get_case_timeline: the last high-signal events of the retrieved history.
Timeline(view, links, subject, cutoff, limits) ==
    LET history == ActivityEvents(view, links, subject, cutoff, limits)
        signals == HighSignal(LastOf(history, limits.events))
        selected == LastOf(signals, limits.timeline)
    IN  [events |-> selected,
         truncated |-> Len(history) > limits.events \/ Len(signals) > Len(selected),
         observed |-> IF selected = <<>> THEN cutoff ELSE Last(selected).at]

\* get_risk_explanation: the drivers explain the vector that was scored, which
\* is extracted again; None where verification fails.
ExplainedVector(view, subject, cutoff, scored) ==
    IF Extract(view, subject, cutoff) = scored THEN scored ELSE None

-----------------------------------------------------------------------------
(* Properties, for a subject, a cutoff and limits of a view *)

\* What is reached from some nodes over one edge at most.
AlongEdges(edges, seen) ==
    seen \cup UNION {{l.account, l.identity} :
                        l \in {m \in edges : {m.account, m.identity} \cap seen # {}}}

\* A neighbourhood that is not marked as truncated is the whole connected
\* component; a truncated one is still a connected part of it, within its limits.
\* A subject that is not in the graph has none.
NeighborhoodIsHonest(view, subject, cutoff, limits) ==
    LET links == LinksAt(view, cutoff)
        found == IdentityNeighborhood(view, subject, cutoff, limits)
        reached[n \in 0 .. limits.hops] ==
            IF n = 0 THEN {subject} ELSE AlongEdges(found.edges, reached[n - 1])
    IN  found # None =>
          /\ Cardinality(found.nodes) <= limits.nodes
          /\ Cardinality(found.edges) <= limits.edges
          /\ found.nodes = reached[limits.hops]
          /\ \A l \in found.edges : {l.account, l.identity} \subseteq found.nodes
          /\ ~found.truncated =>
               /\ {n \in found.nodes : n[1] = "Account"}
                      = ConnectedAccounts(SnapshotAt(view, cutoff).edges, subject)
               /\ found.edges = {l \in links : l.account \in found.nodes}

\* The investigator sees the peers that the model's features count: an account
\* is related in the evidence exactly when the feature layer says it shares an
\* identity, and each shared identity names all of its peers or says it does not.
PeersAreThoseOfTheFeatures(view, subject, cutoff, limits) ==
    LET links == LinksAt(view, cutoff)
        snapshot == SnapshotAt(view, cutoff)
        peers == PeersOn(snapshot.edges, subject, AccountIdentities(snapshot.edges, subject))
        summaries == SharedIdentities(links, subject, limits)
    IN  /\ ToSet(RankedPeers(links, subject)) = peers
        /\ SelectedPeers(links, subject, limits) \subseteq peers
        /\ peers # {} <=> summaries # {}
        /\ \A s \in summaries :
             /\ s.first <= s.last /\ s.last <= cutoff
             /\ s.truncated <=> Cardinality(s.returned) < s.count
        /\ limits.related >= Cardinality(peers) => UNION {s.returned : s \in summaries} = peers

\* A timeline that is not marked as truncated has every high-signal event of the
\* subject and of the related accounts; a truncated one leaves out only events
\* older than all it shows.
TimelineIsHonest(view, subject, cutoff, limits) ==
    LET links == LinksAt(view, cutoff)
        shown == Timeline(view, links, subject, cutoff, limits)
        wanted == {e \in view.events :
                     /\ e.type \in TimelineTypes /\ e.at <= cutoff
                     /\ e.account \in {subject} \cup SelectedPeers(links, subject, limits)}
    IN  /\ ToSet(shown.events) \subseteq wanted
        /\ ~shown.truncated => ToSet(shown.events) = wanted
        /\ \A e \in wanted \ ToSet(shown.events), f \in ToSet(shown.events) : e.at <= f.at
        /\ shown.observed <= cutoff

\* Everything an investigation at the cutoff can read.
Evidence(view, subject, cutoff, limits) ==
    LET links == LinksAt(view, cutoff)
    IN  [neighborhood |-> IdentityNeighborhood(view, subject, cutoff, limits),
         shared |-> SharedIdentities(links, subject, limits),
         activity |-> Activity(view, links, subject, cutoff, limits),
         timeline |-> Timeline(view, links, subject, cutoff, limits)]
=============================================================================
