--------------------------- MODULE FeatureExtraction ---------------------------
(***************************************************************************)
(* The feature layer (mayajaal/features): what the extractors compute for  *)
(* one account from a cutoff view of the identity graph.  It is pure: a    *)
(* view goes in, a vector comes out, or None where the Python code raises  *)
(* (a node that the view's edges name and its nodes do not hold, an        *)
(* account whose creation is not known at the cutoff).                     *)
(*                                                                         *)
(* A view is [nodes, edges].  nodes maps a key <<label, id>> to its        *)
(* properties [created, createdKnown, attr]; attr stands for the one       *)
(* property the extractors read from a node of that label: total_paise of  *)
(* an Order, platform or device_type of a Device, method of a              *)
(* PaymentIdentity, code of a Promotion, country_code of an Address.  An   *)
(* edge is [type, source, target, id, at, known, kind]; source and target  *)
(* are keys, id and kind are the id and the type of its event.             *)
(***************************************************************************)
EXTENDS Naturals, FiniteSets, FiniteSetsExt

CONSTANTS None,     \* an absent property, an absent vector
          Window    \* RECENT_WINDOW, in the model's time unit

ASSUME FeatureAssumption == Window \in Nat

IdentityTypes == {"USED_DEVICE", "SEEN_FROM", "PAID_WITH"}
SharedTypes == IdentityTypes \cup {"SHIPPED_TO"}

\* snapshot_at keeps the edges that had occurred by the cutoff.
SnapshotAt(view, cutoff) ==
    [view EXCEPT !.edges = {x \in view.edges : x.at <= cutoff}]

----------------------------------------------------------------------------
(* AccountGraphIndex, built from the edges of the view alone. *)

TargetsOf(edges, type, key) ==
    {x.target : x \in {y \in edges : y.type = type /\ y.source = key}}

AccountOrders(edges, account) == TargetsOf(edges, "PLACED", account)

\* An address is an identity of the account that placed an order shipped to it.
AccountIdentities(edges, account) ==
    {<<x.type, x.target>> : x \in {y \in edges :
                                y.type \in IdentityTypes /\ y.source = account}}
    \cup {<<"SHIPPED_TO", t>> :
            t \in UNION {TargetsOf(edges, "SHIPPED_TO", o) :
                            o \in AccountOrders(edges, account)}}

Accounts(edges) ==
    {x.source : x \in {y \in edges : y.type \in IdentityTypes \cup {"PLACED"}}}

IdentityAccounts(edges, identity) ==
    {a \in Accounts(edges) : identity \in AccountIdentities(edges, a)}

\* Mutant: an account is its own peer.
PeersAndSelf(edges, account, identities) ==
    UNION {IdentityAccounts(edges, i) : i \in identities}

PeersOn(edges, account, identities) ==
    (UNION {IdentityAccounts(edges, i) : i \in identities}) \ {account}

\* Mutant: the search does not go beyond the first ring.
OneRing(edges, account) ==
    {account} \cup PeersOn(edges, account, AccountIdentities(edges, account))

\* The breadth-first search of connected_accounts, one ring at a time; as many
\* rings as there are accounts reach everything that can be reached.
ConnectedAccounts(edges, account) ==
    LET ring[n \in 0 .. Cardinality(Accounts(edges))] ==
            IF n = 0 THEN {account}
            ELSE ring[n - 1] \cup
                 UNION {PeersOn(edges, a, AccountIdentities(edges, a)) : a \in ring[n - 1]}
    IN  ring[Cardinality(Accounts(edges))]

----------------------------------------------------------------------------
(* The extractors. *)

\* account_created_at: None where it raises.
CreatedAt(view, account, cutoff) ==
    IF /\ account \in DOMAIN view.nodes
       /\ view.nodes[account].created # None
       /\ view.nodes[account].created <= cutoff
       /\ \/ view.nodes[account].createdKnown = None
          \/ view.nodes[account].createdKnown <= cutoff
    THEN view.nodes[account].created ELSE None

\* max(..., key = (event_time, event_id))
IsLatest(x, edges) ==
    \A y \in edges : y.at < x.at \/ (y.at = x.at /\ y.id <= x.id)

LatestTargets(edges) == {x.target : x \in {y \in edges : IsLatest(y, edges)}}

OfType(edges, type, sources) ==
    {x \in edges : x.type = type /\ x.source \in sources}

\* min(addresses): ids are numbers here, so the least is defined.
Least(keys) == {k \in keys : \A l \in keys : k[2] <= l[2]}

\* Where the account's latest order was shipped to.
LatestAddresses(edges, account) ==
    UNION {Least(TargetsOf(edges, "SHIPPED_TO", o)) :
              o \in LatestTargets(OfType(edges, "PLACED", {account}))}

\* The nodes whose properties one extraction reads.
ConsultedNodes(edges, account) ==
    LET orders == AccountOrders(edges, account)
    IN  orders
        \cup ConnectedAccounts(edges, account)
        \cup (UNION {LatestTargets(OfType(edges, t, {account})) :
                        t \in {"USED_DEVICE", "PAID_WITH"}})
        \cup LatestTargets(OfType(edges, "USED_PROMO", orders))
        \cup LatestAddresses(edges, account)

Consistent(view, account, cutoff) ==
    /\ ConsultedNodes(view.edges, account) \subseteq DOMAIN view.nodes
    /\ \A a \in ConnectedAccounts(view.edges, account) : CreatedAt(view, a, cutoff) # None

IdentityFeatures(edges, account) ==
    LET mine == AccountIdentities(edges, account)
        on(type) == {i \in mine : i[1] = type}
    IN  [held       |-> [t \in SharedTypes |-> Cardinality(on(t))],
         sharedWith |-> [t \in SharedTypes |-> Cardinality(PeersOn(edges, account, on(t)))],
         maxReuse   |-> Max({0} \cup {Cardinality(IdentityAccounts(edges, i)) : i \in mine}),
         neighbours |-> Cardinality(PeersOn(edges, account, mine)),
         component  |-> Cardinality(ConnectedAccounts(edges, account))]

RefundEdges(edges, orders, kind) ==
    {x \in OfType(edges, "HAS_REFUND", orders) : x.kind = kind}

CommerceFeatures(edges, account) ==
    LET orders == AccountOrders(edges, account)
        promos == UNION {TargetsOf(edges, "USED_PROMO", o) : o \in orders}
        sharers == {a \in Accounts(edges) : \E o \in AccountOrders(edges, a) :
                       TargetsOf(edges, "USED_PROMO", o) \cap promos # {}}
        requests == RefundEdges(edges, orders, "refund_requested")
    IN  [orders     |-> Cardinality(orders),
         promotions |-> MapThenSumSet(LAMBDA o : Cardinality(TargetsOf(edges, "USED_PROMO", o)),
                                      orders),
         promoPeers |-> Cardinality(sharers \ {account}),
         requested  |-> Cardinality(requests),
         resolved   |-> Cardinality(RefundEdges(edges, orders, "refund_resolved")),
         refunded   |-> Cardinality({x.source : x \in requests})]

Recent(time, cutoff) == cutoff <= time + Window /\ time <= cutoff

VelocityFeatures(view, account, cutoff) ==
    LET peers == ConnectedAccounts(view.edges, account) \ {account}
        events == {x \in view.edges : /\ x.type \in IdentityTypes
                                      /\ x.source # account
                                      /\ <<x.type, x.target>> \in AccountIdentities(view.edges, account)}
    IN  [created |-> Cardinality({a \in peers : Recent(CreatedAt(view, a, cutoff), cutoff)}),
         links   |-> Cardinality({x \in events : Recent(x.at, cutoff)})]

Attributes(view, keys) == {view.nodes[k].attr : k \in keys}

\* What the orders are worth together.
ValueOf(nodes, orders) == MapThenSumSet(LAMBDA o : nodes[o].attr, orders)

\* The categorical features and the order total: what is read from a node's
\* property and not counted from edges.
CategoricalFeatures(view, account) ==
    LET orders == AccountOrders(view.edges, account)
        latest(type) == LatestTargets(OfType(view.edges, type, {account}))
    IN  [device  |-> Attributes(view, latest("USED_DEVICE")),
         payment |-> Attributes(view, latest("PAID_WITH")),
         promo   |-> Attributes(view, LatestTargets(OfType(view.edges, "USED_PROMO", orders))),
         country |-> Attributes(view, LatestAddresses(view.edges, account)),
         value   |-> ValueOf(view.nodes, orders)]

\* FeatureService.extract
Extract(stored, account, cutoff) ==
    LET view == SnapshotAt(stored, cutoff)
    IN  IF ~Consistent(view, account, cutoff) THEN None
        ELSE [age        |-> cutoff - CreatedAt(view, account, cutoff),
              identity   |-> IdentityFeatures(view.edges, account),
              commerce   |-> CommerceFeatures(view.edges, account),
              velocity   |-> VelocityFeatures(view, account, cutoff),
              categories |-> CategoricalFeatures(view, account)]

\* A vector without what it reads from the properties of identity and commerce
\* nodes.
Counts(vector) ==
    [age |-> vector.age, identity |-> vector.identity,
     commerce |-> vector.commerce, velocity |-> vector.velocity]

----------------------------------------------------------------------------
(* What every vector satisfies; the checks build the views edge by edge. *)

Closed(edges, accounts) ==
    \A a \in accounts : PeersOn(edges, a, AccountIdentities(edges, a)) \subseteq accounts

\* connected_accounts finds the component of the account and nothing more: the
\* least set that holds the account and is closed under sharing an identity,
\* shipping addresses included.
ComponentIsLeast(view) ==
    \A a \in Accounts(view.edges) :
        LET found == ConnectedAccounts(view.edges, a)
        IN  /\ a \in found /\ Closed(view.edges, found)
            /\ \A s \in SUBSET Accounts(view.edges) :
                  a \in s /\ Closed(view.edges, s) => found \subseteq s

\* The features of one vector agree with one another, as the model that is
\* trained on them takes for granted: an identity is shared by no more accounts
\* than the component has, the refund rate is at most one, an account shares an
\* identity of some type exactly if it has a neighbour, and no more peers were
\* created recently than there are peers (extractors.py).
FeaturesAgree(view, cutoff) ==
    \A a \in Accounts(view.edges) :
        LET v == Extract(view, a, cutoff)
        IN  v # None =>
              /\ v.identity.maxReuse <= v.identity.component
              /\ v.identity.neighbours < v.identity.component
              /\ v.identity.neighbours = 0
                    <=> \A t \in SharedTypes : v.identity.sharedWith[t] = 0
              /\ v.identity.maxReuse > 1 <=> v.identity.neighbours > 0
              /\ v.commerce.refunded <= v.commerce.orders
              /\ v.commerce.refunded <= v.commerce.requested
              /\ v.velocity.created < v.identity.component
              /\ v.velocity.links > 0 => v.identity.neighbours > 0
================================================================================
