------------------------------ MODULE MCGraphView ------------------------------
(* Views of up to three accounts, built one fact at a time in every order, so *)
(* that every combination of the facts below is extracted from: a chain of    *)
(* devices and a payment identity, two orders shipped to one address, a       *)
(* promotion, and refund events of one order, at times around the window.     *)
EXTENDS GraphView

Key(label, id) == <<label, id>>
A(i) == Key("Account", i)

Edge(id, type, source, target, at, kind) ==
    [id |-> id, type |-> type, source |-> source, target |-> target,
     at |-> at, known |-> at, kind |-> kind]

\* The event of each edge, by its ID; the events of one order name it.
EventNamed(x) ==
    [id |-> x.id, type |-> x.kind, at |-> x.at,
     account |-> IF x.source[1] = "Account" THEN x.source
                 ELSE IF x.source = Key("Order", 1) THEN A(1) ELSE A(3),
     order |-> IF x.target[1] = "Order" THEN x.target
               ELSE IF x.source[1] = "Order" THEN x.source ELSE None]

KnownFacts ==
    {{Edge(1, "USED_DEVICE", A(1), Key("Device", 1), 1, "device_seen")},
     {Edge(2, "USED_DEVICE", A(2), Key("Device", 1), 2, "device_seen")},
     {Edge(3, "PAID_WITH", A(2), Key("PaymentIdentity", 1), 0, "payment_attached")},
     {Edge(4, "PAID_WITH", A(3), Key("PaymentIdentity", 1), 3, "payment_attached")},
     {Edge(5, "PLACED", A(1), Key("Order", 1), 1, "order_placed"),
      Edge(5, "SHIPPED_TO", Key("Order", 1), Key("Address", 1), 1, "order_placed")},
     {Edge(6, "PLACED", A(3), Key("Order", 2), 2, "order_placed"),
      Edge(6, "SHIPPED_TO", Key("Order", 2), Key("Address", 1), 2, "order_placed")},
     {Edge(7, "USED_PROMO", Key("Order", 1), Key("Promotion", 1), 1, "promotion_redeemed")},
     {Edge(8, "USED_PROMO", Key("Order", 2), Key("Promotion", 1), 2, "promotion_redeemed")},
     {Edge(9, "HAS_REFUND", Key("Order", 1), Key("Refund", 1), 2, "refund_requested"),
      Edge(10, "HAS_REFUND", Key("Order", 1), Key("Refund", 2), 2, "refund_requested")},
     {Edge(11, "HAS_REFUND", Key("Order", 1), Key("Refund", 1), 2, "refund_resolved")}}

Labels == {"Account", "Device", "PaymentIdentity", "Order", "Address", "Promotion", "Refund"}

\* Account 3 is created outside the window, account 2 just within it.
NodeOf(k) ==
    IF k[1] = "Account" THEN [created |-> IF k[2] = 3 THEN 0 ELSE 1, createdKnown |-> 1, attr |-> None]
    ELSE [created |-> None, createdKnown |-> None, attr |-> 7]

GraphNodes == [k \in Labels \X (1 .. 3) |-> NodeOf(k)]
GraphEvents == [x \in UNION KnownFacts |-> EventNamed(x)]

\* Limits that bind and limits that do not.
Tight == [hops |-> 2, nodes |-> 3, edges |-> 2, related |-> 1, events |-> 2, timeline |-> 1]
Wide == [hops |-> 9, nodes |-> 9, edges |-> 9, related |-> 9, events |-> 20, timeline |-> 20]
NoRoom == [hops |-> 3, nodes |-> 2, edges |-> 9, related |-> 2, events |-> 3, timeline |-> 2]
BoundedAndNot == {Tight, Wide, NoRoom}

\* Account 4 is not in the graph.
Investigated == {A(1), A(2), A(3), A(4)}
================================================================================
