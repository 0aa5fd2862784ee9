--------------------------- MODULE MCTemporalGraph ---------------------------
(* Small instances of TemporalGraph.  A behaviour is of one scene, chosen at   *)
(* the start:                                                                 *)
(*   runtime   facts about two accounts, an order and its refunds, received    *)
(*             and projected in any order, and read                           *)
(*   twice     an account that is created by a second event, and read         *)
(*   load      the offline world is loaded and reset, with runtime facts      *)
(*   beside    the world is loaded beside runtime facts that share its        *)
(*             address, and both are read                                     *)
EXTENDS TemporalGraph

Fact(id, type, account, order, item, attr, total, at) ==
    [id |-> id, type |-> type, account |-> account, order |-> order,
     item |-> item, attr |-> attr, total |-> total, at |-> at]

Created(id, a, at) == Fact(id, "account_created", a, None, None, None, None, at)
Seen(id, a, d, platform, at) == Fact(id, "device_seen", a, None, d, platform, None, at)
Placed(id, a, o, at) == Fact(id, "order_placed", a, o, 1, "in", 5, at)
Redeemed(id, a, o, at) == Fact(id, "promotion_redeemed", a, o, 1, "sale", None, at)
Asked(id, a, o, at) == Fact(id, "refund_requested", a, o, 1, None, None, at)
Resolved(id, a, o, at) == Fact(id, "refund_resolved", a, o, 1, None, None, at)

SharedDevice ==
    {Created(1, 1, 0), Seen(2, 1, 1, "ios", 0), Seen(3, 2, 1, "android", 0)}
OrderAndRefund ==
    {Placed(4, 1, 1, 0), Asked(5, 1, 1, 0), Resolved(6, 1, 1, 1)}
SharedDeviceAndOrder == SharedDevice \cup OrderAndRefund
LoadFacts ==
    {Created(1, 1, 0), Placed(4, 1, 1, 0), Redeemed(7, 1, 1, 0)}
CreatedTwice == SharedDevice \cup {Created(8, 1, 1)}
Shipped == {Created(1, 1, 0), Placed(4, 1, 1, 0)}
AllFacts == SharedDeviceAndOrder \cup CreatedTwice \cup LoadFacts
OfflineWorld ==
    {Created(11, 2, 0), Seen(12, 2, 1, "web", 0), Placed(13, 2, 2, 1), Redeemed(14, 2, 2, 1), Asked(15, 2, 2, 1)}

CONSTANT Scene
VARIABLE scene

FactsOf(s) ==
    Event \cap [runtime |-> SharedDeviceAndOrder, twice |-> CreatedTwice,
                load |-> LoadFacts, beside |-> Shipped][s]

SceneInit == Init /\ scene \in Scene

SceneNext ==
    /\ UNCHANGED scene
    /\ \/ Tick
       \/ \E e \in FactsOf(scene) :
             Receive(e) \/ Project(e) \/ (scene # "beside" /\ Replay(e))
       \/ scene \in {"load", "beside"} /\ (StartLoad \/ LoadBatch \/ LoadFails)
       \/ scene = "load" /\ Clear
       \/ scene # "load" /\ \E r \in Reader :
             ReadEdges(r) \/ Forget(r) \/ (\E e \in FactsOf(scene) : ReadNodes(r, e))

SceneSpec == SceneInit /\ [][SceneNext]_<<vars, scene>>

==============================================================================
