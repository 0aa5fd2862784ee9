----------------------------- MODULE SyntheticWorld -----------------------------
(***************************************************************************)
(* The generator of the synthetic world (synthetic/world.py): ordinary     *)
(* customers, benign contexts that share identities, then rings, whose     *)
(* members have an ordinary history and one campaign action on top of it.  *)
(*                                                                         *)
(* A time is a number of minutes since start_at.  An instant that is drawn *)
(* is the first or the last that can be; what depends on a probability is  *)
(* a choice.  An identity is <<account, n>>, which the account started     *)
(* with (n = 0) or got before its n-th order, or <<0, g>>, which the group *)
(* g shares.                                                               *)
(***************************************************************************)
EXTENDS Integers, Sequences, FiniteSets

CONSTANTS
    Days,           \* end_at - start_at
    Fraction,       \* percentages of the window that campaign actions are drawn at
    Selections,     \* sets of identities that a lifecycle change replaces or a ring shares
    MaxHistory,     \* bound: accounts and ordinary orders together
    None

\* Strategies and what the members share are drawn; a plan shares something.
Kind == {"device", "ip", "payment", "address"}
Strategy == {"promo", "refund", "mixed"}

VARIABLES
    accounts,   \* [created, ring, action]: ring and action are 0 without a campaign
    facts,      \* events: [type, at, account, refs, order, label]
    group       \* the latest context or ring: [id, kind, strategy, shared, members]

vars == <<accounts, facts, group>>

-----------------------------------------------------------------------------
Hour == 60
Day == 24 * Hour
End == Days * Day

Smaller(x, y) == IF x <= y THEN x ELSE y
Larger(x, y) == IF x <= y THEN y ELSE x

\* _timestamp: a minute of a day before the latest one.
Timestamp(latestAt) ==
    LET availableDays == Larger(Smaller(End - 7 * Day, latestAt) \div Day, 1)
    IN  {0, (availableDays * Day) - 1}

\* Mutant: members are created like any other account.
AnyAccountTimestamp(actionAt) == Timestamp(End)

\* _campaign_account_timestamp
CampaignAccountTimestamp(actionAt) == Timestamp(actionAt - Hour)

\* _campaign_action_timestamp
CampaignActionTimestamp ==
    LET availableDays == Days - 7
        day(f) == Smaller(((availableDays * f) + 50) \div 100, availableDays)
    IN  UNION {{day(f) * Day, (day(f) * Day) + Day - 1} : f \in Fraction}

\* _order_times: an instant of the account's history, moved within its day and
\* then back between its first hour and the last days of the window.
OrderTimes(created) ==
    LET earliest == created + Hour
        latest == End - (4 * Day)
        dayOf(t) == (t \div Day) * Day
        candidates == UNION {{dayOf(t), dayOf(t) + Day - 1} : t \in {earliest, latest}}
    IN  {Smaller(Larger(c, earliest), latest) : c \in candidates}

-----------------------------------------------------------------------------
(* One account's history. *)

Fact(type, at, a, refs, order, label) ==
    [type |-> type, at |-> at, account |-> a, refs |-> refs, order |-> order, label |-> label]

NoRefs == [k \in Kind |-> None]

\* The identities an order uses are seen in the minutes before it.
OrderFacts(a, refs, n, at) ==
    {Fact("device_seen", at - 5, a, refs, 0, 0), Fact("ip_seen", at - 3, a, refs, 0, 0),
     Fact("payment_attached", at - 1, a, refs, 0, 0), Fact("order_placed", at, a, refs, n, 0)}

PromotionFacts(a, refs, n, at, label) ==
    {Fact("promotion_redeemed", at + 1, a, refs, n, label)}

\* _emit_refund, with the longest waits that can be drawn.
EmitRefund(a, refs, n, at, label) ==
    LET requested == Smaller(at + (2 * Day), End - Day)
        resolved == Smaller(requested + (2 * Day), End)
    IN  {Fact("refund_requested", requested, a, refs, n, label),
         Fact("refund_resolved", resolved, a, refs, n, label)}

\* An ordinary order: when, what was replaced before it, what follows it (its
\* promotion and its refund do not depend on each other).
Orders(created) ==
    [at : OrderTimes(created), replaced : Selections, then : {"nothing", "promotion", "refund"}]

\* Histories of at most as many orders, in the order of their times.
Histories(created, most) ==
    {h \in UNION {[1 .. n -> Orders(created)] : n \in 0 .. most} :
        /\ \A i \in 1 .. Len(h) - 1 : h[i].at <= h[i + 1].at
        /\ h # <<>> => h[1].replaced = {}}

\* _replace_refs, for every order up to the n-th.
RefsOf(a, initial, orders, n) ==
    [k \in Kind |->
        LET replaced == {j \in 2 .. n : k \in orders[j].replaced}
        IN  IF replaced = {} THEN initial[k]
            ELSE <<a, CHOOSE j \in replaced : \A i \in replaced : i <= j>>]

\* _emit_ordinary_history
EmitOrdinaryHistory(a, created, initial, orders) ==
    {Fact("account_created", created, a, NoRefs, 0, 0),
     Fact("device_seen", created + 5, a, initial, 0, 0),
     Fact("ip_seen", created + 7, a, initial, 0, 0),
     Fact("payment_attached", created + 9, a, initial, 0, 0)}
    \cup UNION {LET refs == RefsOf(a, initial, orders, n)
                    at == orders[n].at
                IN  OrderFacts(a, refs, n, at)
                    \cup (IF orders[n].then = "promotion"
                          THEN PromotionFacts(a, refs, n, at, 0) ELSE {})
                    \cup (IF orders[n].then = "refund"
                          THEN EmitRefund(a, refs, n, at, 0) ELSE {}) :
                n \in DOMAIN orders}

\* Mutant: the identities of the last order, whenever it is placed.
RefsAtEnd(a, initial, orders, currentAt) == RefsOf(a, initial, orders, Len(orders))

\* The identities in use at a cutoff: those of the last order before it.
RefsAtCutoff(a, initial, orders, currentAt) ==
    RefsOf(a, initial, orders, Cardinality({n \in DOMAIN orders : orders[n].at - 5 <= currentAt}))

-----------------------------------------------------------------------------
(* Populations. *)

Init ==
    /\ accounts = <<>> /\ facts = {}
    /\ group = [id |-> 0, kind |-> "none", strategy |-> None, shared |-> {}, members |-> 0]

Number == Len(accounts) + 1

\* Mutant: a ring's members start with what it shares.
NewRefsOfGroup(shared) ==
    [k \in Kind |-> IF k \in shared \cup group.shared THEN <<0, group.id>> ELSE <<Number, 0>>]

\* _new_refs: shared identities are the group's, the others the account's own.
NewRefs(shared) == [k \in Kind |-> IF k \in shared THEN <<0, group.id>> ELSE <<Number, 0>>]

\* What the bound leaves for the orders of the next account.
OrdersLeft ==
    LET placed == Cardinality({f \in facts : f.type = "order_placed"})
        actions == Cardinality({a \in DOMAIN accounts : accounts[a].ring # 0})
    IN  MaxHistory - Number - (placed - actions)

\* _create_account, and the facts emitted for it.
Enroll(account, emitted) ==
    /\ OrdersLeft >= 0
    /\ accounts' = Append(accounts, account)
    /\ facts' = facts \cup emitted

Ordinary(created, shared, orders) ==
    Enroll([created |-> created, ring |-> 0, action |-> 0],
           EmitOrdinaryHistory(Number, created, NewRefs(shared), orders))

\* _create_independent_customer
CreateIndependentCustomer ==
    /\ group.kind = "none"
    /\ \E created \in Timestamp(End) : \E h \in Histories(created, OrdersLeft) :
         Ordinary(created, {}, h)
    /\ UNCHANGED group

\* Contexts are created after the customers, offices after households, rings
\* after both; each has members, a ring at least two.
Rank == [none |-> 0, household |-> 1, office |-> 2, ring |-> 3]

Begin(kind, strategy, shared) ==
    /\ OrdersLeft >= 0
    /\ Rank[group.kind] <= Rank[kind]
    /\ group.kind # "none" => group.members >= IF group.kind = "ring" THEN 2 ELSE 1
    /\ group' = [id |-> group.id + 1, kind |-> kind, strategy |-> strategy,
                 shared |-> shared, members |-> 0]
    /\ UNCHANGED <<accounts, facts>>

\* household_plan and office_network_plan: what every member shares.
ContextPlans == [household |-> {"address", "ip"}, office |-> {"ip"}]

BeginContext == \E kind \in DOMAIN ContextPlans : Begin(kind, None, ContextPlans[kind])

\* _create_benign_context, for one member: a device or a payment may be shared.
CreateContextMember ==
    /\ group.kind \in DOMAIN ContextPlans
    /\ \E created \in Timestamp(End), more \in SUBSET {"device", "payment"} :
         \E h \in Histories(created, OrdersLeft) : Ordinary(created, group.shared \cup more, h)
    /\ group' = [group EXCEPT !.members = @ + 1]

\* plan_campaign: a ring shares something, at least a payment identity.
BeginRing ==
    \E strategy \in Strategy, selected \in Selections :
        Begin("ring", strategy, IF selected = {} THEN {"payment"} ELSE selected)

\* _campaign_refs: shared identities overlay the current ones; the first two
\* members share all of them, later ones those they draw.
CampaignRefs(current, joined) ==
    [k \in Kind |->
        IF k \in group.shared /\ (group.members < 2 \/ k \in joined) THEN <<0, group.id>>
        ELSE current[k]]

\* Mutant: a promotion is labelled where promotions are the abuse.
InjectPartlyLabelled(refs, n, at, redeems) ==
    LET ring == group.id
    IN  OrderFacts(Number, refs, n, at)
        \cup (IF group.strategy \in {"promo", "mixed"} \/ redeems
              THEN PromotionFacts(Number, refs, n, at,
                                  IF group.strategy = "mixed" THEN ring ELSE 0) ELSE {})
        \cup (IF group.strategy \in {"refund", "mixed"}
              THEN EmitRefund(Number, refs, n, at, ring) ELSE {})

\* _inject_campaign_action: an order whose promotion and refund are labelled.
InjectCampaignAction(refs, n, at, redeems) ==
    LET ring == group.id
    IN  OrderFacts(Number, refs, n, at)
        \cup (IF group.strategy \in {"promo", "mixed"} \/ redeems
              THEN PromotionFacts(Number, refs, n, at, ring) ELSE {})
        \cup (IF group.strategy \in {"refund", "mixed"}
              THEN EmitRefund(Number, refs, n, at, ring) ELSE {})

\* _create_ring, for one member.
CreateRingMember ==
    /\ group.kind = "ring"
    /\ \E at \in CampaignActionTimestamp, redeems \in BOOLEAN,
          joined \in SUBSET group.shared :
         \E created \in CampaignAccountTimestamp(at) :
           \E h \in Histories(created, OrdersLeft) :
             LET initial == NewRefs({})
                 current == RefsAtCutoff(Number, initial, h, at - 5)
             IN  Enroll([created |-> created, ring |-> group.id, action |-> at],
                        EmitOrdinaryHistory(Number, created, initial, h)
                        \cup InjectCampaignAction(CampaignRefs(current, joined),
                                                  Len(h) + 1, at, redeems))
    /\ group' = [group EXCEPT !.members = @ + 1]

Next ==
    \/ CreateIndependentCustomer
    \/ BeginContext \/ CreateContextMember
    \/ BeginRing \/ CreateRingMember

Spec == Init /\ [][Next]_vars

-----------------------------------------------------------------------------
(* Campaign sizes (_sample_campaign_sizes). *)

\* Mutant: a draw may leave a single account over.
EligibleLeavingOne(sizes, remaining) == {s \in sizes : s <= remaining}

\* Sizes that fit and leave no account alone.
Eligible(sizes, remaining) == {s \in sizes : s <= remaining /\ remaining - s # 1}

\* PrevalenceProfile, validate_strategy_weights: what ring_sizes may be.
ValidSizes(sizes) == {2, 3} \subseteq sizes /\ \A s \in sizes : s >= 2

-----------------------------------------------------------------------------
(* Properties *)

\* The one available day that _timestamp always leaves may put the creation of an
\* account after an action of the first day and hour of the window.
ActsEarly(a) == accounts[a].ring # 0 /\ accounts[a].action < Day + Hour

\* Whatever day an action is drawn on, an ordinary history starts with its account's
\* creation; but for an early action, the account is there an hour before it, and
\* otherwise only the action's own facts may precede the account. Nothing happens
\* after the window; a refund is requested after its order and resolved after that
\* (world.py, _campaign_account_timestamp, _order_times, _emit_refund).
HistoriesAreCausal ==
    /\ \A a \in DOMAIN accounts :
         accounts[a].ring # 0 /\ ~ActsEarly(a) =>
             accounts[a].created + Hour <= accounts[a].action
    /\ \A f \in facts :
        /\ f.at <= End
        /\ f.at < accounts[f.account].created =>
             ActsEarly(f.account) /\ f.at >= accounts[f.account].action - 5
        /\ f.type = "refund_requested" =>
             \E e \in facts : /\ e.type = "order_placed" /\ e.account = f.account
                              /\ e.order = f.order /\ e.at < f.at
        /\ f.type = "refund_resolved" =>
             \E e \in facts : /\ e.type = "refund_requested" /\ e.account = f.account
                              /\ e.order = f.order /\ e.at < f.at

\* What _campaign_account_timestamp says of every member of a ring ("Create an
\* enrolled account before its separately injected action"): false for one whose
\* action is drawn in the first day.
AccountsPrecedeActions ==
    \A a \in DOMAIN accounts :
        accounts[a].ring # 0 => accounts[a].created <= accounts[a].action

\* Nothing shows a campaign before its action, as _inject_campaign_action says
\* ("campaign-only identities are introduced here, rather than being used by
\* ordinary activity"): what a ring shares is seen with its members only, and with
\* each from the first fact of its action on.
CampaignIdentitiesAreNew ==
    \A a \in DOMAIN accounts : accounts[a].ring # 0 =>
        \A f \in facts : \A k \in Kind :
            f.refs[k] = <<0, accounts[a].ring>> =>
                /\ accounts[f.account].ring = accounts[a].ring
                /\ f.at >= accounts[f.account].action - 5

\* A campaign action goes on with the identities in use at its time, as
\* _campaign_refs says: what it does not share with its ring is what the account's
\* last order before it used, or what the account started with.
ActionsContinue ==
    \A a \in DOMAIN accounts : accounts[a].ring # 0 =>
        LET orders == {f \in facts : f.type = "order_placed" /\ f.account = a}
            action == CHOOSE f \in orders : \A g \in orders : g.order <= f.order
            before == {f \in orders \ {action} : f.at <= action.at}
        IN  \A k \in Kind : action.refs[k][1] # 0 =>
              /\ before = {} => action.refs[k] = <<a, 0>>
              /\ \A f \in before :
                   (\A g \in before : g.order <= f.order) => action.refs[k] = f.refs[k]

\* Labels mark the campaigns and nothing else: every member of a ring has a
\* labelled fact, with the ring's label, not before its action; nobody else has.
LabelsAreOfCampaigns ==
    /\ \A f \in facts : f.label # 0 =>
         f.label = accounts[f.account].ring /\ f.at > accounts[f.account].action
    /\ \A a \in DOMAIN accounts :
         accounts[a].ring # 0 => \E f \in facts : f.account = a /\ f.label # 0

\* Whatever sizes the profile accepts, a target of at least two accounts is always
\* reached: sampling never has accounts left and no size for them (ValueError).
TargetIsReached(sizes, remaining) == remaining = 0 \/ Eligible(sizes, remaining) # {}
=============================================================================
