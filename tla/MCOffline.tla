------------------------------- MODULE MCOffline -------------------------------
(* Small instances of the offline programs; the views are those of             *)
(* MCGraphView.                                                                *)
EXTENDS OfflinePrograms, MCGraphView

-----------------------------------------------------------------------------
(* Version 2 trains another model on the same manifest, with other features;   *)
(* version 3 has another configuration, and a manifest too thin to calibrate.  *)
ModelOf == <<"m1", "m2", "m1">>
ManifestOf == <<"s1", "s1", "s2">>
ConfigOf == <<"c1", "c1", "c2">>
FeaturesOf == <<"f1", "f2", "f1">>
PolicyOf == <<"p1", "p1", "p2">>

(* Two cases and two models; one case of abuse in either plan. *)
TwoCases == <<"c1", "c2">>
TwoModels == <<"luna", "terra">>
Plans == {[c1 |-> "PROMO_RING", c2 |-> "INCONCLUSIVE"],
          [c1 |-> "BENIGN_SHARED_IDENTITY", c2 |-> "PROMO_RING"]}

Reported(status, pattern, grounding) ==
    [status |-> status, pattern |-> pattern, grounding |-> grounding]

FinalReports ==
    {Reported("COMPLETED", p, FALSE) :
        p \in {"PROMO_RING", "MIXED_ABUSE", "BENIGN_SHARED_IDENTITY", "INCONCLUSIVE"}}
    \cup {Reported("INSUFFICIENT_EVIDENCE", p, FALSE) :
            p \in {"BENIGN_SHARED_IDENTITY", "PROMO_RING"}}
    \cup {Reported("BUDGET_EXHAUSTED", "INCONCLUSIVE", FALSE)}
    \cup {Reported("FAILED", "INCONCLUSIVE", g) : g \in BOOLEAN}

(* One lifecycle change, of a device and an address. *)
OneChange == {{}, {"device", "address"}}

-----------------------------------------------------------------------------
(* Policy: the default costs in rupees (paise / 100), and tie-break orders. *)
RupeeCosts ==
    [allowOperational |-> 0, allowLegitimate |-> 0, allowLoss |-> 100,
     reviewOperational |-> 15, reviewFriction |-> 5, reviewLoss |-> 20,
     blockOperational |-> 2, blockMargin |-> 10, blockFriction |-> 10, blockLoss |-> 1]

HalfOdds == <<1, 2>>
DoubleOdds == <<2, 1>>
SomeOdds == {<<1, 4>>, <<1, 2>>, <<2, 3>>, <<1, 1>>, <<3, 2>>, <<2, 1>>, <<4, 1>>}

SmallOdds == {o \in [fraud : 0 .. 5, legit : 0 .. 5] : o.fraud + o.legit > 0}

(* Addresses of one locality, in another the third again, and one without an   *)
(* anchor: the similarities are those of these normalized lines.               *)
(*   1  12 lotus rd apt 4    2  12 lotus rd apt 5   3  12 lotus rd apt 45      *)
(*   4  14 lotus rd apt 45   5  12 lotos rd apt 45  6  as 3      7  7a rd      *)
(* Anchors: 1 "12", 2 "14", 3 "4", 4 "45", 5 "5", 6 "lotos", 7 "lotus".        *)
AddressBucket == [f \in 1 .. 7 |-> IF f = 6 THEN 2 ELSE 1]
AddressAnchors == <<{1, 3, 7}, {1, 5, 7}, {1, 4, 7}, {2, 4, 7}, {1, 4, 6}, {1, 4, 7}, {}>>
AddressRatio ==
    <<<<1000, 941, 971, 914, 914, 971, 273>>,
      <<941, 1000, 971, 914, 914, 971, 273>>,
      <<971, 971, 1000, 944, 944, 1000, 261>>,
      <<914, 914, 944, 1000, 889, 944, 261>>,
      <<914, 914, 944, 889, 1000, 944, 261>>,
      <<971, 971, 1000, 944, 944, 1000, 261>>,
      <<273, 273, 261, 261, 261, 261, 1000>>>>

(* Worlds: cutoffs at 2, 4 and 6; the accounts are created at 0, 2 and 3. *)
SplitCutoffs == <<2, 4, 6>>
AccountsCreated == <<0, 2, 3>>
Abuse ==
    {x \in [account : DOMAIN AccountsCreated, group : {"g", "h"}, at : {1, 2, 3, 4, 6, 7}] :
        x.at >= AccountsCreated[x.account]}

OneOfEach == [positive |-> 1, negative |-> 1]
================================================================================
