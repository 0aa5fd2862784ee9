----------------------------- MODULE PolicyDecision -----------------------------
(***************************************************************************)
(* The cost-sensitive decision (policy/service.py) and the investigation   *)
(* trigger that follows it (investigation/triggers.py).                    *)
(*                                                                         *)
(* A probability is a pair of odds weights [fraud, legit]: fraud / (fraud  *)
(* + legit).  An odds multiplier a / b turns the weights into [fraud * a,  *)
(* legit * b], and an expected cost is scaled by the sum of the weights,   *)
(* which changes neither the order of the actions nor a tie.  So the       *)
(* arithmetic of the model is exact; the rounding of the program's floats  *)
(* is left out.                                                            *)
(***************************************************************************)
EXTENDS Integers, FiniteSets

Action == {"ALLOW", "REVIEW", "BLOCK"}

\* The cost of each action if the case is fraud and if it is legitimate, in
\* hundredths of a paisa: the loss fractions of config are percentages.
ConditionalCosts(config, exposure) ==
    [fraud |-> [ALLOW |-> 100 * config.allowOperational + exposure * config.allowLoss,
                REVIEW |-> 100 * config.reviewOperational + exposure * config.reviewLoss,
                BLOCK |-> 100 * config.blockOperational + exposure * config.blockLoss],
     legit |-> [ALLOW |-> 100 * (config.allowOperational + config.allowLegitimate),
                REVIEW |-> 100 * (config.reviewOperational + config.reviewFriction),
                BLOCK |-> 100 * (config.blockOperational + config.blockFriction)
                            + exposure * config.blockMargin]]

\* odds_adjusted_probability: probabilities 0 and 1 stay what they are.
OddsAdjusted(odds, multiplier) ==
    [fraud |-> odds.fraud * multiplier[1], legit |-> odds.legit * multiplier[2]]

\* Mutant: the two conditional costs are swapped.
SwappedCost(costs, action, odds) ==
    odds.fraud * costs.legit[action] + odds.legit * costs.fraud[action]

ExpectedCost(costs, action, odds) ==
    odds.fraud * costs.fraud[action] + odds.legit * costs.legit[action]

\* a is no worse than b: cheaper, or as cheap and not behind it in the tie-break order.
Beats(costs, rank, odds, a, b) ==
    \/ ExpectedCost(costs, a, odds) < ExpectedCost(costs, b, odds)
    \/ /\ ExpectedCost(costs, a, odds) = ExpectedCost(costs, b, odds)
       /\ rank[a] <= rank[b]

IsChosen(costs, rank, odds, a) == a \in Action /\ \A b \in Action : Beats(costs, rank, odds, a, b)

Chosen(costs, rank, odds) == CHOOSE a \in Action : IsChosen(costs, rank, odds, a)

\* decision_margin_paise: how much more the next action costs.
Margin(costs, rank, odds) ==
    LET chosen == Chosen(costs, rank, odds)
        more(a) == ExpectedCost(costs, a, odds) - ExpectedCost(costs, chosen, odds)
    IN  CHOOSE m \in {more(a) : a \in Action \ {chosen}} :
          \A a \in Action \ {chosen} : m <= more(a)

\* Mutant: only the stressed scenario is compared.
DecideStressed(costs, rank, odds, optimistic, stressed) ==
    LET chosen == Chosen(costs, rank, odds)
    IN  [action |-> chosen, margin |-> Margin(costs, rank, odds),
         stable |-> Chosen(costs, rank, OddsAdjusted(odds, stressed)) = chosen]

\* decide: the action at the calibrated probability, and whether the declared
\* scenarios would choose the same.
Decide(costs, rank, odds, optimistic, stressed) ==
    LET chosen == Chosen(costs, rank, odds)
    IN  [action |-> chosen, margin |-> Margin(costs, rank, odds),
         stable |-> \A m \in {optimistic, stressed} :
                       Chosen(costs, rank, OddsAdjusted(odds, m)) = chosen]

\* Mutant: an unstable decision to allow is left alone.
TriggerOnAction(decision, triggers) ==
    \/ decision.action = "REVIEW" /\ triggers.review
    \/ decision.action = "BLOCK" /\ triggers.block

\* should_investigate
ShouldInvestigate(decision, triggers) ==
    \/ decision.action = "REVIEW" /\ triggers.review
    \/ decision.action = "BLOCK" /\ triggers.block
    \/ decision.action = "ALLOW" /\ ~decision.stable /\ triggers.unstableAllow

-----------------------------------------------------------------------------
(* Properties *)

\* Odds multipliers m between lo and hi (pairs of positive numbers).
Between(lo, m, hi) == lo[1] * m[2] <= m[1] * lo[2] /\ m[1] * hi[2] <= hi[1] * m[2]

\* A decision called stable is the decision at every probability between its
\* scenarios, ties included: two probes are enough.
StableMeansStable(costs, rank, odds, optimistic, stressed, multipliers) ==
    Decide(costs, rank, odds, optimistic, stressed).stable =>
        \A m \in multipliers :
            Between(optimistic, m, stressed) =>
                Chosen(costs, rank, OddsAdjusted(odds, m)) = Chosen(costs, rank, odds)

\* The decision never becomes more lenient as fraud becomes more likely: at
\* higher odds the chosen action loses no more to fraud.
RiskierIsNotMoreLenient(costs, rank, odds, multipliers) ==
    \A m, n \in multipliers :
        (m[1] * n[2] < n[1] * m[2] /\ odds.fraud > 0 /\ odds.legit > 0) =>
            costs.fraud[Chosen(costs, rank, OddsAdjusted(odds, n))]
                <= costs.fraud[Chosen(costs, rank, OddsAdjusted(odds, m))]

\* With every trigger enabled, a case is left without investigation only if it
\* is allowed, and would be allowed at every probability between the scenarios.
UninvestigatedIsCertain(costs, rank, odds, optimistic, stressed, multipliers) ==
    LET decision == Decide(costs, rank, odds, optimistic, stressed)
    IN  ~ShouldInvestigate(decision, [review |-> TRUE, block |-> TRUE, unstableAllow |-> TRUE]) =>
            \A m \in multipliers :
                Between(optimistic, m, stressed) =>
                    Chosen(costs, rank, OddsAdjusted(odds, m)) = "ALLOW"
=============================================================================
