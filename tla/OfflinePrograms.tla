---------------------------- MODULE OfflinePrograms ----------------------------
(***************************************************************************)
(* The offline programs, each in a lane of its own: a behaviour is one     *)
(* lane's, chosen at the start, and leaves the variables of the others     *)
(* alone.  Programs that hold no state compute from an input that grows.   *)
(*   view        graph views, built fact by fact (GraphView)               *)
(*   policy      one decision: odds, exposure and tie-break order          *)
(*   addresses   sequences of addresses, built one at a time               *)
(*   worlds      labelled worlds, built one event at a time                *)
(*   scores      validation scores, built one record at a time             *)
(*   lineage     commands over the model's files (ModelLineage)            *)
(*   comparison  the comparison of investigation models (ModelComparison)  *)
(*   generator   the accounts of a synthetic world (SyntheticWorld)        *)
(*   sizes       campaign sizes drawn for a target (SyntheticWorld)        *)
(***************************************************************************)
EXTENDS GraphView, PolicyDecision, AddressResolution, SplitManifest

CONSTANTS
    Torn,
    Version, Model, Manifest, Config, Features, Policy, Supported,  \* ModelLineage
    MaxEvaluations,   \* bound: evaluations started in the lineage lane
    Expectation, Cases, Models, Reports,                            \* ModelComparison
    Days, Fraction, Selections,                                     \* SyntheticWorld
    MaxHistory,       \* bound: generated accounts and ordinary orders together
    MaxSize,          \* bound: campaign sizes
    Target,           \* bound: labelled accounts to be drawn
    Costs, Optimistic, Stressed,    \* the policy configuration
    Multipliers,      \* the odds multipliers that decisions are compared at
    Odds, Exposures,  \* of the decisions
    MaxAddresses,     \* bound: addresses resolved
    Created,          \* [accounts of a labelled world -> times]
    LabelledEvents,   \* what may be labelled in it
    MaxLabelled,      \* bound: labelled events
    Cutoffs,          \* of the three splits
    MaxScore,         \* bound: distinct validation scores
    MaxRecords,       \* bound: validation records
    Minimum           \* the support that the evaluation configuration requires

VARIABLES
    lane,
    input,      \* what the pure lanes compute from, or None
    files, command, evaluations, runtime, finished,         \* ModelLineage
    expected, phase, report, records, summary, rendered,    \* ModelComparison
    accounts, facts, group                                  \* SyntheticWorld

lineageVars == <<files, command, evaluations, runtime, finished>>
comparisonVars == <<expected, phase, report, records, summary, rendered>>
worldVars == <<accounts, facts, group>>
allVars == <<view, lane, input, lineageVars, comparisonVars, worldVars>>

Lineage == INSTANCE ModelLineage WITH MaxRuns <- MaxEvaluations
Comparison == INSTANCE ModelComparison
World == INSTANCE SyntheticWorld

\* The policy configuration has costs that are not negative and multipliers that
\* are positive; a probability weighs fraud against its absence (policy/models.py).
ASSUME PolicyAssumption ==
    /\ \A k \in DOMAIN Costs : Costs[k] \in Nat
    /\ DOMAIN Costs = {"allowOperational", "allowLegitimate", "allowLoss",
                       "reviewOperational", "reviewFriction", "reviewLoss",
                       "blockOperational", "blockMargin", "blockFriction", "blockLoss"}
    /\ \A o \in Odds : o.fraud \in Nat /\ o.legit \in Nat
    /\ Exposures \subseteq Nat
    /\ \A m \in Multipliers \cup {Optimistic, Stressed} : m[1] \in Nat \ {0} /\ m[2] \in Nat \ {0}

\* The cutoffs of the splits are in order; both classes need some support
\* (evaluation/models.py).
ASSUME EvaluationAssumption ==
    /\ Cutoffs[1] \in Nat /\ Cutoffs[2] \in Nat /\ Cutoffs[3] \in Nat
    /\ Cutoffs[1] < Cutoffs[2] /\ Cutoffs[2] < Cutoffs[3]
    /\ \A x \in LabelledEvents : x.at \in Nat
    /\ Minimum \in [positive : Nat \ {0}, negative : Nat \ {0}]

\* The window has at least two weeks (profile.py, validate_time_window).
ASSUME WindowAssumption == Days \in Nat /\ Days >= 14 /\ Fraction \subseteq Nat

-----------------------------------------------------------------------------
(* Every tie-break order of the actions is an assignment of ranks. *)
Decisions ==
    [odds : Odds, exposure : Exposures,
     rank : {r \in [Action -> 1 .. 3] : \A a, b \in Action : r[a] = r[b] => a = b}]

RingSizes == {sizes \in SUBSET (1 .. MaxSize) : World!ValidSizes(sizes)}

OfflineInit ==
    /\ Lineage!Init
    /\ Comparison!Init
    /\ World!Init
    /\ \/ lane \in {"lineage", "comparison", "generator"} /\ view = None /\ input = None
       \/ lane = "view" /\ view = EmptyView /\ input = None
       \/ lane = "policy" /\ view = None /\ input \in Decisions
       \/ lane \in {"addresses", "scores"} /\ view = None /\ input = <<>>
       \/ lane = "worlds" /\ view = None /\ input = {}
       \/ /\ lane = "sizes" /\ view = None
          /\ input \in [sizes : RingSizes, remaining : 2 .. Target]
    /\ lane # "comparison" => expected = CHOOSE e \in Expectation : TRUE

\* A step of a pure lane: its input grows.
Grow ==
    \/ /\ lane = "addresses" /\ Len(input) < MaxAddresses
       /\ \E f \in Form : input' = Append(input, f)
    \/ /\ lane = "worlds" /\ Cardinality(input) < MaxLabelled
       /\ \E x \in LabelledEvents \ input : input' = input \cup {x}
    \/ /\ lane = "scores" /\ Len(input) < MaxRecords
       /\ \E s \in 1 .. MaxScore, p \in BOOLEAN :
            input' = Append(input, [score |-> s, positive |-> p])
    \/ /\ lane = "sizes"
       /\ \E s \in World!Eligible(input.sizes, input.remaining) :
            input' = [input EXCEPT !.remaining = @ - s]

OfflineNext ==
    /\ UNCHANGED lane
    /\ \/ Next /\ UNCHANGED <<input, lineageVars, comparisonVars, worldVars>>
       \/ Grow /\ UNCHANGED <<view, lineageVars, comparisonVars, worldVars>>
       \/ lane = "lineage" /\ Lineage!Next /\ UNCHANGED <<view, input, comparisonVars, worldVars>>
       \/ lane = "comparison" /\ Comparison!Next /\ UNCHANGED <<view, input, lineageVars, worldVars>>
       \/ lane = "generator" /\ World!Next /\ UNCHANGED <<view, input, lineageVars, comparisonVars>>

OfflineSpec == OfflineInit /\ [][OfflineNext]_allVars

-----------------------------------------------------------------------------
(* Properties *)

CaseCosts == ConditionalCosts(Costs, input.exposure)

\* Instances of the properties of the modules. A decision called stable is the
\* decision at every probability between the declared scenarios, more likely
\* fraud is never decided more leniently, and a case that no investigation is
\* opened for is a certain one (policy/service.py, triggers.py).
DecisionsAreConsistent ==
    lane = "policy" =>
        /\ StableMeansStable(CaseCosts, input.rank, input.odds, Optimistic, Stressed, Multipliers)
        /\ RiskierIsNotMoreLenient(CaseCosts, input.rank, input.odds, Multipliers)
        /\ UninvestigatedIsCertain(CaseCosts, input.rank, input.odds, Optimistic, Stressed,
                                   Multipliers)

\* Address resolution resolves no address to one that it is not similar to, has
\* one representative of each class, and agrees with exact resolution where
\* nothing is similar (resolution/policy.py).
AddressesAreResolved ==
    lane = "addresses" =>
        MergesAreJustified(input) /\ CanonicalIsRepresentative(input) /\ AgreesWithExact(input)

\* No campaign's abuse is in two partitions, no known abuser is a negative sample
\* (sampling.py), and no other score dominates the frozen threshold (metrics.py).
EvaluationIsHeldOut ==
    /\ lane = "worlds" =>
         /\ CampaignsDoNotLeak(Created, input, Cutoffs)
         /\ NegativesAreNotKnownAbusers(Created, input, Cutoffs)
    /\ lane = "scores" => ThresholdIsEfficient(input, Minimum)

\* The files that load are of one run and one chain, and what a clean run leaves
\* loads (provenance.py of evaluation, calibration and policy, runtime.py).
LineageHolds ==
    lane = "lineage" =>
        Lineage!FrozenIsWhole /\ Lineage!RuntimeIsOneChain /\ Lineage!CleanRunIsAccepted

\* Every run of a comparison is counted once, and no case of abuse escapes the
\* rates (comparison.py).
ComparisonIsComplete ==
    lane = "comparison" =>
        Comparison!EveryRunCountsOnce /\ Comparison!AbuseIsFoundMissedOrFailed

\* A generated world happens in the order of its times, its campaigns show only
\* from their actions on, which go on with the identities in use, and its labels
\* are theirs; the sizes of its campaigns always reach the target (world.py).
WorldIsPlausible ==
    /\ lane = "generator" =>
         /\ World!HistoriesAreCausal /\ World!CampaignIdentitiesAreNew
         /\ World!ActionsContinue /\ World!LabelsAreOfCampaigns
    /\ lane = "sizes" => World!TargetIsReached(input.sizes, input.remaining)
=============================================================================
