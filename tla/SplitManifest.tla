----------------------------- MODULE SplitManifest -----------------------------
(***************************************************************************)
(* The chronological evaluation: which account reviews become samples of   *)
(* which partition (evaluation/sampling.py), the operating threshold that  *)
(* is chosen on validation scores (evaluation/metrics.py), and the fit of  *)
(* the calibration (calibration/service.py).                               *)
(*                                                                         *)
(* A world is a set of accounts, the time each was created, and labelled   *)
(* events [account, group, at]; events without a label change nothing.     *)
(* Splits are numbered 1 (train), 2 (validation), 3 (test).                *)
(***************************************************************************)
EXTENDS Integers, Sequences, FiniteSets

Split == 1 .. 3

\* build_split_manifest raises: an account belongs to one campaign only, and no
\* labelled event is later than the last cutoff.
WorldIsRefused(labelled, cutoffs) ==
    \/ \E x, y \in labelled : x.account = y.account /\ x.group # y.group
    \/ \E x \in labelled : x.at > cutoffs[3]

\* Mutant: an event at a cutoff counts for the interval that begins there.
IntervalAfter(at, cutoffs) ==
    CHOOSE s \in Split : (at < cutoffs[s] \/ s = 3) /\ \A t \in Split : at < cutoffs[t] => s <= t

\* _interval_for
IntervalFor(at, cutoffs) ==
    CHOOSE s \in Split : at <= cutoffs[s] /\ \A t \in Split : at <= cutoffs[t] => s <= t

WindowsOf(labelled, group, cutoffs) ==
    {IntervalFor(x.at, cutoffs) : x \in {y \in labelled : y.group = group}}

\* Campaigns with labelled events in more than one target window.
Purged(labelled, cutoffs) ==
    {g \in {x.group : x \in labelled} : Cardinality(WindowsOf(labelled, g, cutoffs)) > 1}

GroupOf(labelled, account) == {x.group : x \in {y \in labelled : y.account = account}}

\* _label_became_known_in_interval
LabelBecameKnown(labelled, account, start, cutoff) ==
    \E x \in labelled : x.account = account /\ x.at <= cutoff /\ x.at > start

\* Mutant: a campaign that spans windows is reviewed until its last one.
SampledUnpurged(created, labelled, cutoffs, account, split) ==
    /\ created[account] <= cutoffs[split]
    /\ \A g \in GroupOf(labelled, account) :
         \E w \in WindowsOf(labelled, g, cutoffs) : split <= w

\* An account is reviewed at a cutoff if it was created by then, unless its
\* campaign is purged or became known in an earlier window.
Sampled(created, labelled, cutoffs, account, split) ==
    /\ created[account] <= cutoffs[split]
    /\ GroupOf(labelled, account) \cap Purged(labelled, cutoffs) = {}
    /\ \A g \in GroupOf(labelled, account) :
         \A w \in WindowsOf(labelled, g, cutoffs) : split <= w

\* build_split_manifest.  There is no interval start before the first cutoff:
\* -1 is before every event.
Samples(created, labelled, cutoffs) ==
    {[account |-> p[1], split |-> p[2], positive |->
        LabelBecameKnown(labelled, p[1], IF p[2] = 1 THEN -1 ELSE cutoffs[p[2] - 1], cutoffs[p[2]])]
        : p \in {q \in (DOMAIN created) \X Split :
                   Sampled(created, labelled, cutoffs, q[1], q[2])}}

-----------------------------------------------------------------------------
(* The operating threshold and the calibration *)

\* The predictions of a split: a sequence of [score, positive].
PositivesOf(records) == {i \in DOMAIN records : records[i].positive}

\* _support_warnings, _support_reasons: both classes reach their minimum.
IsSupported(records, minimum) ==
    /\ Cardinality(PositivesOf(records)) >= minimum.positive
    /\ Len(records) - Cardinality(PositivesOf(records)) >= minimum.negative

Flagged(records, threshold) == {i \in DOMAIN records : records[i].score >= threshold}
Hits(records, threshold) == Flagged(records, threshold) \cap PositivesOf(records)

\* Mutant: the abusers that are not flagged do not count.
F1OfFlagged(records, t, u) ==
    LET hits(x) == Cardinality(Hits(records, x))
        size(x) == Cardinality(Flagged(records, x))
    IN  hits(t) * size(u) > hits(u) * size(t)

\* F1 is 2 * hits / (flagged + positives) and precision hits / flagged: a
\* comparison of two thresholds is a comparison of products.
F1Exceeds(records, t, u) ==
    LET hits(x) == Cardinality(Hits(records, x))
        size(x) == Cardinality(Flagged(records, x)) + Cardinality(PositivesOf(records))
    IN  hits(t) * size(u) > hits(u) * size(t)

PrecisionExceeds(records, t, u) ==
    LET hits(x) == Cardinality(Hits(records, x))
        size(x) == Cardinality(Flagged(records, x))
    IN  hits(t) * size(u) > hits(u) * size(t)

\* select_threshold on the validation records: the best F1, then the best
\* precision, then the highest score; the empty set without support.
SelectThreshold(records, minimum) ==
    LET scores == {records[i].score : i \in DOMAIN records}
        beats(t, u) ==
            \/ F1Exceeds(records, t, u)
            \/ /\ ~F1Exceeds(records, u, t)
               /\ PrecisionExceeds(records, t, u) \/ (~PrecisionExceeds(records, u, t) /\ t >= u)
    IN  IF ~IsSupported(records, minimum) THEN {}
        ELSE {t \in scores : \A u \in scores : beats(t, u)}

-----------------------------------------------------------------------------
(* Properties *)

\* A campaign's abuse is evidence in one partition only: its members are
\* positive in no two splits, so a model is never tested on a campaign that it
\* was trained on or tuned with.
CampaignsDoNotLeak(created, labelled, cutoffs) ==
    LET samples == Samples(created, labelled, cutoffs)
    IN  ~WorldIsRefused(labelled, cutoffs) =>
          \A x, y \in samples :
             (/\ x.positive /\ y.positive
              /\ GroupOf(labelled, x.account) = GroupOf(labelled, y.account))
             => x.split = y.split

\* A sample is labelled by what is known: an account with labelled abuse at or
\* before the decision is positive at it or not reviewed, and a negative's abuse,
\* if it has any, is still to come.
NegativesAreNotKnownAbusers(created, labelled, cutoffs) ==
    ~WorldIsRefused(labelled, cutoffs) =>
        \A x \in Samples(created, labelled, cutoffs) :
            x.positive <=> \E e \in labelled : e.account = x.account /\ e.at <= cutoffs[x.split]

\* The frozen threshold is one score, flags something, and no other score
\* flags no fewer abusers and no more of the others, unless it flags the same.
ThresholdIsEfficient(records, minimum) ==
    LET chosen == SelectThreshold(records, minimum)
        misses(t) == Flagged(records, t) \ PositivesOf(records)
    IN  IsSupported(records, minimum) =>
          /\ Cardinality(chosen) = 1
          /\ \A t \in chosen :
               /\ Flagged(records, t) # {}
               /\ \A i \in DOMAIN records :
                    LET u == records[i].score
                    IN  (Hits(records, t) \subseteq Hits(records, u) /\ misses(u) \subseteq misses(t))
                          => Flagged(records, u) = Flagged(records, t)
=============================================================================
