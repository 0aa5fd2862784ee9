---------------------------- MODULE ModelComparison ----------------------------
(***************************************************************************)
(* The comparison of investigation models: the harness that attempts every *)
(* planned run once (scripts/run_investigation_model_comparison.py) and    *)
(* the scoring and the rates (investigation/comparison.py).                *)
(*                                                                         *)
(* An investigation is what it may return: a report or an exception, which *)
(* has an OpenAI error in its chain of causes or has none.                 *)
(***************************************************************************)
EXTENDS Integers, Sequences, FiniteSets

CONSTANTS
    Expectation,    \* the functions [Case -> Pattern] the run may have been planned for
    Cases,          \* sequence of the case IDs
    Models,         \* sequence of the model names
    Reports,        \* what an execution may report: [status, pattern, grounding]
    None

AbusePatterns == {"PROMO_RING", "REFUND_RING", "MIXED_ABUSE"}
AnalyticalStatuses == {"COMPLETED", "INSUFFICIENT_EVIDENCE"}

VARIABLES
    expected,   \* the fixed expectation of each case
    phase,      \* of the current run: "setup", "execute" or "save"; or "aborted"
    report,     \* what its execution returned, or None
    records,    \* the records of the runs so far, in their order
    summary,    \* the summary that was written, or None
    rendered    \* its table was written as well

vars == <<expected, phase, report, records, summary, rendered>>

\* planned_runs: case by case, each through all models.
Planned ==
    [i \in 1 .. Len(Cases) * Len(Models) |->
        [case |-> Cases[((i - 1) \div Len(Models)) + 1],
         model |-> Models[((i - 1) % Len(Models)) + 1]]]

Current == Planned[Len(records) + 1]

-----------------------------------------------------------------------------
(* Scoring *)

\* Mutant: a report that ran out of its budget is accepted as well.
AcceptsExhausted(r) ==
    r # None /\ ~r.grounding /\ r.status \in AnalyticalStatuses \cup {"BUDGET_EXHAUSTED"}

\* An accepted analytical report; r is None when the run failed.
Accepts(r) == r # None /\ ~r.grounding /\ r.status \in AnalyticalStatuses

\* appropriate_ambiguity_handling
HandlesAmbiguity(r, pattern) ==
    /\ pattern = "INCONCLUSIVE"
    /\ \/ r.pattern = "INCONCLUSIVE"
       \/ r.status = "INSUFFICIENT_EVIDENCE" /\ r.pattern \notin AbusePatterns

\* Mutant: abuse is missed when no abuse is reported, whichever it is.
MissesAnyAbuse(r, pattern) == pattern \in AbusePatterns /\ r.pattern \notin AbusePatterns

\* missed_obvious_abuse
MissesAbuse(r, pattern) == pattern \in AbusePatterns /\ r.pattern # pattern

\* score_comparison_run: the quality of a run that has no accepted report is
\* None, and such a run is no success.
Score(run, r, provider, harness, pattern) ==
    LET ok == Accepts(r)
        status == IF r = None THEN None ELSE r.status
    IN  [case |-> run.case, model |-> run.model, accepted |-> ok,
         grounding |-> r # None /\ r.grounding,
         budget |-> status = "BUDGET_EXHAUSTED", failed |-> status = "FAILED",
         provider |-> provider, harness |-> harness,
         correct |-> IF ok THEN r.pattern = pattern ELSE None,
         accusation |-> IF ok THEN pattern \notin AbusePatterns /\ r.pattern \in AbusePatterns
                        ELSE None,
         missed |-> IF ok THEN MissesAbuse(r, pattern) ELSE None,
         success |-> ok /\ (r.pattern = pattern \/ HandlesAmbiguity(r, pattern))]

Rate(s, t) == [numerator |-> Cardinality(s), denominator |-> Cardinality(t)]

\* summarize_model_comparison for the outcomes of one model, one of each case.
Summarize(outcomes) ==
    LET accepted == {o \in outcomes : o.accepted}
        abuse == {o \in outcomes : expected[o.case] \in AbusePatterns}
        benign == {o \in outcomes : expected[o.case] = "BENIGN_SHARED_IDENTITY"}
        of(s, P(_)) == Rate({o \in s : P(o)}, s)
    IN  [accepted |-> Rate(accepted, outcomes),
         success |-> of(outcomes, LAMBDA o : o.success),
         grounding |-> of(outcomes, LAMBDA o : o.grounding),
         budget |-> of(outcomes, LAMBDA o : o.budget),
         failed |-> of(outcomes, LAMBDA o : o.failed),
         provider |-> of(outcomes, LAMBDA o : o.provider),
         harness |-> of(outcomes, LAMBDA o : o.harness),
         accuracy |-> of(accepted, LAMBDA o : o.correct),
         accusations |-> of(benign \cap accepted, LAMBDA o : o.accusation),
         benignFailures |-> of(benign, LAMBDA o : ~o.accepted),
         misses |-> of(abuse \cap accepted, LAMBDA o : o.missed),
         abuseFailures |-> of(abuse, LAMBDA o : ~o.accepted)]

\* build_comparison_summary: exactly the planned pairs, once each.
Covers(outcomes) ==
    /\ Cardinality({[case |-> o.case, model |-> o.model] : o \in outcomes})
         = Len(Cases) * Len(Models)
    /\ {[case |-> o.case, model |-> o.model] : o \in outcomes}
         = {Planned[i] : i \in DOMAIN Planned}

-----------------------------------------------------------------------------
(* The harness *)

Init ==
    /\ expected \in Expectation
    /\ phase = "setup"
    /\ report = None
    /\ records = <<>>
    /\ summary = None
    /\ rendered = FALSE

\* The record of the current run; the next run is set up.
Record(r, provider, harness) ==
    /\ records' = Append(records, [success |-> r # None,
                                   outcome |-> Score(Current, r, provider, harness,
                                                     expected[Current.case])])
    /\ phase' = "setup"
    /\ report' = None
    /\ UNCHANGED <<expected, summary, rendered>>

Running == Len(records) < Len(Planned)

\* Evidence, score, decision and request are built, or that fails.
SetUp ==
    /\ Running /\ phase = "setup"
    /\ phase' = "execute"
    /\ UNCHANGED <<expected, report, records, summary, rendered>>

\* It failed after the run's directory was made.
SetUpFails == Running /\ phase = "setup" /\ Record(None, FALSE, TRUE)

\* It failed before: main cannot write the run's record, and the harness ends.
SetUpAborts ==
    /\ Running /\ phase = "setup"
    /\ phase' = "aborted"
    /\ UNCHANGED <<expected, report, records, summary, rendered>>

\* The one provider attempt.
Execute ==
    /\ phase = "execute"
    /\ report' \in Reports
    /\ phase' = "save"
    /\ UNCHANGED <<expected, records, summary, rendered>>

\* _is_provider_request_failure tells the two failures of an execution apart.
ExecuteFails(provider) == phase = "execute" /\ Record(None, provider, ~provider)

\* The artifacts are saved, loaded again and scored; a failure discards the report.
Save == phase = "save" /\ Record(report, FALSE, FALSE)

SaveFails == phase = "save" /\ Record(None, FALSE, TRUE)

\* After the last run.
Finish ==
    /\ ~Running /\ summary = None
    /\ LET outcomes == {records[i].outcome : i \in DOMAIN records}
       IN  /\ Covers(outcomes)
           /\ summary' =
                [planned |-> Len(Planned),
                 completed |-> Cardinality({i \in DOMAIN records : records[i].success}),
                 providerFailures |-> Cardinality({o \in outcomes : o.provider}),
                 harnessFailures |-> Cardinality({o \in outcomes : o.harness}),
                 perModel |-> [m \in {Models[i] : i \in DOMAIN Models} |->
                                 Summarize({o \in outcomes : o.model = m})]]
    /\ UNCHANGED <<expected, phase, report, records, rendered>>

\* render_comparison_summary: the record of a failed run holds None for its
\* context metrics, and rendering that raises after the summary was written.
Render ==
    /\ summary # None /\ ~rendered
    /\ \A i \in DOMAIN records : records[i].success
    /\ rendered' = TRUE
    /\ UNCHANGED <<expected, phase, report, records, summary>>

Next ==
    \/ SetUp \/ SetUpFails \/ SetUpAborts \/ Execute \/ Save \/ SaveFails \/ Finish \/ Render
    \/ \E provider \in BOOLEAN : ExecuteFails(provider)

Spec == Init /\ [][Next]_vars

-----------------------------------------------------------------------------
(* Properties *)

\* Every planned run is counted once, whatever failed in it and when: as an
\* accepted report, an exhausted budget, a failed report, or a failure of the
\* provider or of the harness, in the rates of its model as in the totals.
EveryRunCountsOnce ==
    summary # None =>
        /\ summary.completed + summary.providerFailures + summary.harnessFailures = summary.planned
        /\ \A m \in DOMAIN summary.perModel :
             LET s == summary.perModel[m]
             IN  s.accepted.numerator + s.budget.numerator + s.failed.numerator
                   + s.provider.numerator + s.harness.numerator = Len(Cases)

\* A failure of the system is not a failure of reasoning, and no case escapes:
\* of a model's abuse cases, each is a system failure, a miss, or a success, and
\* a success is an accepted report.
AbuseIsFoundMissedOrFailed ==
    summary # None =>
        \A m \in DOMAIN summary.perModel :
            LET s == summary.perModel[m]
                found == {i \in DOMAIN records :
                            /\ records[i].outcome.model = m
                            /\ records[i].outcome.success
                            /\ expected[records[i].outcome.case] \in AbusePatterns}
            IN  /\ s.abuseFailures.denominator
                     = s.abuseFailures.numerator + s.misses.numerator + Cardinality(found)
                /\ s.misses.denominator + s.abuseFailures.numerator
                     = s.abuseFailures.denominator
                /\ s.success.numerator <= s.accepted.numerator
=============================================================================
