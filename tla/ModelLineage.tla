----------------------------- MODULE ModelLineage -----------------------------
(***************************************************************************)
(* The files that carry a model from its evaluation to the runtime, and    *)
(* the commands that write and read them: scripts/evaluate_held_out.py,    *)
(* scripts/evaluate_calibration.py, scripts/decide_policy.py and the       *)
(* assembly of the runtime (api/runtime.py).                               *)
(*                                                                         *)
(* Each command overwrites its files one after another, and can die at any *)
(* of them, leaving that file torn or untouched.  Commands run one at a    *)
(* time, in any order, each under its own version of the code and of the   *)
(* configuration.  A hash is modelled by what it hashes.                   *)
(***************************************************************************)
EXTENDS Naturals, Sequences

CONSTANTS
    Version,
    Model,      \* [Version -> what the trained trees compute]
    Manifest,   \* [Version -> split manifests]
    Config,     \* [Version -> profile, evaluation config, schema and training config]
    Features,   \* [Version -> how vectors are extracted]
    Policy,     \* [Version -> policy configs]
    Supported,  \* the manifests with enough samples of both classes to calibrate
    MaxRuns,    \* bound: evaluations started
    None,
    Torn

VARIABLES
    files,      \* the content of each file, None or Torn
    command,    \* the running command, or None
    evaluations,\* evaluations started; each saves its model under a new GUID
    runtime,    \* what a running API process has loaded, or None
    finished    \* history: a version and the commands that ended in their order
                \* since its evaluation began, without a crash or another
                \* version's command

vars == <<files, command, evaluations, runtime, finished>>

Evaluation == <<"model", "metadata", "manifest", "predictions", "provenance">>
File == {Evaluation[i] : i \in DOMAIN Evaluation} \cup {"calibrator", "policy", "decision"}

Readable(f) == files[f] \notin {None, Torn}

-----------------------------------------------------------------------------
(* The held-out evaluation *)

\* fit_full_catboost_scores: the scores of the manifest's samples.
PredictionsOf(v) == [model |-> Model[v], manifest |-> Manifest[v], features |-> Features[v]]

BaseModelId(model, manifest, config) ==
    [model |-> model.trees, manifest |-> manifest, config |-> config]

\* write_frozen_full_artifacts hashes the files that are on disk.
ProvenanceOf(v) ==
    [base |-> BaseModelId(files.model, files.manifest, Config[v]),
     config |-> Config[v],
     hashes |-> [f \in {"model", "metadata", "manifest", "predictions"} |-> files[f]]]

EvaluationContent(v, f) ==
    CASE f = "model" -> [guid |-> evaluations, trees |-> Model[v]]
      [] f = "metadata" -> Config[v]
      [] f = "manifest" -> Manifest[v]
      [] f = "predictions" -> PredictionsOf(v)
      [] f = "provenance" -> ProvenanceOf(v)

\* _validate_records_against_manifest
RecordsMatch(predictions, manifest) == predictions.manifest = manifest

\* load_frozen_full_evaluation accepts the files under the configuration of v.
FrozenLoads(v) ==
    /\ Readable("provenance")
    /\ files.provenance.config = Config[v]
    /\ \A f \in DOMAIN files.provenance.hashes :
         Readable(f) /\ files[f] = files.provenance.hashes[f]
    /\ files.metadata = files.provenance.config
    /\ RecordsMatch(files.predictions, files.manifest)
    /\ files.provenance.base =
         BaseModelId(files.model, files.manifest, files.provenance.config)

Frozen == [base |-> files.provenance.base, trees |-> files.model.trees,
           manifest |-> files.manifest, predictions |-> files.predictions]

\* verify_frozen_full_predictions: the loaded model rescores the samples.
PredictionsReproduce(v) ==
    files.predictions = [model |-> files.model.trees, manifest |-> files.manifest,
                         features |-> Features[v]]

-----------------------------------------------------------------------------
(* Calibration, policy and decision *)

\* probability_model_id: the parameters are a function of what was fitted to.
ProbabilityId(calibrator) == [base |-> calibrator.base, parameters |-> calibrator.fitted]

\* calibrate_records and _probability_provenance
CalibratorOf(frozen) ==
    [status |-> IF frozen.manifest \in Supported THEN "VALID" ELSE "INVALID",
     base |-> frozen.base, fitted |-> frozen.predictions]

\* Mutant: the calibrator on disk is taken for that of any base model.
CalibratorLoadsForAny(base) == Readable("calibrator") /\ files.calibrator.status = "VALID"

\* load_probability_model with expected_base_model_id
CalibratorLoads(base) ==
    /\ Readable("calibrator")
    /\ files.calibrator.status = "VALID"
    /\ files.calibrator.base = base

\* Mutant: a policy is bound to the base model and not to its calibration.
PolicyModelOfBase(calibrator, v) ==
    [base |-> calibrator.base, probability |-> calibrator.base, config |-> Policy[v]]

\* build_policy_model
PolicyModelOf(calibrator, v) ==
    [base |-> calibrator.base, probability |-> ProbabilityId(calibrator), config |-> Policy[v]]

\* load_policy_model
PolicyLoads(calibrator) ==
    /\ Readable("policy")
    /\ files.policy.base = calibrator.base
    /\ files.policy.probability = ProbabilityId(calibrator)

\* decide for a sample of the frozen manifest
DecisionOf(frozen, calibrator, v) ==
    [policy |-> PolicyModelOf(calibrator, v), score |-> <<frozen.trees, Features[v]>>]

\* load_policy_decision, given loaded parents
DecisionLoads == Readable("decision") /\ files.decision.policy = files.policy

-----------------------------------------------------------------------------
(* Commands *)

Init ==
    /\ files = [f \in File |-> None]
    /\ command = None
    /\ evaluations = 0
    /\ runtime = None
    /\ finished = [version |-> None, commands |-> {}]

\* A command: its name, its version, what it still writes, in order, and what
\* it has computed of the files it read.
Run(name, v, writes, output) ==
    /\ command' = [name |-> name, version |-> v, writes |-> writes, output |-> output]
    /\ finished' = IF name = "evaluate" THEN [version |-> v, commands |-> {}]
                   ELSE IF v = finished.version
                   THEN [finished EXCEPT !.commands = @ \ {name, "decide"}]
                   ELSE [version |-> None, commands |-> {}]

\* Mutant: the predictions are written after the provenance that binds them.
StartEvaluationLate(v) ==
    /\ command = None
    /\ evaluations < MaxRuns
    /\ evaluations' = evaluations + 1
    /\ Run("evaluate", v, <<"model", "metadata", "manifest", "provenance", "predictions">>, None)
    /\ UNCHANGED <<files, runtime>>

StartEvaluation(v) ==
    /\ command = None
    /\ evaluations < MaxRuns
    /\ evaluations' = evaluations + 1
    /\ Run("evaluate", v, Evaluation, None)
    /\ UNCHANGED <<files, runtime>>

StartCalibration(v) ==
    /\ command = None
    /\ FrozenLoads(v)
    /\ PredictionsReproduce(v)
    /\ Run("calibrate", v, <<"calibrator">>, [calibrator |-> CalibratorOf(Frozen)])
    /\ UNCHANGED <<files, evaluations, runtime>>

StartDecision(v) ==
    /\ command = None
    /\ FrozenLoads(v)
    /\ CalibratorLoads(files.provenance.base)
    /\ Run("decide", v, <<"policy", "decision">>,
           [policy |-> PolicyModelOf(files.calibrator, v),
            decision |-> DecisionOf(Frozen, files.calibrator, v)])
    /\ UNCHANGED <<files, evaluations, runtime>>

Content(f) ==
    IF command.name = "evaluate" THEN EvaluationContent(command.version, f)
    ELSE command.output[f]

\* The running command writes its next file, and ends with the last.
Write ==
    /\ command # None
    /\ LET f == Head(command.writes)
       IN  files' = [files EXCEPT ![f] = Content(f)]
    /\ command' = IF Len(command.writes) = 1 THEN None
                  ELSE [command EXCEPT !.writes = Tail(@)]
    /\ finished' = IF Len(command.writes) = 1
                   THEN [finished EXCEPT !.commands = @ \cup {command.name}] ELSE finished
    /\ UNCHANGED <<evaluations, runtime>>

\* The command dies, before or within its next write.
Crash ==
    /\ command # None
    /\ \/ UNCHANGED files
       \/ files' = [files EXCEPT ![Head(command.writes)] = Torn]
    /\ command' = None
    /\ finished' = [version |-> None, commands |-> {}]
    /\ UNCHANGED <<evaluations, runtime>>

\* create_realtime_application_runtime under version v would accept the files.
RuntimeLoads(v) ==
    /\ FrozenLoads(v)
    /\ CalibratorLoads(files.provenance.base)
    /\ PolicyLoads(files.calibrator)

\* An API process starts between commands; it keeps what it loaded.
StartRuntime(v) ==
    /\ command = None
    /\ runtime = None
    /\ RuntimeLoads(v)
    /\ runtime' = [frozen |-> Frozen, calibrator |-> files.calibrator, policy |-> files.policy]
    /\ UNCHANGED <<files, command, evaluations, finished>>

StopRuntime ==
    /\ runtime # None
    /\ runtime' = None
    /\ UNCHANGED <<files, command, evaluations, finished>>

Next ==
    \/ \E v \in Version : StartEvaluation(v) \/ StartCalibration(v) \/ StartDecision(v)
                            \/ StartRuntime(v)
    \/ Write \/ Crash \/ StopRuntime

Spec == Init /\ [][Next]_vars

-----------------------------------------------------------------------------
(* Properties *)

\* A frozen evaluation that loads is one evaluation, whole: its model, its
\* manifest and its predictions are those of one version with the expected
\* configuration, whatever evaluations were started and died on the same files.
FrozenIsWhole ==
    \A v \in Version :
        FrozenLoads(v) =>
            \E u \in Version :
                /\ Config[u] = Config[v]
                /\ files.model.trees = Model[u]
                /\ files.manifest = Manifest[u]
                /\ files.predictions = PredictionsOf(u)

\* A runtime calibrates the scores of its model with a calibrator fitted to
\* scores of that model on that model's manifest, under a policy that was built
\* for this calibrator.
RuntimeIsOneChain ==
    runtime # None =>
        /\ runtime.calibrator.fitted.model = runtime.frozen.trees
        /\ runtime.calibrator.fitted.manifest = runtime.frozen.manifest
        /\ runtime.frozen.manifest \in Supported
        /\ runtime.policy.probability = ProbabilityId(runtime.calibrator)

\* What is refused is only what is torn or mixed: once the three commands of one
\* version have written their files, in that order, its runtime starts and its
\* decision loads, whatever was on the disk before.
CleanRunIsAccepted ==
    (/\ finished.commands = {"evaluate", "calibrate", "decide"}
     /\ Manifest[finished.version] \in Supported)
    => RuntimeLoads(finished.version) /\ DecisionLoads
=============================================================================
