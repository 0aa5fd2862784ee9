------------------------------ MODULE OfflineProofs ------------------------------
(***************************************************************************)
(* Proofs about the offline programs: the files from a model's evaluation  *)
(* to the runtime that loads them (ModelLineage), the decision and the     *)
(* investigation trigger (PolicyDecision), the chronological split and the *)
(* threshold (SplitManifest), the comparison of investigation models       *)
(* (ModelComparison), the resolution of addresses (AddressResolution), the *)
(* features and the evidence of a view (GraphView) and the synthetic world *)
(* (SyntheticWorld).                                                       *)
(*                                                                         *)
(* Lineage: LineageInvariant says of the running command where it is and   *)
(* what it has computed, of the provenance and the calibrator on the disk  *)
(* that each is of one evaluation whatever the files beside it are, and of *)
(* the commands that have ended in order that their files are still there. *)
(*                                                                         *)
(* Decisions: odds between two others are a combination of them with       *)
(* weights that are not negative, so a cost difference keeps its sign.     *)
(*                                                                         *)
(* Thresholds: the keys of two scores are compared as fractions, which is  *)
(* an order, so among finitely many scores one is best.                    *)
(*                                                                         *)
(* Comparison: the outcomes of all runs are as many as the plan has runs,  *)
(* so that counts of outcomes are counts of runs, and their kinds are      *)
(* disjoint.                                                               *)
(*                                                                         *)
(* Addresses: by induction over the addresses resolved so far, each is     *)
(* resolved to itself or to an earlier root that it may be merged with.    *)
(*                                                                         *)
(* Views: the facts of a view are known facts, from which the theorems of  *)
(* FeatureExtractionProofs follow for whatever view is built.              *)
(*                                                                         *)
(* Worlds: the facts of an account are those of one emission, which knows  *)
(* its times, its labels and its identities; what a ring shares is a new   *)
(* identity when the ring begins, and goes to its members only.            *)
(***************************************************************************)
EXTENDS OfflinePrograms, FeatureExtractionProofs

-----------------------------------------------------------------------------
(* No content of a file is None or Torn, nor is a command or a version None. *)
NothingIsMissing ==
    /\ None \notin Version
    /\ \A v \in Version : Config[v] \notin {None, Torn} /\ Manifest[v] \notin {None, Torn}
    /\ \A a, b : [guid |-> a, trees |-> b] \notin {None, Torn}
    /\ \A a, b, c : [model |-> a, manifest |-> b, features |-> c] \notin {None, Torn}
    /\ \A a, b, c : [base |-> a, config |-> b, hashes |-> c] \notin {None, Torn}
    /\ \A a, b, c : [status |-> a, base |-> b, fitted |-> c] \notin {None, Torn}
    /\ \A a, b, c : [base |-> a, probability |-> b, config |-> c] \notin {None, Torn}
    /\ \A a, b : [policy |-> a, score |-> b] \notin {None, Torn}
    /\ \A a, b, c : [frozen |-> a, calibrator |-> b, policy |-> c] # None

(* What an evaluation has still to write. *)
Remaining ==
    <<Lineage!Evaluation, <<"metadata", "manifest", "predictions", "provenance">>,
      <<"manifest", "predictions", "provenance">>, <<"predictions", "provenance">>,
      <<"provenance">>>>

(* The first of what remains is the next file. *)
LEMMA RemainingAre ==
    ASSUME NEW i \in 1 .. 5
    PROVE  /\ Head(Remaining[i]) = Lineage!Evaluation[i] /\ Len(Remaining[i]) = 6 - i
           /\ i < 5 => Tail(Remaining[i]) = Remaining[i + 1]
  <1>1. CASE i = 1
    BY <1>1 DEF Remaining, Lineage!Evaluation
  <1>2. CASE i = 2
    BY <1>2 DEF Remaining, Lineage!Evaluation
  <1>3. CASE i = 3
    BY <1>3 DEF Remaining, Lineage!Evaluation
  <1>4. CASE i = 4
    BY <1>4 DEF Remaining, Lineage!Evaluation
  <1>5. CASE i = 5
    BY <1>5 DEF Remaining, Lineage!Evaluation
  <1> QED
    BY <1>1, <1>2, <1>3, <1>4, <1>5

(* The first i - 1 files of an evaluation of v are on the disk. *)
Written(v, i) ==
    /\ i > 1 => files.model = [guid |-> evaluations, trees |-> Model[v]]
    /\ i > 2 => files.metadata = Config[v]
    /\ i > 3 => files.manifest = Manifest[v]
    /\ i > 4 => files.predictions = Lineage!PredictionsOf(v)

(* A calibrator was fitted to scores of its base model on its manifest. *)
IsCalibrator(c) ==
    /\ c.fitted.model = c.base.model /\ c.fitted.manifest = c.base.manifest
    /\ c.status = "VALID" => c.base.manifest \in Supported

(* An evaluation that has written its first i - 1 files. *)
Evaluating(c) ==
    /\ c.name = "evaluate"
    /\ \E i \in 1 .. 5 :
        /\ c = [name |-> "evaluate", version |-> c.version, writes |-> Remaining[i],
                output |-> None]
        /\ Written(c.version, i)
        /\ finished = [version |-> c.version, commands |-> {}]

(* A calibration, with the calibrator it has fitted. *)
Calibrating(c) ==
    /\ c.name = "calibrate"
    /\ c = [name |-> "calibrate", version |-> c.version, writes |-> <<"calibrator">>,
            output |-> [calibrator |-> c.output.calibrator]]
    /\ IsCalibrator(c.output.calibrator)

(* A decision, before its first or its second file. *)
Deciding(c) ==
    /\ c.name = "decide"
    /\ c = [name |-> "decide", version |-> c.version, writes |-> c.writes,
            output |-> [policy |-> c.output.policy, decision |-> c.output.decision]]
    /\ c.writes \in {<<"policy", "decision">>, <<"decision">>}

(* The running command knows where it is. *)
CommandConsistent ==
    command # None =>
        /\ command.version \in Version
        /\ Evaluating(command) \/ Calibrating(command) \/ Deciding(command)

(* The provenance on the disk is of one evaluation, whatever the files are. *)
ProvenanceConsistent ==
    Lineage!Readable("provenance") =>
        \E u \in Version :
            /\ files.provenance.config = Config[u]
            /\ DOMAIN files.provenance.hashes = {"model", "metadata", "manifest", "predictions"}
            /\ files.provenance.hashes.model.trees = Model[u]
            /\ files.provenance.hashes.manifest = Manifest[u]
            /\ files.provenance.hashes.predictions = Lineage!PredictionsOf(u)

(* The calibrator on the disk, whatever evaluation it is beside. *)
CalibratorConsistent == Lineage!Readable("calibrator") => IsCalibrator(files.calibrator)

(* The evaluation of v is on the disk. *)
Evaluated(v) == Written(v, 5) /\ files.provenance = Lineage!ProvenanceOf(v)

(* The calibrator on the disk is that of the evaluation on the disk. *)
Calibrated == files.calibrator = Lineage!CalibratorOf(Lineage!Frozen)

(* What has ended in order has left its files, and what runs will leave its. *)
EvaluateEnded ==
    "evaluate" \in finished.commands =>
        /\ finished.version \in Version
        /\ Evaluated(finished.version)
        /\ command # None => command.name # "evaluate"
        /\ command # None /\ command.name = "calibrate" =>
             command.output.calibrator = Lineage!CalibratorOf(Lineage!Frozen)

(* The same of a calibration; a decision that runs decides by its calibrator. *)
CalibrateEnded ==
    {"evaluate", "calibrate"} \subseteq finished.commands =>
        /\ Calibrated
        /\ command # None =>
             /\ command.name = "decide"
             /\ command.output.policy = Lineage!PolicyModelOf(files.calibrator, finished.version)
             /\ command.output.decision \notin {None, Torn}
             /\ command.output.decision.policy = command.output.policy
             /\ command.writes = <<"decision">> => files.policy = command.output.policy

(* The same of a decision. *)
DecideEnded ==
    finished.commands = {"evaluate", "calibrate", "decide"} =>
        /\ command = None
        /\ files.policy = Lineage!PolicyModelOf(files.calibrator, finished.version)
        /\ files.decision \notin {None, Torn} /\ files.decision.policy = files.policy

(* The history of what has ended, taken together. *)
FinishedConsistent ==
    /\ finished = [version |-> finished.version, commands |-> finished.commands]
    /\ finished.commands \subseteq {"evaluate", "calibrate", "decide"}
    /\ command # None => "decide" \notin finished.commands
    /\ EvaluateEnded /\ CalibrateEnded /\ DecideEnded

(* The inductive invariant. *)
LineageInvariant ==
    /\ DOMAIN files = Lineage!File
    /\ CommandConsistent /\ ProvenanceConsistent /\ CalibratorConsistent
    /\ Lineage!RuntimeIsOneChain /\ FinishedConsistent

(* No file, no command, nothing loaded. *)
LEMMA InitInvariant == Lineage!Init => LineageInvariant
  BY DEF Lineage!Init, LineageInvariant, CommandConsistent, ProvenanceConsistent,
         CalibratorConsistent,
         Lineage!RuntimeIsOneChain, FinishedConsistent, Lineage!Readable, Lineage!File,
         Lineage!Evaluation,
         EvaluateEnded, CalibrateEnded, DecideEnded

(* A runtime reads files and changes none. *)
LEMMA RuntimeStep ==
    LineageInvariant /\ UNCHANGED <<files, command, evaluations, finished>>
    => /\ DOMAIN files' = Lineage!File
       /\ CommandConsistent' /\ ProvenanceConsistent' /\ CalibratorConsistent'
       /\ FinishedConsistent'
  <1> SUFFICES ASSUME LineageInvariant, UNCHANGED <<files, command, evaluations, finished>>
               PROVE  /\ DOMAIN files' = Lineage!File
                      /\ CommandConsistent' /\ ProvenanceConsistent' /\ CalibratorConsistent'
                      /\ FinishedConsistent'
    OBVIOUS
  <1>1. CommandConsistent'
    BY DEF LineageInvariant, CommandConsistent, Evaluating, Calibrating, Deciding, Written,
           Lineage!PredictionsOf
  <1>2. ProvenanceConsistent' /\ CalibratorConsistent'
    BY DEF LineageInvariant, ProvenanceConsistent, CalibratorConsistent, Lineage!Readable
  <1>3. FinishedConsistent'
    BY DEF LineageInvariant, FinishedConsistent, Evaluated, Calibrated, Written,
           Lineage!ProvenanceOf,
           Lineage!Frozen, EvaluateEnded, CalibrateEnded, DecideEnded
  <1> QED
    BY <1>1, <1>2, <1>3 DEF LineageInvariant

(* An evaluation stays on the disk while its five files do. *)
LEMMA EvaluatedStays ==
    ASSUME NEW v, Evaluated(v), UNCHANGED evaluations,
           \A f \in {"model", "metadata", "manifest", "predictions", "provenance"} :
               files'[f] = files[f]
    PROVE  Evaluated(v)'
  BY DEF Evaluated, Written, Lineage!ProvenanceOf, Lineage!PredictionsOf

(* A new evaluation forgets what had ended. *)
LEMMA EvaluationStarts ==
    ASSUME NothingIsMissing, LineageInvariant, NEW v \in Version, Lineage!StartEvaluation(v)
    PROVE  LineageInvariant'
  <1>1. CommandConsistent'
    <2>1. command'.name = "evaluate" /\ command'.version = v
      BY DEF Lineage!StartEvaluation, Lineage!Run
    <2>2. Remaining[1] = Lineage!Evaluation
      BY DEF Remaining
    <2>3. command' = [name |-> "evaluate", version |-> command'.version, writes |-> Remaining[1],
                      output |-> None]
      BY <2>2 DEF Lineage!StartEvaluation, Lineage!Run
    <2>4. finished' = [version |-> command'.version, commands |-> {}]
      BY <2>1 DEF Lineage!StartEvaluation, Lineage!Run
    <2>5. Written(command.version, 1)'
      BY DEF Written
    <2>6. 1 \in 1 .. 5
      OBVIOUS
    <2>7. Evaluating(command)'
      BY <2>3, <2>4, <2>5, <2>6 DEF Evaluating
    <2> QED
      BY <2>1, <2>7 DEF CommandConsistent
  <1>2. FinishedConsistent'
    <2>1. finished' = [version |-> v, commands |-> {}]
      BY DEF Lineage!StartEvaluation, Lineage!Run
    <2> QED
      BY <2>1 DEF FinishedConsistent, EvaluateEnded, CalibrateEnded, DecideEnded
  <1> QED
    BY <1>1, <1>2 DEF LineageInvariant, Lineage!StartEvaluation, ProvenanceConsistent,
       CalibratorConsistent, Lineage!RuntimeIsOneChain, Lineage!Readable

(* A calibrator fitted to reproduced predictions of files that load. *)
LEMMA FittedIsCalibrator ==
    ASSUME NEW v \in Version, Lineage!FrozenLoads(v), Lineage!PredictionsReproduce(v)
    PROVE  IsCalibrator(Lineage!CalibratorOf(Lineage!Frozen))
  BY DEF Lineage!FrozenLoads, Lineage!PredictionsReproduce, IsCalibrator, Lineage!CalibratorOf,
         Lineage!Frozen, Lineage!BaseModelId,
         Lineage!RecordsMatch

(* What a calibration fits to is read at its start. *)
LEMMA CalibrationStarts ==
    ASSUME NothingIsMissing, LineageInvariant, NEW v \in Version, Lineage!StartCalibration(v)
    PROVE  LineageInvariant'
  <1> DEFINE c == Lineage!CalibratorOf(Lineage!Frozen)
  <1>1. command' = [name |-> "calibrate", version |-> v, writes |-> <<"calibrator">>,
                    output |-> [calibrator |-> c]]
    BY DEF Lineage!StartCalibration, Lineage!Run
  <1>2. IsCalibrator(c)
    BY FittedIsCalibrator DEF Lineage!StartCalibration
  <1>3. CommandConsistent'
    <2>1. Calibrating(command)'
      BY <1>1, <1>2 DEF Calibrating, IsCalibrator
    <2> QED
      BY <1>1, <2>1 DEF CommandConsistent
  <1>4. FinishedConsistent'
    <2> HIDE DEF c
    <2>1. CASE v = finished.version
      <3>1. finished' = [finished EXCEPT !.commands = @ \ {"calibrate", "decide"}]
        BY <2>1 DEF Lineage!StartCalibration, Lineage!Run
      <3>2. /\ finished' = [version |-> finished.version,
                            commands |-> finished.commands \ {"calibrate", "decide"}]
            /\ finished.commands \subseteq {"evaluate", "calibrate", "decide"}
        BY <3>1 DEF LineageInvariant, FinishedConsistent
      <3>3. Lineage!Frozen' = Lineage!Frozen /\ Lineage!CalibratorOf(Lineage!Frozen)' = c
        BY DEF Lineage!Frozen, Lineage!StartCalibration, Lineage!CalibratorOf, c
      <3>4. "evaluate" \in finished'.commands =>
              (finished.version \in Version /\ Evaluated(finished.version))'
        <4> SUFFICES ASSUME "evaluate" \in finished'.commands, NEW w, w = finished.version
                     PROVE  finished'.version = w /\ w \in Version /\ Evaluated(w)'
          BY <3>2
        <4>1. w \in Version /\ Evaluated(w)
          BY <3>2 DEF LineageInvariant, FinishedConsistent, EvaluateEnded
        <4> QED
          BY <4>1, <3>2, EvaluatedStays DEF Lineage!StartCalibration
      <3>5. EvaluateEnded'
        BY <1>1, <3>3, <3>4 DEF EvaluateEnded
      <3> QED
        BY <3>2, <3>5 DEF FinishedConsistent, CalibrateEnded, DecideEnded
    <2>2. CASE v # finished.version
      <3>1. finished' = [version |-> None, commands |-> {}]
        BY <2>2 DEF Lineage!StartCalibration, Lineage!Run
      <3> QED
        BY <3>1 DEF FinishedConsistent, EvaluateEnded, CalibrateEnded, DecideEnded
    <2> QED
      BY <2>1, <2>2
  <1> QED
    BY <1>3, <1>4 DEF LineageInvariant, Lineage!StartCalibration, ProvenanceConsistent,
       CalibratorConsistent, Lineage!RuntimeIsOneChain, Lineage!Readable

(* What a decision builds is read at its start. *)
LEMMA DecisionStarts ==
    ASSUME NothingIsMissing, LineageInvariant, NEW v \in Version, Lineage!StartDecision(v)
    PROVE  LineageInvariant'
  <1> DEFINE p == Lineage!PolicyModelOf(files.calibrator, v)
             d == Lineage!DecisionOf(Lineage!Frozen, files.calibrator, v)
  <1>1. command' = [name |-> "decide", version |-> v, writes |-> <<"policy", "decision">>,
                    output |-> [policy |-> p, decision |-> d]]
    BY DEF Lineage!StartDecision, Lineage!Run
  <1>2. d \notin {None, Torn} /\ d.policy = p
    BY DEF NothingIsMissing, Lineage!DecisionOf
  <1>3. CommandConsistent'
    <2>1. Deciding(command)'
      BY <1>1 DEF Deciding
    <2> QED
      BY <1>1, <2>1 DEF CommandConsistent
  <1>4. FinishedConsistent'
    <2>1. CASE v = finished.version
      <3>1. finished' = [finished EXCEPT !.commands = @ \ {"decide"}]
        BY <2>1 DEF Lineage!StartDecision, Lineage!Run
      <3>2. /\ finished' = [version |-> finished.version,
                            commands |-> finished.commands \ {"decide"}]
            /\ finished.commands \subseteq {"evaluate", "calibrate", "decide"}
        BY <3>1 DEF LineageInvariant, FinishedConsistent
      <3>3. "evaluate" \in finished'.commands =>
              (finished.version \in Version /\ Evaluated(finished.version))'
        <4> SUFFICES ASSUME "evaluate" \in finished'.commands, NEW w, w = finished.version
                     PROVE  finished'.version = w /\ w \in Version /\ Evaluated(w)'
          BY <3>2
        <4>1. w \in Version /\ Evaluated(w)
          BY <3>2 DEF LineageInvariant, FinishedConsistent, EvaluateEnded
        <4> QED
          BY <4>1, <3>2, EvaluatedStays DEF Lineage!StartDecision
      <3>4. {"evaluate", "calibrate"} \subseteq finished'.commands => Calibrated'
        BY <3>2 DEF LineageInvariant, FinishedConsistent, CalibrateEnded, Calibrated,
                    Lineage!Frozen,
                    Lineage!StartDecision
      <3>5. p = Lineage!PolicyModelOf(files.calibrator, finished.version)'
        BY <2>1, <3>2 DEF Lineage!PolicyModelOf, Lineage!ProbabilityId, Lineage!StartDecision
      <3>6. command'.writes # <<"decision">>
        BY <1>1
      <3>7. command' # None => command'.name = "decide" /\ command'.output.policy = p
              /\ command'.output.decision = d
        BY <1>1
      <3> HIDE DEF p, d
      <3>8. EvaluateEnded'
        BY <3>3, <3>7 DEF EvaluateEnded
      <3>9. CalibrateEnded'
        BY <1>2, <3>4, <3>5, <3>6, <3>7 DEF CalibrateEnded
      <3> QED
        BY <3>2, <3>8, <3>9 DEF FinishedConsistent, DecideEnded
    <2>2. CASE v # finished.version
      <3>1. finished' = [version |-> None, commands |-> {}]
        BY <2>2 DEF Lineage!StartDecision, Lineage!Run
      <3> QED
        BY <3>1 DEF FinishedConsistent, EvaluateEnded, CalibrateEnded, DecideEnded
    <2> QED
      BY <2>1, <2>2
  <1> QED
    BY <1>3, <1>4 DEF LineageInvariant, Lineage!StartDecision, ProvenanceConsistent,
       CalibratorConsistent, Lineage!RuntimeIsOneChain, Lineage!Readable

(* The checks of the loaders link a runtime's parts. *)
LEMMA RuntimeStarts ==
    ASSUME NothingIsMissing, LineageInvariant, NEW v \in Version, Lineage!StartRuntime(v)
    PROVE  LineageInvariant'
  <1>1. Lineage!RuntimeIsOneChain'
    <2>1. IsCalibrator(files.calibrator)
      BY DEF LineageInvariant, CalibratorConsistent, Lineage!StartRuntime, Lineage!RuntimeLoads,
             Lineage!CalibratorLoads
    <2> QED
      BY <2>1 DEF Lineage!RuntimeIsOneChain, Lineage!StartRuntime, Lineage!RuntimeLoads,
                  Lineage!CalibratorLoads, Lineage!PolicyLoads,
         Lineage!FrozenLoads, IsCalibrator, Lineage!Frozen, Lineage!BaseModelId,
         Lineage!ProbabilityId
  <1> QED
    BY <1>1, RuntimeStep DEF LineageInvariant, Lineage!StartRuntime

(* A command that dies leaves no file that another would take for a whole one. *)
LEMMA CrashStep ==
    ASSUME NothingIsMissing, LineageInvariant, Lineage!Crash
    PROVE  LineageInvariant'
  <1>1. DOMAIN files' = Lineage!File
    BY DEF LineageInvariant, Lineage!Crash
  <1>2. ProvenanceConsistent' /\ CalibratorConsistent'
    <2>1. "provenance" \in Lineage!File /\ "calibrator" \in Lineage!File
      BY DEF Lineage!File, Lineage!Evaluation
    <2>2. \A f \in Lineage!File : files'[f] = files[f] \/ files'[f] = Torn
      BY DEF LineageInvariant, Lineage!Crash
    <2> QED
      BY <2>1, <2>2 DEF LineageInvariant, ProvenanceConsistent, CalibratorConsistent,
                        Lineage!Readable
  <1>3. finished' = [version |-> None, commands |-> {}] /\ command' = None
    BY DEF Lineage!Crash
  <1>4. FinishedConsistent' /\ CommandConsistent'
    BY <1>3 DEF FinishedConsistent, EvaluateEnded, CalibrateEnded, DecideEnded, CommandConsistent
  <1> QED
    BY <1>1, <1>2, <1>4 DEF LineageInvariant, Lineage!RuntimeIsOneChain, Lineage!Crash

(* The i-th write of an evaluation. *)
LEMMA EvaluationWrites ==
    ASSUME NothingIsMissing, LineageInvariant, Lineage!Write, command # None, NEW i \in 1 .. 5,
           NEW v \in Version, Written(v, i),
           command = [name |-> "evaluate", version |-> v, writes |-> Remaining[i],
                      output |-> None],
           finished = [version |-> v, commands |-> {}]
    PROVE  LineageInvariant'
  <1> DEFINE f == Lineage!Evaluation[i]
  <1>0. command.writes = Remaining[i] /\ command.name = "evaluate"
    OBVIOUS
  <1>1. f \in Lineage!File /\ Head(command.writes) = f /\ Len(command.writes) = 6 - i
    <2>1. i \in DOMAIN Lineage!Evaluation
      BY DEF Lineage!Evaluation
    <2> QED
      BY <1>0, <2>1, RemainingAre DEF Lineage!File
  <1>2. files' = [files EXCEPT ![f] = Lineage!EvaluationContent(v, f)]
    BY <1>0, <1>1 DEF Lineage!Write, Lineage!Content
  <1>3. /\ command' = IF i = 5 THEN None ELSE [command EXCEPT !.writes = Tail(@)]
        /\ finished' = IF i = 5 THEN [finished EXCEPT !.commands = @ \cup {"evaluate"}]
                       ELSE finished
    <2>1. Len(command.writes) = 1 <=> i = 5
      <3>1. \A n : n = 6 - i => (n = 1 <=> i = 5)
        OBVIOUS
      <3> QED
        BY <1>1, <3>1, Zenon
    <2>2. /\ command' = IF Len(command.writes) = 1 THEN None
                        ELSE [command EXCEPT !.writes = Tail(@)]
          /\ finished' = IF Len(command.writes) = 1
                         THEN [finished EXCEPT !.commands = @ \cup {command.name}] ELSE finished
      BY DEF Lineage!Write
    <2>3. CASE i = 5
      BY <1>0, <2>1, <2>2, <2>3
    <2>4. CASE i # 5
      BY <1>0, <2>1, <2>2, <2>4
    <2> QED
      BY <2>3, <2>4
  <1>4. evaluations' = evaluations /\ runtime' = runtime
    BY DEF Lineage!Write
  <1>5. DOMAIN files' = Lineage!File /\ \A g \in Lineage!File : g # f => files'[g] = files[g]
    BY <1>2 DEF LineageInvariant
  <1>6. files'[f] = Lineage!EvaluationContent(v, f)
    BY <1>1, <1>2 DEF LineageInvariant
  <1>7. {"model", "metadata", "manifest", "predictions", "provenance",
        "calibrator"} \subseteq Lineage!File
    BY DEF Lineage!File, Lineage!Evaluation
  <1>8. CalibratorConsistent'
    <2>1. f # "calibrator"
      BY DEF Lineage!Evaluation
    <2> QED
      BY <2>1, <1>5, <1>7 DEF LineageInvariant, CalibratorConsistent, Lineage!Readable
  <1>9. Lineage!RuntimeIsOneChain'
    BY <1>4 DEF LineageInvariant, Lineage!RuntimeIsOneChain
  <1>10. CASE i < 5
    <2>1. /\ command' = [name |-> "evaluate", version |-> v, writes |-> Remaining[i + 1],
                         output |-> None]
          /\ command'.version = v
      <3>1. Tail(command.writes) = Remaining[i + 1]
        BY <1>0, <1>10, RemainingAre
      <3> QED
        <4>1. command' = [command EXCEPT !.writes = Remaining[i + 1]]
          <5>1. i # 5
            BY <1>10
          <5>2. command' = [command EXCEPT !.writes = Tail(@)]
            BY <1>3, <5>1, Zenon
          <5> QED
            BY <5>2, <3>1
        <4> HIDE DEF f
        <4> QED
          BY <4>1
    <2>2. finished' = [version |-> v, commands |-> {}]
      BY <1>3, <1>10
    <2>3. Written(v, i + 1)'
      <3>1. CASE i = 1
        BY <3>1, <1>4, <1>6 DEF Lineage!Evaluation, Lineage!EvaluationContent, Written
      <3>2. CASE i = 2
        BY <3>2, <1>4, <1>5, <1>6, <1>7 DEF Lineage!Evaluation, Lineage!EvaluationContent, Written
      <3>3. CASE i = 3
        BY <3>3, <1>4, <1>5, <1>6, <1>7 DEF Lineage!Evaluation, Lineage!EvaluationContent, Written
      <3>4. CASE i = 4
        BY <3>4, <1>4, <1>5, <1>6, <1>7 DEF Lineage!Evaluation, Lineage!EvaluationContent,
                                            Written, Lineage!PredictionsOf
      <3> QED
        BY <1>10, <3>1, <3>2, <3>3, <3>4
    <2>4. CommandConsistent'
      <3>1. i + 1 \in 1 .. 5
        BY <1>10
      <3>2. Evaluating(command)'
        BY <2>1, <2>2, <2>3, <3>1 DEF Evaluating
      <3> QED
        BY <3>2, <2>1 DEF CommandConsistent
    <2>5. ProvenanceConsistent'
      <3>1. f # "provenance"
        BY <1>10 DEF Lineage!Evaluation
      <3> QED
        BY <3>1, <1>5, <1>7 DEF LineageInvariant, ProvenanceConsistent, Lineage!Readable
    <2>6. FinishedConsistent'
      BY <2>2 DEF FinishedConsistent, EvaluateEnded, CalibrateEnded, DecideEnded
    <2> QED
      BY <1>5, <1>8, <1>9, <2>4, <2>5, <2>6 DEF LineageInvariant
  <1>11. CASE i = 5
    <2>1. f = "provenance" /\ command' = None
      BY <1>3, <1>11 DEF Lineage!Evaluation
    <2>2. finished' = [version |-> v, commands |-> {"evaluate"}]
      BY <1>3, <1>11
    <2>3. files'.provenance = Lineage!ProvenanceOf(v)
      BY <1>6, <2>1 DEF Lineage!EvaluationContent
    <2>4. \A g \in {"model", "metadata", "manifest", "predictions"} : files'[g] = files[g]
      BY <1>5, <1>7, <2>1
    <2>5. Written(v, 5)'
      BY <2>4, <1>4, <1>11 DEF Written, Lineage!PredictionsOf
    <2>6. Evaluated(v)'
      BY <2>3, <2>4, <2>5 DEF Evaluated, Lineage!ProvenanceOf
    <2>7. FinishedConsistent'
      BY <2>1, <2>2, <2>6
         DEF FinishedConsistent, EvaluateEnded, CalibrateEnded, DecideEnded
    <2>8. ProvenanceConsistent'
      BY <2>3, <1>11 DEF ProvenanceConsistent, Lineage!ProvenanceOf, Written
    <2> QED
      BY <1>5, <1>8, <1>9, <2>1, <2>7, <2>8 DEF LineageInvariant, CommandConsistent
  <1> QED
    BY <1>10, <1>11

(* A calibration writes one file, which no evaluation binds. *)
LEMMA CalibrationWrites ==
    ASSUME NothingIsMissing, LineageInvariant, Lineage!Write, command # None, Calibrating(command)
    PROVE  LineageInvariant'
  <1> DEFINE c == command.output.calibrator
  <1>1. command.name = "calibrate" /\ command.writes = <<"calibrator">>
        /\ command.output["calibrator"] = c
    BY DEF Calibrating
  <1>2. files' = [files EXCEPT !["calibrator"] = c]
    BY <1>1 DEF Lineage!Write, Lineage!Content
  <1>3. /\ command' = None
        /\ finished' = [finished EXCEPT !.commands = @ \cup {"calibrate"}]
        /\ evaluations' = evaluations /\ runtime' = runtime
    BY <1>1 DEF Lineage!Write
  <1>4. DOMAIN files' = Lineage!File /\ files'.calibrator = c
        /\ \A g \in Lineage!File : g # "calibrator" => files'[g] = files[g]
    <2>1. "calibrator" \in Lineage!File
      BY DEF Lineage!File
    <2> QED
      BY <1>2, <2>1 DEF LineageInvariant
  <1>5. \A g \in {"model", "metadata", "manifest", "predictions", "provenance"} :
            files'[g] = files[g]
    <2>1. {"model", "metadata", "manifest", "predictions", "provenance"} \subseteq Lineage!File
      BY DEF Lineage!File, Lineage!Evaluation
    <2> QED
      BY <2>1, <1>4
  <1>6. ProvenanceConsistent'
    BY <1>5 DEF LineageInvariant, ProvenanceConsistent, Lineage!Readable
  <1>7. CalibratorConsistent'
    BY <1>4 DEF Calibrating, CalibratorConsistent, IsCalibrator
  <1>8. /\ finished' = [version |-> finished.version,
                        commands |-> finished.commands \cup {"calibrate"}]
        /\ finished.commands \subseteq {"evaluate", "calibrate", "decide"}
        /\ "decide" \notin finished.commands
    BY <1>3 DEF LineageInvariant, FinishedConsistent
  <1>9. EvaluateEnded'
    <2> SUFFICES ASSUME "evaluate" \in finished.commands, NEW w, w = finished.version
                 PROVE  w \in Version /\ Evaluated(w)'
      BY <1>3, <1>8 DEF EvaluateEnded
    <2>1. w \in Version /\ Evaluated(w)
      BY DEF LineageInvariant, FinishedConsistent, EvaluateEnded
    <2> QED
      BY <2>1, <1>3, <1>5, EvaluatedStays
  <1>10. CalibrateEnded'
    <2>1. "evaluate" \in finished.commands => c = Lineage!CalibratorOf(Lineage!Frozen)
      BY <1>1 DEF LineageInvariant, FinishedConsistent, EvaluateEnded
    <2>2. Lineage!Frozen' = Lineage!Frozen
      BY <1>5 DEF Lineage!Frozen
    <2>3. Lineage!CalibratorOf(Lineage!Frozen)' = Lineage!CalibratorOf(Lineage!Frozen)
      BY <2>2 DEF Lineage!CalibratorOf
    <2> HIDE DEF c
    <2> QED
      BY <1>3, <1>4, <1>8, <2>1, <2>3 DEF CalibrateEnded, Calibrated
  <1>11. FinishedConsistent'
    BY <1>3, <1>8, <1>9, <1>10 DEF FinishedConsistent, DecideEnded
  <1> QED
    BY <1>3, <1>4, <1>6, <1>7, <1>11 DEF LineageInvariant, CommandConsistent,
                                         Lineage!RuntimeIsOneChain

(* A decision writes two files, neither of which an evaluation binds. *)
LEMMA DecisionWrites ==
    ASSUME NothingIsMissing, LineageInvariant, Lineage!Write, command # None, Deciding(command)
    PROVE  LineageInvariant'
  <1> DEFINE f == Head(command.writes)
  <1>1. /\ command.name = "decide"
        /\ \/ command.writes = <<"policy", "decision">> /\ f = "policy"
              /\ Len(command.writes) = 2 /\ Tail(command.writes) = <<"decision">>
           \/ command.writes = <<"decision">> /\ f = "decision" /\ Len(command.writes) = 1
    <2>1. command.name = "decide" /\ command.writes \in {<<"policy", "decision">>, <<"decision">>}
      BY DEF Deciding
    <2>2. CASE command.writes = <<"policy", "decision">>
      BY <2>1, <2>2
    <2>3. CASE command.writes = <<"decision">>
      BY <2>1, <2>3
    <2> QED
      BY <2>1, <2>2, <2>3
  <1>2. files' = [files EXCEPT ![f] = command.output[f]]
    BY <1>1 DEF Lineage!Write, Lineage!Content
  <1>3. evaluations' = evaluations /\ runtime' = runtime
    BY DEF Lineage!Write
  <1>4. DOMAIN files' = Lineage!File /\ files'[f] = command.output[f]
        /\ \A g \in Lineage!File : g # f => files'[g] = files[g]
    <2>1. "policy" \in Lineage!File /\ "decision" \in Lineage!File
      BY DEF Lineage!File
    <2> QED
      BY <1>1, <1>2, <2>1 DEF LineageInvariant
  <1>5. \A g \in {"model", "metadata", "manifest", "predictions", "provenance", "calibrator"} :
            files'[g] = files[g]
    <2>1. {"model", "metadata", "manifest", "predictions", "provenance", "calibrator"}
            \subseteq Lineage!File
      BY DEF Lineage!File, Lineage!Evaluation
    <2> QED
      BY <2>1, <1>1, <1>4
  <1>6. ProvenanceConsistent' /\ CalibratorConsistent'
    BY <1>5 DEF LineageInvariant, ProvenanceConsistent, CalibratorConsistent, Lineage!Readable
  <1>7. Lineage!Frozen' = Lineage!Frozen
    BY <1>5 DEF Lineage!Frozen
  <1>8. \A w : (w \in Version /\ Evaluated(w)) => Evaluated(w)'
    BY <1>3, <1>5, EvaluatedStays
  <1>9. CASE command.writes = <<"policy", "decision">>
    <2>1. /\ command' = [command EXCEPT !.writes = Tail(@)]
          /\ finished' = finished
      BY <1>1, <1>9 DEF Lineage!Write
    <2>2. /\ command' = [name |-> "decide", version |-> command.version, writes |-> <<"decision">>,
                         output |-> command.output]
          /\ command.output = [policy |-> command.output.policy,
                               decision |-> command.output.decision]
      BY <1>1, <1>9, <2>1 DEF Deciding
    <2>3. CommandConsistent'
      <3>1. Deciding(command)'
        BY <2>2 DEF Deciding
      <3> QED
        BY <2>2, <3>1 DEF CommandConsistent, LineageInvariant
    <2>4. EvaluateEnded'
      <3> SUFFICES ASSUME "evaluate" \in finished.commands, NEW w, w = finished.version
                   PROVE  w \in Version /\ Evaluated(w)'
        BY <2>1, <2>2 DEF EvaluateEnded
      <3> QED
        BY <1>8 DEF LineageInvariant, FinishedConsistent, EvaluateEnded
    <2>5. CalibrateEnded'
      <3> SUFFICES ASSUME {"evaluate", "calibrate"} \subseteq finished.commands
                   PROVE  CalibrateEnded'
        BY <2>1 DEF CalibrateEnded
      <3>1. Calibrated /\ command.output.policy = Lineage!PolicyModelOf(files.calibrator,
            finished.version)
            /\ command.output.decision \notin {None, Torn}
            /\ command.output.decision.policy = command.output.policy
        BY DEF LineageInvariant, FinishedConsistent, CalibrateEnded
      <3>2. Calibrated'
        BY <1>5, <1>7, <3>1 DEF Calibrated, Lineage!CalibratorOf
      <3>3. files'.policy = command.output.policy
        BY <1>1, <1>4, <1>9
      <3>4. command'.output = command.output /\ command'.name = "decide"
        BY <2>2
      <3>5. Lineage!PolicyModelOf(files.calibrator, finished.version)'
              = Lineage!PolicyModelOf(files.calibrator, finished.version)
        BY <1>5, <2>1 DEF Lineage!PolicyModelOf, Lineage!ProbabilityId
      <3> QED
        BY <3>1, <3>2, <3>3, <3>4, <3>5 DEF CalibrateEnded
    <2>6. FinishedConsistent'
      BY <2>1, <2>4, <2>5 DEF FinishedConsistent, DecideEnded, LineageInvariant
    <2> QED
      BY <1>3, <1>4, <1>6, <2>3, <2>6 DEF LineageInvariant, Lineage!RuntimeIsOneChain
  <1>10. CASE command.writes = <<"decision">>
    <2>1. /\ command' = None
          /\ finished' = [finished EXCEPT !.commands = @ \cup {"decide"}]
      BY <1>1, <1>10 DEF Lineage!Write
    <2>2. /\ finished' = [version |-> finished.version,
                          commands |-> finished.commands \cup {"decide"}]
          /\ finished.commands \subseteq {"evaluate", "calibrate", "decide"}
      BY <2>1 DEF LineageInvariant, FinishedConsistent
    <2>3. EvaluateEnded'
      <3> SUFFICES ASSUME "evaluate" \in finished.commands, NEW w, w = finished.version
                   PROVE  w \in Version /\ Evaluated(w)'
        BY <2>1, <2>2 DEF EvaluateEnded
      <3> QED
        BY <1>8 DEF LineageInvariant, FinishedConsistent, EvaluateEnded
    <2>4. /\ finished' = [version |-> finished'.version, commands |-> finished'.commands]
          /\ finished'.commands \subseteq {"evaluate", "calibrate", "decide"}
      BY <2>2
    <2>5. ASSUME {"evaluate", "calibrate"} \subseteq finished.commands PROVE FinishedConsistent'
      <3>1. Calibrated /\ command.output.policy = Lineage!PolicyModelOf(files.calibrator,
            finished.version)
            /\ command.output.decision \notin {None, Torn}
            /\ command.output.decision.policy = command.output.policy
            /\ files.policy = command.output.policy
        BY <1>10, <2>5 DEF LineageInvariant, FinishedConsistent, CalibrateEnded
      <3>2. Calibrated'
        BY <1>5, <1>7, <3>1 DEF Calibrated, Lineage!CalibratorOf
      <3>3. files'.decision = command.output.decision /\ files'.policy = files.policy
        <4>1. "policy" \in Lineage!File
          BY DEF Lineage!File
        <4> QED
          BY <4>1, <1>1, <1>4, <1>10
      <3>4. Lineage!PolicyModelOf(files.calibrator, finished.version)'
              = Lineage!PolicyModelOf(files.calibrator, finished.version)
        BY <1>5, <2>2 DEF Lineage!PolicyModelOf, Lineage!ProbabilityId
      <3> QED
        <4>1. CalibrateEnded'
          BY <2>1, <3>2 DEF CalibrateEnded
        <4>2. DecideEnded'
          BY <2>1, <3>1, <3>3, <3>4 DEF DecideEnded
        <4> QED
          BY <2>1, <2>3, <2>4, <4>1, <4>2, Zenon DEF FinishedConsistent
    <2>6. ASSUME ~ ({"evaluate", "calibrate"} \subseteq finished.commands) PROVE FinishedConsistent'
      <3>1. ~ ({"evaluate", "calibrate"} \subseteq finished'.commands)
        BY <2>2, <2>6
      <3>2. finished'.commands # {"evaluate", "calibrate", "decide"}
        BY <3>1
      <3> QED
        BY <2>1, <2>3, <2>4, <3>1, <3>2, Zenon DEF FinishedConsistent, CalibrateEnded, DecideEnded
    <2> QED
      BY <1>3, <1>4, <1>6, <2>1, <2>5, <2>6
         DEF LineageInvariant, Lineage!RuntimeIsOneChain, CommandConsistent
  <1> QED
    BY <1>1, <1>9, <1>10

(* A write is of one of the three commands. *)
LEMMA WriteStep ==
    ASSUME NothingIsMissing, LineageInvariant, Lineage!Write
    PROVE  LineageInvariant'
  <1>1. command # None
    BY DEF Lineage!Write
  <1>2. CASE Evaluating(command)
    <2> SUFFICES ASSUME NEW v, v = command.version
                 PROVE  LineageInvariant'
      OBVIOUS
    <2>1. v \in Version
      BY <1>1 DEF LineageInvariant, CommandConsistent
    <2>2. PICK i \in 1 .. 5 :
              /\ command = [name |-> "evaluate", version |-> v, writes |-> Remaining[i],
                            output |-> None]
              /\ Written(v, i) /\ finished = [version |-> v, commands |-> {}]
      BY <1>2 DEF Evaluating
    <2> QED
      BY <1>1, <2>1, <2>2, EvaluationWrites
  <1>3. CASE Calibrating(command)
    BY <1>1, <1>3, CalibrationWrites
  <1>4. CASE Deciding(command)
    BY <1>1, <1>4, DecisionWrites
  <1> QED
    BY <1>1, <1>2, <1>3, <1>4 DEF LineageInvariant, CommandConsistent

(***************************************************************************)
(* The files and what runs over them are consistent after every step.      *)
(***************************************************************************)
THEOREM InvariantHolds == ASSUME NothingIsMissing PROVE Lineage!Spec => []LineageInvariant
  <1>1. LineageInvariant /\ [Lineage!Next]_Lineage!vars => LineageInvariant'
    <2> SUFFICES ASSUME LineageInvariant, [Lineage!Next]_Lineage!vars
                 PROVE  LineageInvariant'
      OBVIOUS
    <2>1. ASSUME NEW v \in Version, Lineage!StartEvaluation(v) PROVE LineageInvariant'
      BY <2>1, EvaluationStarts
    <2>2. ASSUME NEW v \in Version, Lineage!StartCalibration(v) PROVE LineageInvariant'
      BY <2>2, CalibrationStarts
    <2>3. ASSUME NEW v \in Version, Lineage!StartDecision(v) PROVE LineageInvariant'
      BY <2>3, DecisionStarts
    <2>4. ASSUME NEW v \in Version, Lineage!StartRuntime(v) PROVE LineageInvariant'
      BY <2>4, RuntimeStarts
    <2>5. CASE Lineage!Write
      BY <2>5, WriteStep
    <2>6. CASE Lineage!Crash
      BY <2>6, CrashStep
    <2>7. CASE Lineage!StopRuntime
      BY <2>7, RuntimeStep DEF Lineage!StopRuntime, LineageInvariant, Lineage!RuntimeIsOneChain
    <2>8. CASE UNCHANGED Lineage!vars
      BY <2>8, RuntimeStep DEF Lineage!vars, LineageInvariant, Lineage!RuntimeIsOneChain
    <2> QED
      BY <2>1, <2>2, <2>3, <2>4, <2>5, <2>6, <2>7, <2>8 DEF Lineage!Next
  <1> QED
    BY <1>1, InitInvariant, PTL DEF Lineage!Spec

(* evaluation/provenance.py: what load_frozen_full_evaluation accepts is of   *)
(* one evaluation, whole, whatever evaluations died on the same files.        *)
THEOREM FrozenHolds == ASSUME NothingIsMissing PROVE Lineage!Spec => []Lineage!FrozenIsWhole
  <1>1. LineageInvariant => Lineage!FrozenIsWhole
    <2> SUFFICES ASSUME LineageInvariant, NEW v \in Version, Lineage!FrozenLoads(v)
                 PROVE  \E u \in Version :
                            /\ Config[u] = Config[v] /\ files.model.trees = Model[u]
                            /\ files.manifest = Manifest[u]
                            /\ files.predictions = Lineage!PredictionsOf(u)
      BY DEF Lineage!FrozenIsWhole
    <2>1. PICK u \in Version :
              /\ files.provenance.config = Config[u]
              /\ DOMAIN files.provenance.hashes = {"model", "metadata", "manifest", "predictions"}
              /\ files.provenance.hashes.model.trees = Model[u]
              /\ files.provenance.hashes.manifest = Manifest[u]
              /\ files.provenance.hashes.predictions = Lineage!PredictionsOf(u)
      BY DEF LineageInvariant, ProvenanceConsistent, Lineage!FrozenLoads
    <2>2. \A f \in {"model", "manifest", "predictions"} :
              files[f] = files.provenance.hashes[f]
      BY <2>1 DEF Lineage!FrozenLoads
    <2> QED
      BY <2>1, <2>2 DEF Lineage!FrozenLoads
  <1> QED
    BY <1>1, InvariantHolds, PTL

(* api/runtime.py: a runtime's model, calibrator and policy are one chain. *)
THEOREM RuntimeHolds == ASSUME NothingIsMissing PROVE Lineage!Spec => []Lineage!RuntimeIsOneChain
  <1>1. LineageInvariant => Lineage!RuntimeIsOneChain
    BY DEF LineageInvariant
  <1> QED
    BY <1>1, InvariantHolds, PTL

(* scripts/evaluate_held_out.py, evaluate_calibration.py, decide_policy.py:   *)
(* what they leave after an undisturbed run in that order is accepted.        *)
THEOREM CleanRunHolds == ASSUME NothingIsMissing PROVE Lineage!Spec => []Lineage!CleanRunIsAccepted
  <1>1. ASSUME NothingIsMissing PROVE LineageInvariant => Lineage!CleanRunIsAccepted
    <2> SUFFICES ASSUME LineageInvariant, NEW v, v = finished.version,
                        finished.commands = {"evaluate", "calibrate", "decide"},
                        Manifest[v] \in Supported
                 PROVE  Lineage!RuntimeLoads(v) /\ Lineage!DecisionLoads
      BY DEF Lineage!CleanRunIsAccepted
    <2>1. /\ v \in Version /\ Evaluated(v) /\ Calibrated
          /\ files.policy = Lineage!PolicyModelOf(files.calibrator, v)
          /\ files.decision \notin {None, Torn} /\ files.decision.policy = files.policy
      BY DEF LineageInvariant, FinishedConsistent, EvaluateEnded, CalibrateEnded, DecideEnded
    <2>2. Written(v, 5) /\ files.provenance = Lineage!ProvenanceOf(v)
      BY <2>1 DEF Evaluated
    <2>3. /\ files.model = [guid |-> evaluations, trees |-> Model[v]]
          /\ files.metadata = Config[v] /\ files.manifest = Manifest[v]
          /\ files.predictions = Lineage!PredictionsOf(v)
      BY <2>2 DEF Written
    <2>4. /\ Lineage!Readable("model") /\ Lineage!Readable("metadata")
          /\ Lineage!Readable("manifest")
          /\ Lineage!Readable("predictions") /\ Lineage!Readable("provenance")
      BY <2>1, <2>2, <2>3, <1>1 DEF NothingIsMissing, Lineage!Readable, Lineage!PredictionsOf,
                                    Lineage!ProvenanceOf
    <2>5. Lineage!FrozenLoads(v)
      BY <2>2, <2>3, <2>4 DEF Lineage!FrozenLoads, Lineage!ProvenanceOf, Lineage!RecordsMatch,
                              Lineage!PredictionsOf
    <2>6. Lineage!CalibratorLoads(files.provenance.base)
      BY <2>1, <2>3, <1>1 DEF Calibrated, Lineage!CalibratorOf, Lineage!Frozen,
                              Lineage!CalibratorLoads, Lineage!Readable,
         NothingIsMissing
    <2>7. Lineage!PolicyLoads(files.calibrator) /\ Lineage!DecisionLoads
      BY <2>1, <1>1 DEF Lineage!PolicyLoads, Lineage!DecisionLoads, Lineage!Readable,
                        Lineage!PolicyModelOf, NothingIsMissing
    <2> QED
      BY <2>5, <2>6, <2>7 DEF Lineage!RuntimeLoads
  <1> QED
    BY <1>1, InvariantHolds, PTL

-----------------------------------------------------------------------------
(* What a decision is made from: costs are whole amounts. *)
Priced(costs) == costs.fraud \in [Action -> Int] /\ costs.legit \in [Action -> Int]

(* A tie-break order ranks no two actions the same. *)
Ranked(rank) == rank \in [Action -> Int] /\ \A a, b \in Action : rank[a] = rank[b] => a = b

(* Odds are two weights that are not negative. *)
Weighed(odds) == odds.fraud \in Nat /\ odds.legit \in Nat

(* A multiplier is a fraction above zero. *)
Multiplies(m) == m[1] \in Nat \ {0} /\ m[2] \in Nat \ {0}

(* Expected costs at whole weights are whole. *)
LEMMA CostsAreWhole ==
    ASSUME NEW costs, NEW odds, Priced(costs), Weighed(odds), NEW a \in Action
    PROVE  ExpectedCost(costs, a, odds) \in Int
  <1>1. costs.fraud[a] \in Int /\ costs.legit[a] \in Int
    BY DEF Priced
  <1>2. \A x \in Nat, y \in Int : x * y \in Int
    OBVIOUS
  <1>3. odds.fraud * costs.fraud[a] \in Int /\ odds.legit * costs.legit[a] \in Int
    BY <1>1, <1>2 DEF Weighed
  <1>4. \A x, y \in Int : x + y \in Int
    OBVIOUS
  <1> QED
    BY <1>3, <1>4 DEF ExpectedCost

(* Three costs with a tie-break order have a least one. *)
LEMMA BestOfThree ==
    ASSUME NEW x \in Int, NEW y \in Int, NEW z \in Int,
           NEW r \in Int, NEW s \in Int, NEW t \in Int
    PROVE  \/ (x < y \/ (x = y /\ r <= s)) /\ (x < z \/ (x = z /\ r <= t))
           \/ (y < x \/ (y = x /\ s <= r)) /\ (y < z \/ (y = z /\ s <= t))
           \/ (z < x \/ (z = x /\ t <= r)) /\ (z < y \/ (z = y /\ t <= s))
  OBVIOUS

(* One action, and one only, is no worse than each other. *)
LEMMA ChosenIsBest ==
    ASSUME NEW costs, NEW rank, NEW odds, Priced(costs), Ranked(rank), Weighed(odds)
    PROVE  /\ IsChosen(costs, rank, odds, Chosen(costs, rank, odds))
           /\ \A a : IsChosen(costs, rank, odds, a) => a = Chosen(costs, rank, odds)
  <1> DEFINE e(a) == ExpectedCost(costs, a, odds)
  <1>1. \A a \in Action : e(a) \in Int /\ rank[a] \in Int
    BY CostsAreWhole DEF Ranked
  <1>2. \A a, b \in Action :
            Beats(costs, rank, odds, a, b) <=> e(a) < e(b) \/ (e(a) = e(b) /\ rank[a] <= rank[b])
    BY DEF Beats
  <1> HIDE DEF e
  <1>3. \A a \in Action : Beats(costs, rank, odds, a, a)
    BY <1>1, <1>2
  <1>4. \E a \in Action : IsChosen(costs, rank, odds, a)
    <2>1. "ALLOW" \in Action /\ "REVIEW" \in Action /\ "BLOCK" \in Action
      BY DEF Action
    <2>2. LET beats(a, b) == Beats(costs, rank, odds, a, b)
          IN  \/ beats("ALLOW", "REVIEW") /\ beats("ALLOW", "BLOCK")
              \/ beats("REVIEW", "ALLOW") /\ beats("REVIEW", "BLOCK")
              \/ beats("BLOCK", "ALLOW") /\ beats("BLOCK", "REVIEW")
      <3>1. /\ e("ALLOW") \in Int /\ e("REVIEW") \in Int /\ e("BLOCK") \in Int
            /\ rank["ALLOW"] \in Int /\ rank["REVIEW"] \in Int /\ rank["BLOCK"] \in Int
        BY <1>1, <2>1
      <3> QED
        BY <1>2, <2>1, <3>1, BestOfThree
    <2> QED
      BY <1>3, <2>1, <2>2 DEF IsChosen, Action
  <1>5. \A a, b : IsChosen(costs, rank, odds, a) /\ IsChosen(costs, rank, odds, b) => a = b
    <2> SUFFICES ASSUME NEW a, NEW b, IsChosen(costs, rank, odds, a), IsChosen(costs, rank, odds, b)
                 PROVE  a = b
      OBVIOUS
    <2>1. /\ a \in Action /\ b \in Action
          /\ Beats(costs, rank, odds, a, b) /\ Beats(costs, rank, odds, b, a)
      BY DEF IsChosen
    <2>2. rank[a] = rank[b]
      BY <1>1, <1>2, <2>1
    <2> QED
      BY <2>1, <2>2 DEF Ranked
  <1>6. IsChosen(costs, rank, odds, Chosen(costs, rank, odds))
    BY <1>4 DEF Chosen
  <1> QED
    BY <1>5, <1>6

(* The odds between two others are a combination of them: what holds of a     *)
(* cost difference at both ends holds between, and strictly unless neither     *)
(* end is strict.                                                              *)
LEMMA BetweenCombines ==
    ASSUME NEW p1 \in Nat \ {0}, NEW p2 \in Nat \ {0}, NEW q1 \in Nat \ {0}, NEW q2 \in Nat \ {0},
           NEW m1 \in Nat \ {0}, NEW m2 \in Nat \ {0}, NEW x \in Int, NEW y \in Int,
           p1 * m2 <= m1 * p2, m1 * q2 <= q1 * m2,
           p1 * x + p2 * y >= 0, q1 * x + q2 * y >= 0
    PROVE  /\ m1 * x + m2 * y >= 0
           /\ m1 * x + m2 * y = 0 => (p1 * x + p2 * y = 0 \/ q1 * x + q2 * y = 0)
  <1> DEFINE A == q1 * m2 - m1 * q2
             B == m1 * p2 - p1 * m2
             D == q1 * p2 - p1 * q2
             P == p1 * x + p2 * y
             Q == q1 * x + q2 * y
             M == m1 * x + m2 * y
  <1>1. A \in Int /\ B \in Int /\ D \in Int /\ P \in Int /\ Q \in Int /\ M \in Int
    OBVIOUS
  <1>2. A >= 0 /\ B >= 0
    OBVIOUS
  <1>3. M * D = A * P + B * Q
    OBVIOUS
  <1>4. m1 * D = A * p1 + B * q1
    OBVIOUS
  <1>5. m2 * D = A * p2 + B * q2
    OBVIOUS
  <1>6. M * p1 = m1 * P - B * y
    OBVIOUS
  <1>7. M * q1 = m1 * Q + A * y
    OBVIOUS
  <1>8. P >= 0 /\ Q >= 0
    OBVIOUS
  <1> HIDE DEF A, B, D, P, Q, M
  <1>9. D >= 0
    <2>1. A * p1 >= 0 /\ B * q1 >= 0
      BY <1>1, <1>2
    <2>2. m1 * D >= 0
      BY <1>1, <1>4, <2>1
    <2> QED
      BY <1>1, <2>2
  <1>10. CASE D = 0
    <2>1. A = 0 /\ B = 0
      <3>1. A * p1 + B * q1 = 0
        BY <1>1, <1>4, <1>10
      <3>2. A * p1 >= 0 /\ B * q1 >= 0
        BY <1>1, <1>2
      <3>3. A * p1 = 0 /\ B * q1 = 0
        BY <1>1, <3>1, <3>2
      <3> QED
        BY <1>1, <3>3
    <2>2. M * p1 = m1 * P
      BY <1>1, <1>6, <2>1
    <2>3. m1 * P >= 0
      BY <1>1, <1>8
    <2>4. M >= 0
      BY <1>1, <2>2, <2>3
    <2>5. M = 0 => P = 0
      BY <1>1, <2>2
    <2> QED
      BY <2>4, <2>5 DEF M, P
  <1>11. CASE D > 0
    <2>1. A * P >= 0 /\ B * Q >= 0
      BY <1>1, <1>2, <1>8
    <2>2. M * D >= 0
      BY <1>1, <1>3, <2>1
    <2>3. M >= 0
      BY <1>1, <1>11, <2>2
    <2>4. ASSUME M = 0 PROVE P = 0 \/ Q = 0
      <3>1. M * D = 0
        BY <1>1, <2>4
      <3>2. A * P = 0 /\ B * Q = 0
        BY <1>1, <1>3, <2>1, <3>1
      <3>3. A # 0 \/ B # 0
        <4> SUFFICES ASSUME A = 0, B = 0 PROVE FALSE
          OBVIOUS
        <4>1. m1 * D = 0
          BY <1>4
        <4> QED
          BY <1>1, <1>11, <4>1
      <3> QED
        BY <1>1, <3>2, <3>3
    <2> QED
      BY <2>3, <2>4 DEF M, P, Q
  <1> QED
    BY <1>1, <1>9, <1>10, <1>11

(* The cost difference of two actions at adjusted odds. *)
LEMMA AdjustedDifference ==
    ASSUME NEW costs, NEW odds, NEW m, Priced(costs), Weighed(odds), Multiplies(m),
           NEW a \in Action, NEW b \in Action
    PROVE  ExpectedCost(costs, b, OddsAdjusted(odds, m))
               - ExpectedCost(costs, a, OddsAdjusted(odds, m))
             = m[1] * (odds.fraud * (costs.fraud[b] - costs.fraud[a]))
                 + m[2] * (odds.legit * (costs.legit[b] - costs.legit[a]))
  <1>1. /\ costs.fraud[a] \in Int /\ costs.legit[a] \in Int
        /\ costs.fraud[b] \in Int /\ costs.legit[b] \in Int
    BY DEF Priced
  <1>2. odds.fraud \in Nat /\ odds.legit \in Nat /\ m[1] \in Nat /\ m[2] \in Nat
    BY DEF Weighed, Multiplies
  <1>3. \A c \in Action : ExpectedCost(costs, c, OddsAdjusted(odds, m))
          = (odds.fraud * m[1]) * costs.fraud[c] + (odds.legit * m[2]) * costs.legit[c]
    BY DEF ExpectedCost, OddsAdjusted
  <1>4. ASSUME NEW f \in Nat, NEW l \in Nat, NEW s \in Nat, NEW t \in Nat,
               NEW x \in Int, NEW y \in Int, NEW z \in Int, NEW w \in Int
        PROVE  ((f * s) * x + (l * t) * y) - ((f * s) * z + (l * t) * w)
                 = s * (f * (x - z)) + t * (l * (y - w))
    OBVIOUS
  <1> QED
    BY <1>1, <1>2, <1>3, <1>4

(* Adjusted odds are odds. *)
LEMMA AdjustedIsWeighed ==
    ASSUME NEW odds, NEW m, Weighed(odds), Multiplies(m)
    PROVE  Weighed(OddsAdjusted(odds, m))
  <1>1. \A x, y \in Nat : x * y \in Nat
    OBVIOUS
  <1> QED
    BY <1>1 DEF Weighed, Multiplies, OddsAdjusted

(* An action chosen at two odds multipliers is chosen at every one between. *)
LEMMA ChosenBetween ==
    ASSUME NEW costs, NEW rank, NEW odds, Priced(costs), Ranked(rank), Weighed(odds),
           NEW lo, NEW hi, NEW m, Multiplies(lo), Multiplies(hi), Multiplies(m), Between(lo, m, hi),
           NEW a, IsChosen(costs, rank, OddsAdjusted(odds, lo), a),
           IsChosen(costs, rank, OddsAdjusted(odds, hi), a)
    PROVE  IsChosen(costs, rank, OddsAdjusted(odds, m), a)
  <1> SUFFICES ASSUME NEW b \in Action
               PROVE  Beats(costs, rank, OddsAdjusted(odds, m), a, b)
    BY DEF IsChosen
  <1>1. a \in Action
    BY DEF IsChosen
  <1> DEFINE x == odds.fraud * (costs.fraud[b] - costs.fraud[a])
             y == odds.legit * (costs.legit[b] - costs.legit[a])
             e(c, n) == ExpectedCost(costs, c, OddsAdjusted(odds, n))
  <1>2. x \in Int /\ y \in Int
    <2>1. /\ costs.fraud[a] \in Int /\ costs.legit[a] \in Int
          /\ costs.fraud[b] \in Int /\ costs.legit[b] \in Int
      BY <1>1 DEF Priced
    <2>2. \A f \in Nat, u, w \in Int : f * (u - w) \in Int
      OBVIOUS
    <2> QED
      BY <2>1, <2>2 DEF Weighed
  <1>3. \A n : Multiplies(n) => /\ e(a, n) \in Int /\ e(b, n) \in Int
                              /\ e(b, n) - e(a, n) = n[1] * x + n[2] * y
    BY <1>1, AdjustedDifference, AdjustedIsWeighed, CostsAreWhole
  <1>4. \A n : Beats(costs, rank, OddsAdjusted(odds, n), a, b)
                 <=> e(a, n) < e(b, n) \/ (e(a, n) = e(b, n) /\ rank[a] <= rank[b])
    BY DEF Beats
  <1>5. /\ e(a, lo) < e(b, lo) \/ (e(a, lo) = e(b, lo) /\ rank[a] <= rank[b])
        /\ e(a, hi) < e(b, hi) \/ (e(a, hi) = e(b, hi) /\ rank[a] <= rank[b])
    BY <1>4 DEF IsChosen
  <1> HIDE DEF x, y, e
  <1>6. /\ lo[1] * x + lo[2] * y >= 0 /\ hi[1] * x + hi[2] * y >= 0
        /\ lo[1] * x + lo[2] * y = 0 => rank[a] <= rank[b]
        /\ hi[1] * x + hi[2] * y = 0 => rank[a] <= rank[b]
    <2>1. \A s, t \in Int : (s < t => t - s > 0) /\ (s = t => t - s = 0)
      OBVIOUS
    <2>2. /\ e(a, lo) \in Int /\ e(b, lo) \in Int /\ e(b, lo) - e(a, lo) = lo[1] * x + lo[2] * y
          /\ e(a, hi) \in Int /\ e(b, hi) \in Int /\ e(b, hi) - e(a, hi) = hi[1] * x + hi[2] * y
      BY <1>3
    <2>3. e(b, lo) - e(a, lo) >= 0 /\ (e(b, lo) - e(a, lo) = 0 => rank[a] <= rank[b])
      BY <1>5, <2>1, <2>2
    <2>4. e(b, hi) - e(a, hi) >= 0 /\ (e(b, hi) - e(a, hi) = 0 => rank[a] <= rank[b])
      BY <1>5, <2>1, <2>2
    <2> QED
      BY <2>2, <2>3, <2>4
  <1>7. /\ m[1] * x + m[2] * y >= 0
        /\ m[1] * x + m[2] * y = 0 =>
             (lo[1] * x + lo[2] * y = 0 \/ hi[1] * x + hi[2] * y = 0)
    <2>1. /\ lo[1] \in Nat \ {0} /\ lo[2] \in Nat \ {0} /\ hi[1] \in Nat \ {0}
          /\ hi[2] \in Nat \ {0} /\ m[1] \in Nat \ {0} /\ m[2] \in Nat \ {0}
      BY DEF Multiplies
    <2>2. lo[1] * m[2] <= m[1] * lo[2] /\ m[1] * hi[2] <= hi[1] * m[2]
      BY DEF Between
    <2> DEFINE p1 == lo[1]
               p2 == lo[2]
               q1 == hi[1]
               q2 == hi[2]
               m1 == m[1]
               m2 == m[2]
    <2>3. /\ p1 \in Nat \ {0} /\ p2 \in Nat \ {0} /\ q1 \in Nat \ {0}
          /\ q2 \in Nat \ {0} /\ m1 \in Nat \ {0} /\ m2 \in Nat \ {0}
          /\ p1 * m2 <= m1 * p2 /\ m1 * q2 <= q1 * m2
          /\ p1 * x + p2 * y >= 0 /\ q1 * x + q2 * y >= 0
      BY <1>6, <2>1, <2>2, Zenon
    <2> HIDE DEF p1, p2, q1, q2, m1, m2
    <2>4. /\ m1 * x + m2 * y >= 0
          /\ m1 * x + m2 * y = 0 => (p1 * x + p2 * y = 0 \/ q1 * x + q2 * y = 0)
      BY <1>2, <2>3, BetweenCombines
    <2> QED
      BY <2>4, Zenon DEF p1, p2, q1, q2, m1, m2
  <1>8. e(a, m) < e(b, m) \/ (e(a, m) = e(b, m) /\ rank[a] <= rank[b])
    <2>1. e(a, m) \in Int /\ e(b, m) \in Int /\ e(b, m) - e(a, m) = m[1] * x + m[2] * y
      BY <1>3
    <2>2. \A s, t \in Int : (t - s >= 0 => s < t \/ s = t) /\ (s = t => t - s = 0)
      OBVIOUS
    <2>3. e(b, m) - e(a, m) >= 0 /\ (e(b, m) - e(a, m) = 0 => rank[a] <= rank[b])
      BY <1>6, <1>7, <2>1
    <2> QED
      BY <2>1, <2>2, <2>3
  <1> QED
    BY <1>4, <1>8

(***************************************************************************)
(* policy/service.py, decide: the two scenarios of a stable decision stand *)
(* for every probability between them, whatever the costs, the tie-break   *)
(* order and the odds, ties included.                                      *)
(***************************************************************************)
THEOREM StableHolds ==
    ASSUME NEW costs, NEW rank, NEW odds, Priced(costs), Ranked(rank), Weighed(odds),
           NEW optimistic, NEW stressed, Multiplies(optimistic), Multiplies(stressed),
           NEW multipliers, \A m \in multipliers : Multiplies(m)
    PROVE  StableMeansStable(costs, rank, odds, optimistic, stressed, multipliers)
  <1> DEFINE a == Chosen(costs, rank, odds)
  <1> SUFFICES ASSUME Decide(costs, rank, odds, optimistic, stressed).stable,
                      NEW m \in multipliers, Between(optimistic, m, stressed)
               PROVE  Chosen(costs, rank, OddsAdjusted(odds, m)) = a
    BY DEF StableMeansStable
  <1>1. \A n \in {optimistic, stressed} : Chosen(costs, rank, OddsAdjusted(odds, n)) = a
    BY DEF Decide
  <1>2. \A n : Multiplies(n) =>
            /\ IsChosen(costs, rank, OddsAdjusted(odds, n),
                        Chosen(costs, rank, OddsAdjusted(odds, n)))
            /\ \A b : IsChosen(costs, rank, OddsAdjusted(odds, n), b) =>
                        b = Chosen(costs, rank, OddsAdjusted(odds, n))
    BY AdjustedIsWeighed, ChosenIsBest
  <1> HIDE DEF a
  <1>3. /\ IsChosen(costs, rank, OddsAdjusted(odds, optimistic), a)
        /\ IsChosen(costs, rank, OddsAdjusted(odds, stressed), a)
    BY <1>1, <1>2
  <1>4. IsChosen(costs, rank, OddsAdjusted(odds, m), a)
    BY <1>3, ChosenBetween
  <1> QED
    BY <1>2, <1>4

(* investigation/triggers.py: with every trigger enabled, what is left without *)
(* investigation is allowed at every probability between the scenarios.        *)
THEOREM UninvestigatedHolds ==
    ASSUME NEW costs, NEW rank, NEW odds, Priced(costs), Ranked(rank), Weighed(odds),
           NEW optimistic, NEW stressed, Multiplies(optimistic), Multiplies(stressed),
           NEW multipliers, \A m \in multipliers : Multiplies(m)
    PROVE  UninvestigatedIsCertain(costs, rank, odds, optimistic, stressed, multipliers)
  <1> DEFINE d == Decide(costs, rank, odds, optimistic, stressed)
             every == [review |-> TRUE, block |-> TRUE, unstableAllow |-> TRUE]
  <1> SUFFICES ASSUME ~ShouldInvestigate(d, every), NEW m \in multipliers,
                      Between(optimistic, m, stressed)
               PROVE  Chosen(costs, rank, OddsAdjusted(odds, m)) = "ALLOW"
    BY DEF UninvestigatedIsCertain
  <1>1. d.action = Chosen(costs, rank, odds) /\ d.action \in Action
    BY ChosenIsBest DEF Decide, IsChosen
  <1>2. d.action = "ALLOW" /\ d.stable
    BY <1>1 DEF ShouldInvestigate, Action
  <1>3. StableMeansStable(costs, rank, odds, optimistic, stressed, multipliers)
    BY StableHolds
  <1> QED
    BY <1>1, <1>2, <1>3 DEF StableMeansStable

(* policy/service.py: as fraud becomes more likely, the action that is chosen *)
(* never loses more to fraud.                                                 *)
THEOREM LeniencyHolds ==
    ASSUME NEW costs, NEW rank, NEW odds, Priced(costs), Ranked(rank), Weighed(odds),
           NEW multipliers, \A m \in multipliers : Multiplies(m)
    PROVE  RiskierIsNotMoreLenient(costs, rank, odds, multipliers)
  <1> SUFFICES ASSUME NEW m \in multipliers, NEW n \in multipliers,
                      m[1] * n[2] < n[1] * m[2], odds.fraud > 0, odds.legit > 0,
                      NEW a, a = Chosen(costs, rank, OddsAdjusted(odds, n)),
                      NEW b, b = Chosen(costs, rank, OddsAdjusted(odds, m))
               PROVE  costs.fraud[a] <= costs.fraud[b]
    BY DEF RiskierIsNotMoreLenient
  <1>1. /\ IsChosen(costs, rank, OddsAdjusted(odds, n), a)
        /\ IsChosen(costs, rank, OddsAdjusted(odds, m), b)
    BY AdjustedIsWeighed, ChosenIsBest
  <1>2. a \in Action /\ b \in Action
    BY <1>1 DEF IsChosen
  <1> DEFINE e(c, k) == ExpectedCost(costs, c, OddsAdjusted(odds, k))
             x == costs.fraud[a] - costs.fraud[b]
             y == costs.legit[a] - costs.legit[b]
  <1>3. e(a, n) \in Int /\ e(b, n) \in Int /\ e(a, m) \in Int /\ e(b, m) \in Int
    BY <1>2, AdjustedIsWeighed, CostsAreWhole
  <1>4. e(a, n) <= e(b, n) /\ e(b, m) <= e(a, m)
    <2>1. Beats(costs, rank, OddsAdjusted(odds, n), a, b)
          /\ Beats(costs, rank, OddsAdjusted(odds, m), b, a)
      BY <1>1, <1>2 DEF IsChosen
    <2> QED
      BY <1>3, <2>1 DEF Beats
  <1>5. /\ e(a, n) - e(b, n) = n[1] * (odds.fraud * x) + n[2] * (odds.legit * y)
        /\ e(a, m) - e(b, m) = m[1] * (odds.fraud * x) + m[2] * (odds.legit * y)
    BY <1>2, AdjustedDifference
  <1>6. /\ costs.fraud[a] \in Int /\ costs.fraud[b] \in Int /\ x \in Int /\ y \in Int
    BY <1>2 DEF Priced
  <1>7. /\ n[1] * (odds.fraud * x) + n[2] * (odds.legit * y) <= 0
        /\ m[1] * (odds.fraud * x) + m[2] * (odds.legit * y) >= 0
    <2> HIDE DEF e, x, y
    <2>1. \A s, t \in Int : (s <= t => s - t <= 0) /\ (t <= s => s - t >= 0)
      OBVIOUS
    <2>2. e(a, n) - e(b, n) <= 0 /\ e(a, m) - e(b, m) >= 0
      BY <1>3, <1>4, <2>1
    <2> QED
      BY <1>5, <2>2
  <1>8. ASSUME NEW f \in Nat, NEW l \in Nat, NEW s \in Nat \ {0}, NEW t \in Nat \ {0},
               NEW u \in Nat \ {0}, NEW w \in Nat \ {0}, NEW p \in Int, NEW q \in Int,
               u * t < s * w, f > 0,
               s * (f * p) + t * (l * q) <= 0, u * (f * p) + w * (l * q) >= 0
        PROVE  p <= 0
    <2> DEFINE S == s * (f * p) + t * (l * q)
               U == u * (f * p) + w * (l * q)
               D == s * w - u * t
    <2>1. (D * f) * p = S * w - U * t
      OBVIOUS
    <2>2. S \in Int /\ U \in Int /\ D \in Int /\ D > 0 /\ S <= 0 /\ U >= 0
      BY <1>8
    <2> HIDE DEF S, U, D
    <2>3. S * w <= 0 /\ U * t >= 0
      BY <2>2
    <2>4. S * w - U * t <= 0
      BY <2>2, <2>3
    <2>5. D * f > 0
      BY <1>8, <2>2
    <2>6. ASSUME NEW z \in Int, z > 0, z * p <= 0 PROVE p <= 0
      BY <2>6
    <2>7. D * f \in Int
      BY <2>2
    <2>8. (D * f) * p <= 0
      BY <2>1, <2>4
    <2> QED
      BY <2>5, <2>6, <2>7, <2>8
  <1>9. x <= 0
    <2> HIDE DEF x, y
    <2>1. /\ n[1] \in Nat \ {0} /\ n[2] \in Nat \ {0} /\ m[1] \in Nat \ {0} /\ m[2] \in Nat \ {0}
          /\ odds.fraud \in Nat /\ odds.legit \in Nat
      BY DEF Multiplies, Weighed
    <2> QED
      BY <1>6, <1>7, <1>8, <2>1
  <1> QED
    BY <1>6, <1>9

-----------------------------------------------------------------------------
(* The cutoffs of an evaluation are in order, and events happen at times. *)
Chronological(labelled, cutoffs) ==
    /\ cutoffs[1] \in Nat /\ cutoffs[2] \in Nat /\ cutoffs[3] \in Nat
    /\ cutoffs[1] < cutoffs[2] /\ cutoffs[2] < cutoffs[3]
    /\ \A x \in labelled : x.at \in Nat

(* The interval of an event is the first whose cutoff it does not exceed. *)
LEMMA IntervalIsFirst ==
    ASSUME NEW labelled, NEW cutoffs, Chronological(labelled, cutoffs),
           ~WorldIsRefused(labelled, cutoffs), NEW x \in labelled
    PROVE  /\ IntervalFor(x.at, cutoffs) \in Split
           /\ x.at <= cutoffs[IntervalFor(x.at, cutoffs)]
           /\ \A t \in Split : x.at <= cutoffs[t] => IntervalFor(x.at, cutoffs) <= t
  <1>1. x.at \in Nat /\ x.at <= cutoffs[3]
    BY DEF Chronological, WorldIsRefused
  <1>2. \E s \in Split : x.at <= cutoffs[s] /\ \A t \in Split : x.at <= cutoffs[t] => s <= t
    <2>1. CASE x.at <= cutoffs[1]
      BY <2>1 DEF Split
    <2>2. CASE ~(x.at <= cutoffs[1]) /\ x.at <= cutoffs[2]
      BY <2>2 DEF Split
    <2>3. CASE ~(x.at <= cutoffs[1]) /\ ~(x.at <= cutoffs[2])
      BY <1>1, <2>3 DEF Split
    <2> QED
      BY <2>1, <2>2, <2>3
  <1> QED
    BY <1>2 DEF IntervalFor

(* A positive sample has labelled abuse within its split's interval. *)
LEMMA PositiveInInterval ==
    ASSUME NEW created, NEW labelled, NEW cutoffs, Chronological(labelled, cutoffs),
           ~WorldIsRefused(labelled, cutoffs), NEW x \in Samples(created, labelled, cutoffs)
    PROVE  /\ x.split \in Split /\ Sampled(created, labelled, cutoffs, x.account, x.split)
           /\ x.positive => \E e \in labelled :
                 e.account = x.account /\ IntervalFor(e.at, cutoffs) = x.split
           /\ x.positive <=> LabelBecameKnown(labelled, x.account,
                 IF x.split = 1 THEN -1 ELSE cutoffs[x.split - 1], cutoffs[x.split])
  <1>1. PICK p \in (DOMAIN created) \X Split :
            /\ Sampled(created, labelled, cutoffs, p[1], p[2])
            /\ x = [account |-> p[1], split |-> p[2], positive |->
                      LabelBecameKnown(labelled, p[1], IF p[2] = 1 THEN -1 ELSE cutoffs[p[2] - 1],
                                       cutoffs[p[2]])]
    BY DEF Samples
  <1>2. /\ x.split \in Split /\ Sampled(created, labelled, cutoffs, x.account, x.split)
        /\ x.positive <=> LabelBecameKnown(labelled, x.account,
              IF x.split = 1 THEN -1 ELSE cutoffs[x.split - 1], cutoffs[x.split])
    BY <1>1
  <1>3. ASSUME x.positive
        PROVE  \E e \in labelled : e.account = x.account /\ IntervalFor(e.at, cutoffs) = x.split
    <2>1. PICK e \in labelled :
              /\ e.account = x.account /\ e.at <= cutoffs[x.split]
              /\ e.at > (IF x.split = 1 THEN -1 ELSE cutoffs[x.split - 1])
      BY <1>2, <1>3 DEF LabelBecameKnown
    <2> DEFINE i == IntervalFor(e.at, cutoffs)
    <2>2. i \in Split /\ e.at <= cutoffs[i] /\ i <= x.split
      BY <1>2, <2>1, IntervalIsFirst
    <2> HIDE DEF i
    <2>3. e.at \in Nat
      BY DEF Chronological
    <2>4. i >= x.split
      <3> SUFFICES ASSUME i < x.split
                   PROVE  FALSE
        BY <1>2, <2>2 DEF Split
      <3>1. cutoffs[i] <= cutoffs[x.split - 1] /\ x.split # 1 /\ x.split - 1 \in Split
        BY <1>2, <2>2 DEF Split, Chronological
      <3>2. cutoffs[i] \in Nat /\ cutoffs[x.split - 1] \in Nat
        BY <2>2, <3>1 DEF Split, Chronological
      <3> QED
        BY <2>1, <2>2, <2>3, <3>1, <3>2
    <2> QED
      BY <1>2, <2>1, <2>2, <2>4 DEF i, Split
  <1> QED
    BY <1>2, <1>3

(***************************************************************************)
(* evaluation/sampling.py, build_split_manifest: the members of a campaign *)
(* are positive samples of one partition only, for every world.            *)
(***************************************************************************)
THEOREM CampaignsHold ==
    ASSUME NEW created, NEW labelled, NEW cutoffs, Chronological(labelled, cutoffs)
    PROVE  CampaignsDoNotLeak(created, labelled, cutoffs)
  <1> SUFFICES ASSUME ~WorldIsRefused(labelled, cutoffs),
                      NEW x \in Samples(created, labelled, cutoffs),
                      NEW y \in Samples(created, labelled, cutoffs), x.positive, y.positive,
                      GroupOf(labelled, x.account) = GroupOf(labelled, y.account)
               PROVE  x.split = y.split
    BY DEF CampaignsDoNotLeak
  <1>1. PICK e \in labelled : e.account = x.account /\ IntervalFor(e.at, cutoffs) = x.split
    BY PositiveInInterval
  <1>2. PICK f \in labelled : f.account = y.account /\ IntervalFor(f.at, cutoffs) = y.split
    BY PositiveInInterval
  <1>3. e.group \in GroupOf(labelled, x.account) /\ f.group \in GroupOf(labelled, y.account)
    BY <1>1, <1>2 DEF GroupOf
  <1>4. f.group \in GroupOf(labelled, x.account) /\ e.group \in GroupOf(labelled, y.account)
    BY <1>3
  <1>5. e.group = f.group
    BY <1>1, <1>4 DEF GroupOf, WorldIsRefused
  <1>6. /\ x.split \in WindowsOf(labelled, e.group, cutoffs)
        /\ y.split \in WindowsOf(labelled, e.group, cutoffs)
    BY <1>1, <1>2, <1>5 DEF WindowsOf
  <1>7. x.split \in Split /\ y.split \in Split /\ x.split <= y.split /\ y.split <= x.split
    BY <1>3, <1>4, <1>6, PositiveInInterval DEF Sampled
  <1> QED
    BY <1>7 DEF Split

(* evaluation/sampling.py: a sample is positive exactly if its account has    *)
(* labelled abuse at or before the cutoff of its split.                       *)
THEOREM NegativesHold ==
    ASSUME NEW created, NEW labelled, NEW cutoffs, Chronological(labelled, cutoffs)
    PROVE  NegativesAreNotKnownAbusers(created, labelled, cutoffs)
  <1> SUFFICES ASSUME ~WorldIsRefused(labelled, cutoffs),
                      NEW x \in Samples(created, labelled, cutoffs)
               PROVE  x.positive <=> \E e \in labelled :
                                        e.account = x.account /\ e.at <= cutoffs[x.split]
    BY DEF NegativesAreNotKnownAbusers
  <1>1. /\ x.split \in Split /\ Sampled(created, labelled, cutoffs, x.account, x.split)
        /\ x.positive <=> LabelBecameKnown(labelled, x.account,
              IF x.split = 1 THEN -1 ELSE cutoffs[x.split - 1], cutoffs[x.split])
    BY PositiveInInterval
  <1>2. ASSUME NEW e \in labelled, e.account = x.account, e.at <= cutoffs[x.split]
        PROVE  x.positive
    <2>1. x.split <= IntervalFor(e.at, cutoffs)
      <3>1. e.group \in GroupOf(labelled, x.account)
        BY <1>2 DEF GroupOf
      <3>2. IntervalFor(e.at, cutoffs) \in WindowsOf(labelled, e.group, cutoffs)
        BY DEF WindowsOf
      <3> QED
        BY <1>1, <3>1, <3>2 DEF Sampled
    <2>2. e.at > (IF x.split = 1 THEN -1 ELSE cutoffs[x.split - 1])
      <3>1. e.at \in Nat
        BY DEF Chronological
      <3>2. CASE x.split = 1
        BY <3>1, <3>2
      <3>3. CASE x.split # 1
        <4>1. x.split - 1 \in Split /\ x.split - 1 < x.split
          BY <1>1, <3>3 DEF Split
        <4>2. IntervalFor(e.at, cutoffs) \in Split
              /\ (e.at <= cutoffs[x.split - 1] => IntervalFor(e.at, cutoffs) <= x.split - 1)
          BY <4>1, IntervalIsFirst
        <4>3. cutoffs[x.split - 1] \in Nat
          BY <4>1 DEF Split, Chronological
        <4>4. ~(e.at <= cutoffs[x.split - 1])
          BY <1>1, <2>1, <4>1, <4>2 DEF Split
        <4> QED
          BY <3>1, <3>3, <4>3, <4>4
      <3> QED
        BY <3>2, <3>3
    <2> QED
      BY <1>1, <1>2, <2>2 DEF LabelBecameKnown
  <1> QED
    BY <1>1, <1>2 DEF LabelBecameKnown

-----------------------------------------------------------------------------
(* If b has at most the ratio of a and c at most that of b, so has c of a. *)
LEMMA RatiosAreOrdered ==
    ASSUME NEW a \in Nat, NEW b \in Nat, NEW c \in Nat,
           NEW x \in Nat \ {0}, NEW y \in Nat \ {0}, NEW z \in Nat \ {0},
           a * y <= b * x, b * z <= c * y
    PROVE  a * z <= c * x
  <1> DEFINE p == a * z
             q == c * x
  <1>1. (a * y) * z <= (b * x) * z
    <2>1. \A i, j \in Nat, k \in Nat : i <= j => i * k <= j * k
      OBVIOUS
    <2>2. a * y \in Nat /\ b * x \in Nat
      OBVIOUS
    <2> QED
      BY <2>1, <2>2
  <1>2. (b * z) * x <= (c * y) * x
    <2>1. \A i, j \in Nat, k \in Nat : i <= j => i * k <= j * k
      OBVIOUS
    <2>2. b * z \in Nat /\ c * y \in Nat
      OBVIOUS
    <2> QED
      BY <2>1, <2>2
  <1>3. (a * y) * z = y * p /\ (b * x) * z = (b * z) * x /\ (c * y) * x = y * q
    OBVIOUS
  <1>4. p \in Nat /\ q \in Nat
    OBVIOUS
  <1> HIDE DEF p, q
  <1>5. y * p <= y * q
    <2>1. (b * x) * z \in Nat /\ y * p \in Nat /\ y * q \in Nat
      BY <1>4
    <2> QED
      BY <1>1, <1>2, <1>3, <2>1
  <1>6. p <= q
    BY <1>4, <1>5
  <1> QED
    BY <1>6 DEF p, q

(* What select_threshold compares: the order of its keys. *)
Outranks(scored, t, u) ==
    \/ F1Exceeds(scored, t, u)
    \/ /\ ~F1Exceeds(scored, u, t)
       /\ PrecisionExceeds(scored, t, u) \/ (~PrecisionExceeds(scored, u, t) /\ t >= u)

(* The candidates are the scores themselves. *)
Scores(scored) == {scored[i].score : i \in DOMAIN scored}

(* The predictions of a split.  A score is compared with other scores only. *)
Predictions == Seq([score : Int, positive : BOOLEAN])

(* A score is a number. *)
LEMMA ScoresAreNumbers ==
    ASSUME NEW scored \in Predictions, NEW i \in DOMAIN scored
    PROVE  scored[i].score \in Int
  <1> DEFINE Prediction == [score : Int, positive : BOOLEAN]
  <1>1. scored[i] \in Prediction
    <2>1. scored \in Seq(Prediction)
      BY DEF Predictions
    <2> HIDE DEF Prediction
    <2>2. DOMAIN scored = 1 .. Len(scored) /\ scored \in [1 .. Len(scored) -> Prediction]
      BY <2>1
    <2> QED
      BY <2>2
  <1> QED
    BY <1>1

(* At a score something is flagged, and what is flagged can be counted. *)
LEMMA CountsAre ==
    ASSUME NEW scored \in Predictions, NEW t \in Scores(scored)
    PROVE  /\ IsFiniteSet(Flagged(scored, t)) /\ IsFiniteSet(Hits(scored, t))
           /\ IsFiniteSet(PositivesOf(scored))
           /\ Cardinality(Flagged(scored, t)) \in Nat \ {0}
           /\ Cardinality(Hits(scored, t)) \in Nat
           /\ Cardinality(PositivesOf(scored)) \in Nat
           /\ t \in Int
  <1>1. IsFiniteSet(DOMAIN scored)
    <2>1. DOMAIN scored = 1 .. Len(scored) /\ Len(scored) \in Nat
      BY DEF Predictions
    <2> QED
      BY <2>1, FS_Interval
  <1>2. Flagged(scored, t) \subseteq DOMAIN scored
        /\ PositivesOf(scored) \subseteq DOMAIN scored
        /\ Hits(scored, t) \subseteq DOMAIN scored
    BY DEF Flagged, PositivesOf, Hits
  <1>3. IsFiniteSet(Flagged(scored, t)) /\ IsFiniteSet(Hits(scored, t))
        /\ IsFiniteSet(PositivesOf(scored))
    BY <1>1, <1>2, FS_Subset
  <1>4. PICK i \in DOMAIN scored : t = scored[i].score
    BY DEF Scores
  <1>5. scored[i].score \in Int
    BY ScoresAreNumbers
  <1>6. t \in Int /\ i \in Flagged(scored, t)
    <2>1. t \in Int /\ scored[i].score >= t
      BY <1>4, <1>5
    <2> QED
      BY <1>4, <2>1 DEF Flagged
  <1>7. Cardinality(Flagged(scored, t)) # 0
    BY <1>3, <1>6, FS_EmptySet
  <1> QED
    BY <1>3, <1>6, <1>7, FS_CardinalityType

(* Both comparisons are asymmetric and what does not exceed is an order. *)
LEMMA KeysAreOrdered ==
    ASSUME NEW scored \in Predictions,
           NEW t \in Scores(scored), NEW u \in Scores(scored), NEW v \in Scores(scored)
    PROVE  /\ ~(F1Exceeds(scored, t, u) /\ F1Exceeds(scored, u, t))
           /\ ~(PrecisionExceeds(scored, t, u) /\ PrecisionExceeds(scored, u, t))
           /\ ~F1Exceeds(scored, t, u) /\ ~F1Exceeds(scored, u, v) => ~F1Exceeds(scored, t, v)
           /\ ~PrecisionExceeds(scored, t, u) /\ ~PrecisionExceeds(scored, u, v)
                => ~PrecisionExceeds(scored, t, v)
  <1> DEFINE h(w) == Cardinality(Hits(scored, w))
             k(w) == Cardinality(Flagged(scored, w))
             p == Cardinality(PositivesOf(scored))
             s(w) == k(w) + p
  <1>1. \A w \in Scores(scored) : h(w) \in Nat /\ k(w) \in Nat \ {0}
                                   /\ s(w) \in Nat \ {0} /\ p \in Nat
    BY CountsAre
  <1>2. \A w, x : /\ F1Exceeds(scored, w, x) <=> h(w) * s(x) > h(x) * s(w)
                  /\ PrecisionExceeds(scored, w, x) <=> h(w) * k(x) > h(x) * k(w)
    BY DEF F1Exceeds, PrecisionExceeds
  <1> HIDE DEF h, k, s, p
  <1>3. \A w, x \in Scores(scored) : h(w) * s(x) \in Nat /\ h(w) * k(x) \in Nat
    BY <1>1
  <1>4. ~F1Exceeds(scored, t, u) /\ ~F1Exceeds(scored, u, v) => ~F1Exceeds(scored, t, v)
    <2> SUFFICES ASSUME h(t) * s(u) <= h(u) * s(t), h(u) * s(v) <= h(v) * s(u)
                 PROVE  h(t) * s(v) <= h(v) * s(t)
      BY <1>2, <1>3
    <2> QED
      BY <1>1, RatiosAreOrdered
  <1>5. ~PrecisionExceeds(scored, t, u) /\ ~PrecisionExceeds(scored, u, v)
          => ~PrecisionExceeds(scored, t, v)
    <2> SUFFICES ASSUME h(t) * k(u) <= h(u) * k(t), h(u) * k(v) <= h(v) * k(u)
                 PROVE  h(t) * k(v) <= h(v) * k(t)
      BY <1>2, <1>3
    <2> QED
      BY <1>1, RatiosAreOrdered
  <1> QED
    BY <1>2, <1>3, <1>4, <1>5

(* To outrank is a total order of the scores.                               *)
LEMMA ScoresAreOrdered ==
    ASSUME NEW scored \in Predictions
    PROVE  /\ \A t, u \in Scores(scored) : Outranks(scored, t, u) \/ Outranks(scored, u, t)
           /\ \A t, u, v \in Scores(scored) :
                Outranks(scored, t, u) /\ Outranks(scored, u, v) => Outranks(scored, t, v)
           /\ \A t, u \in Scores(scored) :
                Outranks(scored, t, u) /\ Outranks(scored, u, t) => t = u
  <1>1. \A t \in Scores(scored) : t \in Int
    BY CountsAre
  <1>2. \A t, u \in Scores(scored) : Outranks(scored, t, u) \/ Outranks(scored, u, t)
    <2> SUFFICES ASSUME NEW t \in Scores(scored), NEW u \in Scores(scored)
                 PROVE  Outranks(scored, t, u) \/ Outranks(scored, u, t)
      OBVIOUS
    <2>1. t >= u \/ u >= t
      BY <1>1
    <2> QED
      BY <2>1, Zenon DEF Outranks
  <1>3. \A t, u \in Scores(scored) : Outranks(scored, t, u) /\ Outranks(scored, u, t) => t = u
    <2> SUFFICES ASSUME NEW t \in Scores(scored), NEW u \in Scores(scored),
                        Outranks(scored, t, u), Outranks(scored, u, t)
                 PROVE  t = u
      OBVIOUS
    <2>1. t >= u /\ u >= t
      BY KeysAreOrdered, Zenon DEF Outranks
    <2> QED
      BY <1>1, <2>1
  <1>4. ASSUME NEW t \in Scores(scored), NEW u \in Scores(scored), NEW v \in Scores(scored),
               Outranks(scored, t, u), Outranks(scored, u, v)
        PROVE  Outranks(scored, t, v)
    <2> DEFINE F(x, y) == F1Exceeds(scored, x, y)
               P(x, y) == PrecisionExceeds(scored, x, y)
    <2>1. \A x, y \in {t, u, v} : ~(F(x, y) /\ F(y, x)) /\ ~(P(x, y) /\ P(y, x))
      BY KeysAreOrdered
    <2>2. \A x, y, z \in {t, u, v} : /\ ~F(x, y) /\ ~F(y, z) => ~F(x, z)
                                     /\ ~P(x, y) /\ ~P(y, z) => ~P(x, z)
      BY KeysAreOrdered
    <2>3. t >= u /\ u >= v => t >= v
      BY <1>1
    <2>4. \A x, y : Outranks(scored, x, y) <=>
                      F(x, y) \/ (~F(y, x) /\ (P(x, y) \/ (~P(y, x) /\ x >= y)))
      BY DEF Outranks
    <2> HIDE DEF F, P
    <2>5. /\ F(t, u) \/ (~F(u, t) /\ (P(t, u) \/ (~P(u, t) /\ t >= u)))
          /\ F(u, v) \/ (~F(v, u) /\ (P(u, v) \/ (~P(v, u) /\ u >= v)))
      BY <1>4, <2>4
    <2>6. F(t, v) \/ (~F(v, t) /\ (P(t, v) \/ (~P(v, t) /\ t >= v)))
      BY <2>1, <2>2, <2>3, <2>5
    <2> QED
      BY <2>4, <2>6
  <1> QED
    BY <1>2, <1>3, <1>4

(* Some score outranks all: of the first n scored, for every n. *)
LEMMA SomeScoreIsBest ==
    ASSUME NEW scored \in Predictions, DOMAIN scored # {}
    PROVE  \E t \in Scores(scored) : \A u \in Scores(scored) : Outranks(scored, t, u)
  <1> DEFINE N == Len(scored)
             best(n, j) == \A i \in 1 .. n : Outranks(scored, scored[j].score, scored[i].score)
             T == {n \in 0 .. N : n = 0 \/ \E j \in 1 .. n : best(n, j)}
  <1>1. N \in Nat /\ DOMAIN scored = 1 .. N
    BY DEF Predictions
  <1>2. \A i \in 1 .. N : scored[i].score \in Scores(scored)
    BY <1>1 DEF Scores
  <1> HIDE DEF N
  <1>3. 0 \in T
    BY <1>1
  <1>4. ASSUME NEW n \in 1 .. N, n - 1 \in T PROVE n \in T
    <2> DEFINE s(i) == scored[i].score
    <2>1. \A i \in 1 .. n : s(i) \in Scores(scored)
      BY <1>1, <1>2
    <2>2. n \in 1 .. n /\ n \in Nat /\ 1 .. n = (1 .. n - 1) \cup {n}
      BY <1>1
    <2>3. Outranks(scored, s(n), s(n))
      BY <2>1, <2>2, ScoresAreOrdered
    <2>4. CASE n = 1
      <3>1. best(n, n)
        BY <2>3, <2>4
      <3> QED
        BY <2>2, <3>1
    <2>5. CASE n # 1
      <3>1. PICK j \in 1 .. n - 1 : best(n - 1, j)
        BY <1>4, <2>2, <2>5
      <3>2. j \in 1 .. n
        BY <2>2
      <3>3. CASE Outranks(scored, s(j), s(n))
        <4>1. best(n, j)
          BY <2>2, <3>1, <3>3
        <4> QED
          BY <3>2, <4>1
      <3>4. CASE ~Outranks(scored, s(j), s(n))
        <4>1. Outranks(scored, s(n), s(j))
          BY <2>1, <2>2, <3>2, <3>4, ScoresAreOrdered
        <4>2. ASSUME NEW i \in 1 .. n - 1 PROVE Outranks(scored, s(n), s(i))
          <5>1. Outranks(scored, s(j), s(i)) /\ i \in 1 .. n
            BY <2>2, <3>1
          <5> HIDE DEF s
          <5> QED
            BY <2>1, <2>2, <3>2, <4>1, <5>1, ScoresAreOrdered
        <4>3. best(n, n)
          BY <2>2, <2>3, <4>2
        <4> QED
          BY <2>2, <4>3
      <3> QED
        BY <3>3, <3>4
    <2> QED
      BY <2>4, <2>5
  <1>5. N \in T /\ N # 0
    <2> HIDE DEF T
    <2>1. 0 .. N \subseteq T
      BY <1>1, <1>3, <1>4, Induction
    <2> QED
      BY <1>1, <2>1
  <1>6. PICK j \in 1 .. N : best(N, j)
    BY <1>5
  <1>7. \A u \in Scores(scored) : \E i \in 1 .. N : u = scored[i].score
    BY <1>1 DEF Scores
  <1> QED
    BY <1>2, <1>6, <1>7

(* A score that outranks another, and that flags no more abusers and no fewer *)
(* of the others than it, flags the same.                                     *)
LEMMA BestIsEfficient ==
    ASSUME NEW scored \in Predictions, PositivesOf(scored) # {},
           NEW t \in Scores(scored), NEW u \in Scores(scored), Outranks(scored, t, u),
           Hits(scored, t) \subseteq Hits(scored, u),
           Flagged(scored, u) \ PositivesOf(scored)
             \subseteq Flagged(scored, t) \ PositivesOf(scored)
    PROVE  Flagged(scored, u) = Flagged(scored, t)
  <1> DEFINE pos == PositivesOf(scored)
             miss(w) == Flagged(scored, w) \ pos
             h(w) == Cardinality(Hits(scored, w))
             m(w) == Cardinality(miss(w))
             k(w) == Cardinality(Flagged(scored, w))
             p == Cardinality(pos)
  <1>1. \A w \in {t, u} :
           /\ h(w) \in Nat /\ m(w) \in Nat /\ p \in Nat \ {0} /\ w \in Int /\ k(w) = h(w) + m(w)
           /\ IsFiniteSet(Hits(scored, w)) /\ IsFiniteSet(miss(w))
    <2> TAKE w \in {t, u}
    <2>1. IsFiniteSet(Flagged(scored, w)) /\ IsFiniteSet(pos) /\ w \in Int
      BY CountsAre
    <2>2. miss(w) \subseteq Flagged(scored, w) /\ Hits(scored, w) \subseteq Flagged(scored, w)
          /\ Hits(scored, w) \cup miss(w) = Flagged(scored, w)
          /\ Hits(scored, w) \cap miss(w) = {}
      BY DEF Hits
    <2>3. IsFiniteSet(Hits(scored, w)) /\ IsFiniteSet(miss(w))
      BY <2>1, <2>2, FS_Subset
    <2>4. p # 0
      BY <2>1, FS_EmptySet
    <2>5. /\ k(w) = h(w) + m(w) - Cardinality(Hits(scored, w) \cap miss(w))
      BY <2>2, <2>3, FS_Union
    <2>6. Cardinality(Hits(scored, w) \cap miss(w)) = 0
      BY <2>2, FS_EmptySet
    <2>7. h(w) \in Nat /\ m(w) \in Nat /\ p \in Nat
      BY <2>1, <2>3, FS_CardinalityType
    <2> HIDE DEF h, m, k, p
    <2> QED
      BY <2>1, <2>3, <2>4, <2>5, <2>6, <2>7
  <1>2. /\ ~F1Exceeds(scored, u, t) \/ F1Exceeds(scored, t, u)
        /\ F1Exceeds(scored, t, u) <=> h(t) * (k(u) + p) > h(u) * (k(t) + p)
        /\ F1Exceeds(scored, u, t) <=> h(u) * (k(t) + p) > h(t) * (k(u) + p)
        /\ PrecisionExceeds(scored, t, u) <=> h(t) * k(u) > h(u) * k(t)
    BY DEF Outranks, F1Exceeds, PrecisionExceeds
  <1>3. h(t) <= h(u) /\ (h(t) = h(u) => Hits(scored, t) = Hits(scored, u))
    BY <1>1, FS_Subset
  <1>4. m(u) <= m(t) /\ (m(t) = m(u) => miss(t) = miss(u))
    BY <1>1, FS_Subset
  <1>5. Hits(scored, t) = Hits(scored, u) /\ miss(t) = miss(u)
          => Flagged(scored, t) = Flagged(scored, u)
    BY DEF Hits
  <1>6. \A i \in DOMAIN scored : scored[i].score \in Int
    BY ScoresAreNumbers
  <1>7. h(u) * (k(t) + p) <= h(t) * (k(u) + p)
    <2>1. \A w, x \in {t, u} : h(w) * (k(x) + p) \in Nat
      <3> HIDE DEF h, m, k, p
      <3> QED
        BY <1>1
    <2> HIDE DEF h, m, k, p
    <2> QED
      BY <1>2, <2>1
  <1>8. CASE t >= u
    <2>1. Flagged(scored, t) \subseteq Flagged(scored, u)
      BY <1>1, <1>6, <1>8 DEF Flagged
    <2>2. miss(t) = miss(u)
      BY <2>1
    <2>3. h(u) <= h(t)
      <3> HIDE DEF miss
      <3>1. m(t) = m(u)
        BY <2>2
      <3> HIDE DEF h, m, k, p
      <3>2. PICK a \in Nat, b \in Nat, c \in Nat, d \in Nat \ {0} :
               a = h(t) /\ b = h(u) /\ c = m(t) /\ d = p
        BY <1>1
      <3>3. b * (a + c + d) <= a * (b + c + d)
        BY <1>1, <1>7, <3>1, <3>2
      <3>4. b * (a + c + d) = a * b + b * (c + d) /\ a * (b + c + d) = a * b + a * (c + d)
        OBVIOUS
      <3>5. b * (c + d) <= a * (c + d)
        BY <3>3, <3>4
      <3>6. b <= a
        BY <3>5
      <3> QED
        BY <3>2, <3>6
    <2>4. h(t) = h(u)
      <3> HIDE DEF h
      <3> QED
        BY <1>1, <1>3, <2>3
    <2> QED
      BY <1>3, <1>5, <2>2, <2>4
  <1>9. CASE ~(t >= u)
    <2>1. Flagged(scored, u) \subseteq Flagged(scored, t)
      <3>1. t <= u
        BY <1>1, <1>9
      <3> QED
        BY <1>1, <1>6, <3>1 DEF Flagged
    <2>2. Hits(scored, t) = Hits(scored, u)
      BY <2>1 DEF Hits
    <2>3. h(t) = h(u)
      BY <2>2
    <2>4. h(t) # 0
      <3> HIDE DEF h, m, k, p
      <3> SUFFICES ASSUME h(t) = 0
                   PROVE  FALSE
        OBVIOUS
      <3>1. k(t) \in Nat /\ k(u) \in Nat
        BY <1>1
      <3>2. h(t) * k(u) = 0 /\ h(u) * k(t) = 0 /\ h(t) * (k(u) + p) = 0 /\ h(u) * (k(t) + p) = 0
        BY <1>1, <2>3, <3>1
      <3>3. ~F1Exceeds(scored, t, u) /\ ~PrecisionExceeds(scored, t, u)
        BY <1>2, <3>2
      <3>4. t >= u
        BY <3>3, Zenon DEF Outranks
      <3> QED
        BY <1>9, <3>4
    <2>5. m(t) = m(u)
      <3> HIDE DEF h, m, k, p
      <3>2. PICK a \in Nat \ {0}, b \in Nat, c \in Nat, d \in Nat \ {0} :
               a = h(t) /\ b = m(t) /\ c = m(u) /\ d = p
        BY <1>1, <2>4
      <3>3. a * (a + b + d) <= a * (a + c + d)
        BY <1>1, <1>7, <2>3, <3>2
      <3>4. b <= c
        BY <3>3
      <3> QED
        BY <1>4, <3>2, <3>4
    <2> QED
      BY <1>4, <1>5, <2>2, <2>5
  <1> QED
    BY <1>8, <1>9

(* The chosen threshold is one score, which flags something, and no other    *)
(* score flags as many abusers and as few others, unless it flags the same   *)
(* (ThresholdIsEfficient; select_threshold), whatever the predictions are.   *)
(* The configuration requires at least one sample of each class.             *)
THEOREM ThresholdHolds ==
    ASSUME NEW scored \in Predictions,
           NEW minimum \in [positive : Nat \ {0}, negative : Nat \ {0}]
    PROVE  ThresholdIsEfficient(scored, minimum)
  <1> SUFFICES ASSUME IsSupported(scored, minimum)
               PROVE  ThresholdIsEfficient(scored, minimum)
    BY DEF ThresholdIsEfficient
  <1> DEFINE chosen == SelectThreshold(scored, minimum)
  <1>1. chosen = {t \in Scores(scored) : \A u \in Scores(scored) : Outranks(scored, t, u)}
    BY DEF SelectThreshold, Outranks, Scores
  <1>2. PositivesOf(scored) # {}
    <2>1. Cardinality(PositivesOf(scored)) >= minimum.positive /\ minimum.positive \in Nat \ {0}
      BY DEF IsSupported
    <2>2. Cardinality({}) = 0
      BY FS_EmptySet
    <2> QED
      BY <2>1, <2>2
  <1>3. DOMAIN scored # {}
    BY <1>2 DEF PositivesOf
  <1> HIDE DEF chosen
  <1>4. PICK t : t \in chosen
    BY <1>1, <1>3, SomeScoreIsBest
  <1>5. \A u \in chosen : u = t
    BY <1>1, <1>4, ScoresAreOrdered
  <1>6. Cardinality(chosen) = 1
    <2>1. chosen = {t}
      BY <1>4, <1>5
    <2> QED
      BY <2>1, FS_Singleton
  <1>7. Flagged(scored, t) # {}
    BY <1>1, <1>4, CountsAre, FS_EmptySet
  <1>8. ASSUME NEW i \in DOMAIN scored,
               Hits(scored, t) \subseteq Hits(scored, scored[i].score),
               Flagged(scored, scored[i].score) \ PositivesOf(scored)
                 \subseteq Flagged(scored, t) \ PositivesOf(scored)
        PROVE  Flagged(scored, scored[i].score) = Flagged(scored, t)
    <2>1. scored[i].score \in Scores(scored)
      BY DEF Scores
    <2> QED
      BY <1>1, <1>2, <1>4, <1>8, <2>1, BestIsEfficient
  <1> QED
    BY <1>4, <1>5, <1>6, <1>7, <1>8 DEF ThresholdIsEfficient, chosen

-----------------------------------------------------------------------------
(* The comparison of investigation models, for any plan and any reports. *)

(* The comparison counts as the other modules do. *)
LEMMA SameCount == \A S : Comparison!Cardinality(S) = Cardinality(S)
  BY DEF Comparison!Cardinality, Cardinality

(* The plan is of sequences; None is no report and no status; a report has   *)
(* one of four statuses, and one that failed its grounding has FAILED.       *)
ReportsAreFinal ==
    /\ \E S : Cases \in Seq(S) /\ Models \in Seq(S)
    /\ None \notin Reports /\ None \notin {"BUDGET_EXHAUSTED", "FAILED"}
    /\ \A r \in Reports :
         /\ r.status \in Comparison!AnalyticalStatuses \cup {"BUDGET_EXHAUSTED", "FAILED"}
         /\ r.grounding => r.status = "FAILED"

(* An outcome ended in one of five ways; a success is accepted; an accepted   *)
(* case of abuse is missed or found.                                          *)
EndedOnce(o) ==
    /\ o.accepted \/ o.budget \/ o.failed \/ o.provider \/ o.harness
    /\ o.accepted => ~o.budget /\ ~o.failed /\ ~o.provider /\ ~o.harness
    /\ o.budget => ~o.failed /\ ~o.provider /\ ~o.harness
    /\ o.failed => ~o.provider /\ ~o.harness
    /\ o.provider => ~o.harness
    /\ o.success => o.accepted
    /\ o.accepted /\ expected[o.case] \in Comparison!AbusePatterns => (o.missed <=> ~o.success)

(* A record is of its planned run, and failed if its provider or harness did. *)
RecordConsistent(i) ==
    LET o == records[i].outcome
    IN  /\ o.case = Comparison!Planned[i].case /\ o.model = Comparison!Planned[i].model
        /\ records[i].success <=> ~o.provider /\ ~o.harness
        /\ EndedOnce(o)

(* There are at most the planned runs, and a summary only of all of them. *)
RecordsConsistent ==
    /\ \E S : records \in Seq(S)
    /\ Len(records) <= Len(Cases) * Len(Models)
    /\ phase # "setup" => Len(records) < Len(Cases) * Len(Models)
    /\ phase = "save" => report \in Reports
    /\ \A i \in 1 .. Len(records) : RecordConsistent(i)
    /\ summary # None => Len(records) = Len(Cases) * Len(Models)

(* What is summarized, once build_comparison_summary accepts it. *)
Outcomes == {records[i].outcome : i \in DOMAIN records}

(* All runs are recorded, and the summary accepts their outcomes. *)
Complete ==
    /\ RecordsConsistent
    /\ Len(records) = Len(Cases) * Len(Models)
    /\ Comparison!Covers(Outcomes)

(* There are b numbers from 1 to b. *)
LEMMA NumbersToB ==
    ASSUME NEW b \in Nat
    PROVE  IsFiniteSet(1 .. b) /\ Cardinality(1 .. b) = b
  <1>1. IsFiniteSet(1 .. b) /\ Cardinality(1 .. b) = IF 1 > b THEN 0 ELSE b - 1 + 1
    BY FS_Interval
  <1> QED
    BY <1>1

(* A planned run is of a case and of a model. *)
LEMMA RunIsOfThePlan ==
    ASSUME ReportsAreFinal, NEW i \in 1 .. Len(Cases) * Len(Models)
    PROVE  /\ Comparison!Planned[i]
                = [case |-> Comparison!Planned[i].case, model |-> Comparison!Planned[i].model]
           /\ \E a \in DOMAIN Cases : Comparison!Planned[i].case = Cases[a]
           /\ \E b \in DOMAIN Models : Comparison!Planned[i].model = Models[b]
  <1> DEFINE k == Len(Models)
             n == Len(Cases)
  <1>1. n \in Nat /\ k \in Nat /\ DOMAIN Cases = 1 .. n /\ DOMAIN Models = 1 .. k
    BY DEF ReportsAreFinal
  <1>2. Comparison!Planned[i] = [case |-> Cases[((i - 1) \div k) + 1],
                                 model |-> Models[((i - 1) % k) + 1]]
    BY DEF Comparison!Planned
  <1> HIDE DEF k, n
  <1>3. k # 0 /\ i \in 1 .. n * k
    BY <1>1 DEF k, n
  <1>4. ((i - 1) % k) \in 0 .. k - 1 /\ ((i - 1) \div k) \in Int
        /\ i - 1 = k * ((i - 1) \div k) + ((i - 1) % k)
    BY <1>1, <1>3
  <1>5. ASSUME NEW q \in Int, NEW r \in 0 .. k - 1, i - 1 = k * q + r
        PROVE  q >= 0 /\ q < n
    <2>1. i \in Int /\ i >= 1 /\ i <= n * k /\ n * k \in Int
      BY <1>1, <1>3
    <2>2. k * q <= i - 1 /\ k * (q + 1) >= i
      BY <1>1, <1>3, <1>5, <2>1
    <2>3. q >= 0
      BY <1>1, <1>3, <2>1, <2>2
    <2>4. q < n
      BY <1>1, <1>3, <2>1, <2>2
    <2> QED
      BY <2>3, <2>4
  <1>6. ((i - 1) \div k) + 1 \in 1 .. n /\ ((i - 1) % k) + 1 \in 1 .. k
    BY <1>1, <1>3, <1>4, <1>5
  <1> QED
    BY <1>1, <1>2, <1>6

(* The record of the current run is consistent, whichever way it ended. *)
LEMMA ScoreIsConsistent ==
    ASSUME ReportsAreFinal, NEW run, NEW r \in Reports \cup {None},
           NEW provider \in BOOLEAN, NEW harness \in BOOLEAN,
           r # None => ~provider /\ ~harness, r = None => (provider <=> ~harness),
           NEW o, o = Comparison!Score(run, r, provider, harness, expected[run.case])
    PROVE  /\ o.case = run.case /\ o.model = run.model
           /\ r # None <=> ~o.provider /\ ~o.harness
           /\ EndedOnce(o)
  <1> DEFINE abuse == expected[run.case]
  <1>1. /\ o.case = run.case /\ o.model = run.model
        /\ o.provider = provider /\ o.harness = harness
        /\ o.accepted = Comparison!Accepts(r)
        /\ o.budget = ((IF r = None THEN None ELSE r.status) = "BUDGET_EXHAUSTED")
        /\ o.failed = ((IF r = None THEN None ELSE r.status) = "FAILED")
        /\ o.missed = (IF Comparison!Accepts(r) THEN Comparison!MissesAbuse(r, abuse) ELSE None)
        /\ o.success = (Comparison!Accepts(r) /\ (r.pattern = abuse
                                                  \/ Comparison!HandlesAmbiguity(r, abuse)))
    <2>1. \A x : x = Comparison!Score(run, r, provider, harness, abuse) =>
            /\ x.case = run.case /\ x.model = run.model
            /\ x.provider = provider /\ x.harness = harness
            /\ x.accepted = Comparison!Accepts(r)
            /\ x.budget = ((IF r = None THEN None ELSE r.status) = "BUDGET_EXHAUSTED")
            /\ x.failed = ((IF r = None THEN None ELSE r.status) = "FAILED")
            /\ x.missed = (IF Comparison!Accepts(r) THEN Comparison!MissesAbuse(r, abuse) ELSE None)
            /\ x.success = (Comparison!Accepts(r) /\ (r.pattern = abuse
                                                      \/ Comparison!HandlesAmbiguity(r, abuse)))
      BY DEF Comparison!Score
    <2> QED
      BY <2>1
  <1>2. CASE r = None
    <2>1. ~Comparison!Accepts(r)
      BY <1>2 DEF Comparison!Accepts
    <2>2. ~o.budget /\ ~o.failed
      BY <1>1, <1>2 DEF ReportsAreFinal
    <2>3. ~o.accepted /\ ~o.success
      BY <1>1, <2>1
    <2> QED
      BY <1>1, <1>2, <2>2, <2>3 DEF EndedOnce
  <1>3. CASE r # None
    <2>1. r \in Reports /\ ~provider /\ ~harness
      BY <1>3
    <2>2. ~o.provider /\ ~o.harness
      BY <1>1, <2>1
    <2>3. (o.budget <=> r.status = "BUDGET_EXHAUSTED") /\ (o.failed <=> r.status = "FAILED")
      BY <1>1, <1>3
    <2>4. o.accepted <=> ~r.grounding /\ r.status \in Comparison!AnalyticalStatuses
      BY <1>1, <1>3 DEF Comparison!Accepts
    <2>5. o.accepted \/ o.budget \/ o.failed
      BY <2>1, <2>3, <2>4 DEF ReportsAreFinal
    <2>6. /\ o.accepted => ~o.budget /\ ~o.failed
          /\ o.budget => ~o.failed
      BY <2>3, <2>4 DEF Comparison!AnalyticalStatuses
    <2>7. o.success => o.accepted
      BY <1>1
    <2>8. ASSUME o.accepted, abuse \in Comparison!AbusePatterns PROVE o.missed <=> ~o.success
      <3>1. Comparison!Accepts(r)
        BY <1>1, <2>8
      <3>2. o.missed <=> r.pattern # abuse
        BY <1>1, <2>8, <3>1 DEF Comparison!MissesAbuse
      <3>3. ~Comparison!HandlesAmbiguity(r, abuse)
        BY <2>8 DEF Comparison!HandlesAmbiguity, Comparison!AbusePatterns
      <3> QED
        BY <1>1, <3>1, <3>2, <3>3
    <2>9. EndedOnce(o)
      BY <1>1, <2>2, <2>5, <2>6, <2>7, <2>8 DEF EndedOnce
    <2> QED
      BY <1>1, <1>3, <2>2, <2>9
  <1> QED
    BY <1>2, <1>3

(* Once all runs are recorded and cover the plan, no two have one outcome,   *)
(* and each model has run each case.                                         *)
LEMMA PlanIsCovered ==
    ASSUME ReportsAreFinal, Complete
    PROVE  /\ \A i, j \in DOMAIN records : records[i].outcome = records[j].outcome => i = j
           /\ DOMAIN records = 1 .. Len(Cases) * Len(Models)
           /\ \A m \in {Models[b] : b \in DOMAIN Models} :
                Cardinality({o \in Outcomes : o.model = m}) = Len(Cases)
  <1> DEFINE k == Len(Models)
             n == Len(Cases)
             C == {Cases[a] : a \in DOMAIN Cases}
             M == {Models[b] : b \in DOMAIN Models}
             I == 1 .. n * k
             pairs == {Comparison!Planned[i] : i \in I}
             prod == {[case |-> p[1], model |-> p[2]] : p \in C \X M}
  <1>1. n \in Nat /\ k \in Nat /\ n * k \in Nat /\ DOMAIN Cases = 1 .. n /\ DOMAIN Models = 1 .. k
    BY DEF ReportsAreFinal
  <1>2. DOMAIN records = I /\ DOMAIN Comparison!Planned = I
    BY DEF Complete, RecordsConsistent, Comparison!Planned
  <1>3. \A i \in I : /\ records[i].outcome.case = Comparison!Planned[i].case
                     /\ records[i].outcome.model = Comparison!Planned[i].model
    <2>1. Len(records) = n * k
      BY DEF Complete
    <2> QED
      BY <2>1 DEF Complete, RecordsConsistent, RecordConsistent
  <1>4. IsFiniteSet(I) /\ Cardinality(I) = n * k
    BY <1>1, NumbersToB
  <1>5. {[case |-> o.case, model |-> o.model] : o \in Outcomes} = pairs
        /\ Cardinality(pairs) = n * k
    BY <1>2, SameCount DEF Complete, Comparison!Covers
  <1>6. \A i, j \in I : Comparison!Planned[i] = Comparison!Planned[j] => i = j
    <2> HIDE DEF I
    <2> QED
      BY <1>2, <1>4, <1>5, Image
  <1>7. \A i, j \in I : records[i].outcome = records[j].outcome => i = j
    <2> SUFFICES ASSUME NEW i \in I, NEW j \in I, records[i].outcome = records[j].outcome
                 PROVE  i = j
      OBVIOUS
    <2>1. Comparison!Planned[i].case = Comparison!Planned[j].case
          /\ Comparison!Planned[i].model = Comparison!Planned[j].model
      BY <1>3
    <2>2. Comparison!Planned[i] = Comparison!Planned[j]
      BY <2>1, RunIsOfThePlan
    <2> QED
      BY <1>6, <2>2
  <1>8. IsFiniteSet(C) /\ IsFiniteSet(M) /\ Cardinality(C) <= n /\ Cardinality(M) <= k
        /\ Cardinality(C) \in Nat /\ Cardinality(M) \in Nat
    <2>1. IsFiniteSet(1 .. n) /\ Cardinality(1 .. n) = n
          /\ IsFiniteSet(1 .. k) /\ Cardinality(1 .. k) = k
      BY <1>1, NumbersToB
    <2>2. IsFiniteSet(C) /\ Cardinality(C) <= n
      <3> HIDE DEF n
      <3> QED
        BY <1>1, <2>1, Image
    <2>3. IsFiniteSet(M) /\ Cardinality(M) <= k
      <3> HIDE DEF k
      <3> QED
        BY <1>1, <2>1, Image
    <2> QED
      BY <2>2, <2>3, FS_CardinalityType
  <1>9. IsFiniteSet(prod) /\ Cardinality(prod) <= Cardinality(C) * Cardinality(M)
    <2> DEFINE f == [p \in C \X M |-> [case |-> p[1], model |-> p[2]]]
    <2>1. DOMAIN f = C \X M /\ \A p \in C \X M : f[p] = [case |-> p[1], model |-> p[2]]
      OBVIOUS
    <2>2. prod = {f[p] : p \in C \X M}
      <3> HIDE DEF C, M
      <3> QED
        OBVIOUS
    <2>3. IsFiniteSet(C \X M) /\ Cardinality(C \X M) = Cardinality(C) * Cardinality(M)
      <3> HIDE DEF C, M
      <3> QED
        BY <1>8, FS_Product
    <2> HIDE DEF f, C, M, prod
    <2> DEFINE D == C \X M
    <2>4. DOMAIN f = D /\ IsFiniteSet(D) /\ Cardinality(D) = Cardinality(C) * Cardinality(M)
          /\ prod = {f[p] : p \in D}
      BY <2>1, <2>2, <2>3
    <2> HIDE DEF D
    <2>5. IsFiniteSet({f[p] : p \in D}) /\ Cardinality({f[p] : p \in D}) <= Cardinality(D)
      BY <2>4, Image
    <2> QED
      BY <2>4, <2>5
  <1>10. pairs \subseteq prod
    <2> SUFFICES ASSUME NEW i \in I
                 PROVE  Comparison!Planned[i] \in prod
      OBVIOUS
    <2>1. PICK a \in DOMAIN Cases, b \in DOMAIN Models :
             /\ Comparison!Planned[i]
                  = [case |-> Comparison!Planned[i].case, model |-> Comparison!Planned[i].model]
             /\ Comparison!Planned[i].case = Cases[a] /\ Comparison!Planned[i].model = Models[b]
      BY RunIsOfThePlan
    <2>2. Comparison!Planned[i].case \in C /\ Comparison!Planned[i].model \in M
      BY <2>1
    <2>3. <<Comparison!Planned[i].case, Comparison!Planned[i].model>> \in C \X M
      BY <2>2
    <2> HIDE DEF C, M, I
    <2> QED
      BY <2>1, <2>3
  <1>11. k # 0 => pairs = prod /\ Cardinality(C) = n
    <2> HIDE DEF pairs, prod, C, M, n, k
    <2>1. Cardinality(pairs) <= Cardinality(prod)
          /\ (Cardinality(pairs) = Cardinality(prod) => pairs = prod)
      BY <1>9, <1>10, FS_Subset
    <2>2. PICK c \in Nat, d \in Nat, e \in Nat :
             c = Cardinality(C) /\ d = Cardinality(M) /\ e = Cardinality(prod)
      BY <1>8, <1>9, FS_CardinalityType
    <2>3. n * k <= e /\ e <= c * d /\ c <= n /\ d <= k
      BY <1>5, <1>8, <1>9, <2>1, <2>2
    <2>4. c * d <= c * k /\ c * k <= n * k
      BY <1>1, <2>3
    <2>5. c * d \in Nat /\ c * k \in Nat
      BY <1>1
    <2>6. n * k = e /\ n * k = c * k
      BY <1>1, <2>3, <2>4, <2>5
    <2>7. k # 0 => n = c
      BY <1>1, <2>6
    <2> QED
      BY <1>5, <2>1, <2>2, <2>6, <2>7
  <1>12. ASSUME NEW m \in M PROVE Cardinality({o \in Outcomes : o.model = m}) = n
    <2> DEFINE S == {o \in Outcomes : o.model = m}
               g == [o \in S |-> o.case]
    <2>1. k # 0
      BY <1>1
    <2>2. \A o \in S : \E i \in I : o = records[i].outcome /\ Comparison!Planned[i].case = o.case
                                    /\ Comparison!Planned[i].model = m
      BY <1>2, <1>3 DEF Outcomes
    <2>3. \A x, y \in S : g[x] = g[y] => x = y
      <3> SUFFICES ASSUME NEW x \in S, NEW y \in S, x.case = y.case
                   PROVE  x = y
        OBVIOUS
      <3>1. PICK i \in I : x = records[i].outcome /\ Comparison!Planned[i].case = x.case
                           /\ Comparison!Planned[i].model = m
        BY <2>2
      <3>2. PICK j \in I : y = records[j].outcome /\ Comparison!Planned[j].case = y.case
                           /\ Comparison!Planned[j].model = m
        BY <2>2
      <3>3. Comparison!Planned[i] = Comparison!Planned[j]
        BY <3>1, <3>2, RunIsOfThePlan
      <3> QED
        BY <1>6, <3>1, <3>2, <3>3
    <2>4. {g[o] : o \in S} = C
      <3>1. \A o \in S : g[o] \in C
        <4> SUFFICES ASSUME NEW o \in S
                     PROVE  o.case \in C
          OBVIOUS
        <4>1. PICK i \in I : Comparison!Planned[i].case = o.case
          BY <2>2
        <4>2. \E a \in DOMAIN Cases : Comparison!Planned[i].case = Cases[a]
          BY RunIsOfThePlan
        <4> QED
          BY <4>1, <4>2
      <3>2. ASSUME NEW c \in C PROVE \E o \in S : g[o] = c
        <4>1. [case |-> c, model |-> m] \in pairs
          <5>1. <<c, m>> \in C \X M
            OBVIOUS
          <5> HIDE DEF C, M, pairs
          <5>2. [case |-> c, model |-> m] \in prod
            BY <5>1
          <5> QED
            BY <1>11, <2>1, <5>2
        <4>2. PICK o \in Outcomes : [case |-> c, model |-> m] = [case |-> o.case, model |-> o.model]
          BY <1>5, <4>1
        <4>3. o.case = c /\ o.model = m
          BY <4>2
        <4> QED
          BY <4>3
      <3> HIDE DEF g, S, C
      <3> QED
        BY <3>1, <3>2
    <2>5. IsFiniteSet(S)
      <3> DEFINE h == [i \in I |-> records[i].outcome]
      <3>1. DOMAIN h = I /\ Outcomes = {h[i] : i \in I}
        BY <1>2 DEF Outcomes
      <3>2. IsFiniteSet(Outcomes)
        <4> HIDE DEF h, I
        <4> QED
          BY <1>4, <3>1, Image
      <3>3. S \subseteq Outcomes
        OBVIOUS
      <3> QED
        BY <3>2, <3>3, FS_Subset
    <2>6. DOMAIN g = S
      OBVIOUS
    <2>7. Cardinality({g[o] : o \in S}) = Cardinality(S)
      <3> HIDE DEF g, S
      <3> QED
        BY <2>3, <2>5, <2>6, Image
    <2>8. Cardinality(S) = n
      <3>1. Cardinality(C) = n
        BY <1>11, <2>1
      <3> HIDE DEF g, S, C, n
      <3> QED
        BY <2>4, <2>7, <3>1
    <2> QED
      BY <2>8 DEF S
  <1> QED
    BY <1>2, <1>7, <1>12

(* The outcomes of a set are as many as the runs that had them. *)
LEMMA OutcomesAreRuns ==
    ASSUME ReportsAreFinal, Complete, NEW A \in SUBSET DOMAIN records
    PROVE  /\ IsFiniteSet({records[i].outcome : i \in A})
           /\ Cardinality({records[i].outcome : i \in A}) = Cardinality(A)
           /\ IsFiniteSet(A)
  <1> DEFINE h == [i \in A |-> records[i].outcome]
  <1>1. IsFiniteSet(A)
    <2>1. Len(Cases) * Len(Models) \in Nat
      BY DEF ReportsAreFinal
    <2>2. IsFiniteSet(1 .. Len(Cases) * Len(Models))
      BY <2>1, FS_Interval
    <2> QED
      BY <2>2, PlanIsCovered, FS_Subset
  <1>2. DOMAIN h = A /\ {records[i].outcome : i \in A} = {h[i] : i \in A}
    OBVIOUS
  <1>3. \A i, j \in A : h[i] = h[j] => i = j
    BY PlanIsCovered
  <1> HIDE DEF h
  <1>4. /\ IsFiniteSet({h[i] : i \in A})
        /\ Cardinality({h[i] : i \in A}) = Cardinality(A)
    BY <1>1, <1>2, <1>3, Image
  <1> QED
    BY <1>1, <1>2, <1>4

(* The outcomes of a run are one each of five, however many there are. *)
LEMMA OutcomesAreEnded ==
    ASSUME ReportsAreFinal, Complete
    PROVE  /\ IsFiniteSet(Outcomes)
           /\ \A o \in Outcomes : EndedOnce(o)
  <1>1. Outcomes = {records[i].outcome : i \in DOMAIN records}
    BY DEF Outcomes
  <1>2. IsFiniteSet(Outcomes)
    BY <1>1, OutcomesAreRuns
  <1>3. \A i \in DOMAIN records : EndedOnce(records[i].outcome)
    BY PlanIsCovered DEF Complete, RecordsConsistent, RecordConsistent
  <1> QED
    BY <1>1, <1>2, <1>3

(* Two disjoint sets count as much as their union. *)
LEMMA DisjointCounts ==
    ASSUME NEW S, NEW T, IsFiniteSet(S), IsFiniteSet(T), S \cap T = {}
    PROVE  /\ IsFiniteSet(S \cup T)
           /\ Cardinality(S \cup T) = Cardinality(S) + Cardinality(T)
           /\ Cardinality(S) \in Nat /\ Cardinality(T) \in Nat
  <1>1. Cardinality(S \cap T) = 0
    BY FS_EmptySet
  <1>2. Cardinality(S) \in Nat /\ Cardinality(T) \in Nat
    BY FS_CardinalityType
  <1>3. /\ IsFiniteSet(S \cup T)
        /\ Cardinality(S \cup T) = Cardinality(S) + Cardinality(T) - Cardinality(S \cap T)
    BY FS_Union
  <1> QED
    BY <1>1, <1>2, <1>3

(* The five counts of a set of outcomes. *)
LEMMA FiveEnds ==
    ASSUME NEW S, IsFiniteSet(S), \A o \in S : EndedOnce(o)
    PROVE  Cardinality({o \in S : o.accepted}) + Cardinality({o \in S : o.budget})
             + Cardinality({o \in S : o.failed}) + Cardinality({o \in S : o.provider})
             + Cardinality({o \in S : o.harness}) = Cardinality(S)
  <1> DEFINE A == {o \in S : o.accepted}
             B == {o \in S : o.budget}
             F == {o \in S : o.failed}
             P == {o \in S : o.provider}
             H == {o \in S : o.harness}
  <1>1. IsFiniteSet(A) /\ IsFiniteSet(B) /\ IsFiniteSet(F) /\ IsFiniteSet(P) /\ IsFiniteSet(H)
    <2>1. A \subseteq S /\ B \subseteq S /\ F \subseteq S /\ P \subseteq S /\ H \subseteq S
      OBVIOUS
    <2> HIDE DEF A, B, F, P, H
    <2> QED
      BY <2>1, FS_Subset
  <1>2. /\ A \cap B = {} /\ (A \cup B) \cap F = {} /\ (A \cup B \cup F) \cap P = {}
        /\ (A \cup B \cup F \cup P) \cap H = {}
        /\ A \cup B \cup F \cup P \cup H = S
    BY DEF EndedOnce
  <1> HIDE DEF A, B, F, P, H
  <1>3. IsFiniteSet(A \cup B) /\ Cardinality(A \cup B) = Cardinality(A) + Cardinality(B)
    BY <1>1, <1>2, DisjointCounts
  <1>4. IsFiniteSet(A \cup B \cup F)
        /\ Cardinality(A \cup B \cup F) = Cardinality(A \cup B) + Cardinality(F)
    BY <1>1, <1>2, <1>3, DisjointCounts
  <1>5. IsFiniteSet(A \cup B \cup F \cup P)
        /\ Cardinality(A \cup B \cup F \cup P) = Cardinality(A \cup B \cup F) + Cardinality(P)
    BY <1>1, <1>2, <1>4, DisjointCounts
  <1>6. Cardinality(S) = Cardinality(A \cup B \cup F \cup P) + Cardinality(H)
    BY <1>1, <1>2, <1>5, DisjointCounts
  <1>7. Cardinality(A) + Cardinality(B) + Cardinality(F) + Cardinality(P) + Cardinality(H)
          = Cardinality(S)
    BY <1>3, <1>4, <1>5, <1>6
  <1> QED
    BY <1>7 DEF A, B, F, P, H

(* The totals: a run is completed, or its provider or its harness failed. *)
LEMMA TotalsAdd ==
    ASSUME ReportsAreFinal, Complete
    PROVE  Cardinality({i \in DOMAIN records : records[i].success})
             + Cardinality({o \in Outcomes : o.provider})
             + Cardinality({o \in Outcomes : o.harness}) = Len(Cases) * Len(Models)
  <1> DEFINE I == DOMAIN records
             S == {i \in I : records[i].success}
             P == {i \in I : records[i].outcome.provider}
             H == {i \in I : records[i].outcome.harness}
  <1>1. I = 1 .. Len(Cases) * Len(Models) /\ Len(Cases) * Len(Models) \in Nat
    BY PlanIsCovered DEF ReportsAreFinal
  <1>2. \A i \in I : RecordConsistent(i)
    BY PlanIsCovered DEF Complete, RecordsConsistent
  <1>3. S \cap P = {} /\ (S \cup P) \cap H = {} /\ S \cup P \cup H = I
    BY <1>2 DEF RecordConsistent, EndedOnce
  <1>4. {o \in Outcomes : o.provider} = {records[i].outcome : i \in P}
        /\ {o \in Outcomes : o.harness} = {records[i].outcome : i \in H}
    BY DEF Outcomes
  <1>5. S \in SUBSET DOMAIN records /\ P \in SUBSET DOMAIN records /\ H \in SUBSET DOMAIN records
    OBVIOUS
  <1>6. IsFiniteSet(S) /\ IsFiniteSet(P) /\ IsFiniteSet(H)
        /\ Cardinality({records[i].outcome : i \in P}) = Cardinality(P)
        /\ Cardinality({records[i].outcome : i \in H}) = Cardinality(H)
    <2> HIDE DEF S, P, H, I
    <2> QED
      BY <1>5, OutcomesAreRuns
  <1>7. Cardinality(I) = Len(Cases) * Len(Models)
    BY <1>1, NumbersToB
  <1>8. Cardinality(S) + Cardinality(P) + Cardinality(H) = Len(Cases) * Len(Models)
    <2> HIDE DEF S, P, H, I
    <2>1. IsFiniteSet(S \cup P) /\ Cardinality(S \cup P) = Cardinality(S) + Cardinality(P)
      BY <1>3, <1>6, DisjointCounts
    <2>2. Cardinality(S \cup P \cup H) = Cardinality(S \cup P) + Cardinality(H)
      BY <1>3, <1>6, <2>1, DisjointCounts
    <2> QED
      BY <1>3, <1>7, <2>1, <2>2
  <1> QED
    BY <1>4, <1>6, <1>8

(* What Summarize counts of the outcomes of a model. *)
LEMMA SummaryIs ==
    ASSUME NEW S
    PROVE  LET s == Comparison!Summarize(S)
               accepted == {o \in S : o.accepted}
               abuse == {o \in S : expected[o.case] \in Comparison!AbusePatterns}
           IN  /\ s.accepted.numerator = Cardinality(accepted)
               /\ s.budget.numerator = Cardinality({o \in S : o.budget})
               /\ s.failed.numerator = Cardinality({o \in S : o.failed})
               /\ s.provider.numerator = Cardinality({o \in S : o.provider})
               /\ s.harness.numerator = Cardinality({o \in S : o.harness})
               /\ s.success.numerator = Cardinality({o \in S : o.success})
               /\ s.misses.numerator = Cardinality({o \in abuse \cap accepted : o.missed})
               /\ s.misses.denominator = Cardinality(abuse \cap accepted)
               /\ s.abuseFailures.numerator = Cardinality({o \in abuse : ~o.accepted})
               /\ s.abuseFailures.denominator = Cardinality(abuse)
  BY SameCount DEF Comparison!Summarize, Comparison!Rate

(* Of the cases of abuse, each is a failure, a miss or found. *)
LEMMA AbuseEnds ==
    ASSUME ReportsAreFinal, Complete, NEW m
    PROVE  LET S == {o \in Outcomes : o.model = m}
               accepted == {o \in S : o.accepted}
               abuse == {o \in S : expected[o.case] \in Comparison!AbusePatterns}
               found == {i \in DOMAIN records :
                            /\ records[i].outcome.model = m
                            /\ records[i].outcome.success
                            /\ expected[records[i].outcome.case] \in Comparison!AbusePatterns}
           IN  /\ Cardinality(abuse) = Cardinality({o \in abuse : ~o.accepted})
                    + Cardinality({o \in abuse \cap accepted : o.missed}) + Cardinality(found)
               /\ Cardinality(abuse \cap accepted) + Cardinality({o \in abuse : ~o.accepted})
                    = Cardinality(abuse)
               /\ Cardinality({o \in S : o.success}) <= Cardinality(accepted)
  <1> DEFINE S == {o \in Outcomes : o.model = m}
             accepted == {o \in S : o.accepted}
             abuse == {o \in S : expected[o.case] \in Comparison!AbusePatterns}
             found == {i \in DOMAIN records :
                            /\ records[i].outcome.model = m
                            /\ records[i].outcome.success
                            /\ expected[records[i].outcome.case] \in Comparison!AbusePatterns}
             won == {o \in abuse : o.success}
             failures == {o \in abuse : ~o.accepted}
             misses == {o \in abuse \cap accepted : o.missed}
             successes == {o \in S : o.success}
  <1>1. \A o \in S : EndedOnce(o)
    BY OutcomesAreEnded
  <1>2. /\ failures \cap misses = {} /\ (failures \cup misses) \cap won = {}
        /\ failures \cup misses \cup won = abuse
        /\ (abuse \cap accepted) \cap failures = {}
        /\ (abuse \cap accepted) \cup failures = abuse
        /\ successes \subseteq accepted
    BY <1>1 DEF EndedOnce
  <1>3. /\ IsFiniteSet(failures) /\ IsFiniteSet(misses) /\ IsFiniteSet(won)
        /\ IsFiniteSet(abuse \cap accepted) /\ IsFiniteSet(accepted)
    <2>1. /\ failures \subseteq Outcomes /\ misses \subseteq Outcomes /\ won \subseteq Outcomes
          /\ abuse \cap accepted \subseteq Outcomes /\ accepted \subseteq Outcomes
      OBVIOUS
    <2> HIDE DEF failures, misses, won, abuse, accepted
    <2> QED
      BY <2>1, OutcomesAreEnded, FS_Subset
  <1>4. Cardinality(won) = Cardinality(found)
    <2>1. won = {records[i].outcome : i \in found}
      BY DEF Outcomes
    <2>2. found \in SUBSET DOMAIN records
      OBVIOUS
    <2> HIDE DEF won, found
    <2> QED
      BY <2>1, <2>2, OutcomesAreRuns
  <1> HIDE DEF failures, misses, won, abuse, accepted, found, successes
  <1>5. IsFiniteSet(failures \cup misses)
        /\ Cardinality(failures \cup misses) = Cardinality(failures) + Cardinality(misses)
    BY <1>2, <1>3, DisjointCounts
  <1>6. Cardinality(abuse) = Cardinality(failures \cup misses) + Cardinality(won)
    BY <1>2, <1>3, <1>5, DisjointCounts
  <1>7. Cardinality(abuse) = Cardinality(abuse \cap accepted) + Cardinality(failures)
    BY <1>2, <1>3, DisjointCounts
  <1>8. Cardinality(successes) <= Cardinality(accepted)
    BY <1>2, <1>3, FS_Subset
  <1>9. /\ Cardinality(abuse) = Cardinality(failures) + Cardinality(misses) + Cardinality(found)
        /\ Cardinality(abuse \cap accepted) + Cardinality(failures) = Cardinality(abuse)
    BY <1>4, <1>5, <1>6, <1>7
  <1> QED
    BY <1>8, <1>9 DEF failures, misses, won, abuse, accepted, found, successes

(* The inductive invariant of the harness. *)
ComparisonInvariant ==
    RecordsConsistent /\ Comparison!EveryRunCountsOnce /\ Comparison!AbuseIsFoundMissedOrFailed

(* There is a run for every case and model. *)
LEMMA PlannedLength ==
    ASSUME ReportsAreFinal
    PROVE  Len(Comparison!Planned) = Len(Cases) * Len(Models) /\ Len(Cases) * Len(Models) \in Nat
  <1>1. Len(Cases) * Len(Models) \in Nat
    BY DEF ReportsAreFinal
  <1> QED
    BY <1>1 DEF Comparison!Planned

(* The summary counts every run once. *)
LEMMA FinishCounts ==
    ASSUME ReportsAreFinal, RecordsConsistent, Comparison!Finish
    PROVE  ComparisonInvariant'
  <1>1. Len(records) = Len(Cases) * Len(Models)
    <2>1. Len(records) \in Nat
      BY DEF RecordsConsistent
    <2> QED
      BY <2>1, PlannedLength DEF RecordsConsistent, Comparison!Finish, Comparison!Running
  <1>2. Complete
    BY <1>1 DEF Comparison!Finish, Complete, Outcomes
  <1>3. UNCHANGED <<expected, phase, report, records, rendered>>
    BY DEF Comparison!Finish
  <1>4. RecordsConsistent'
    <2>1. \A i : RecordConsistent(i) => RecordConsistent(i)'
      BY <1>3 DEF RecordConsistent, EndedOnce
    <2> QED
      BY <1>1, <1>3, <2>1 DEF RecordsConsistent
  <1>5. /\ summary'.planned = Len(Cases) * Len(Models)
        /\ summary'.completed = Cardinality({i \in DOMAIN records : records[i].success})
        /\ summary'.providerFailures = Cardinality({o \in Outcomes : o.provider})
        /\ summary'.harnessFailures = Cardinality({o \in Outcomes : o.harness})
        /\ summary'.perModel = [m \in {Models[i] : i \in DOMAIN Models} |->
                                  Comparison!Summarize({o \in Outcomes : o.model = m})]
    BY PlannedLength, SameCount DEF Comparison!Finish, Outcomes
  <1>6. Comparison!EveryRunCountsOnce'
    <2>1. summary'.completed + summary'.providerFailures + summary'.harnessFailures
            = summary'.planned
      BY <1>2, <1>5, TotalsAdd
    <2>2. ASSUME NEW m \in DOMAIN summary'.perModel
          PROVE  LET s == summary'.perModel[m]
                 IN  s.accepted.numerator + s.budget.numerator + s.failed.numerator
                       + s.provider.numerator + s.harness.numerator = Len(Cases)
      <3> DEFINE S == {o \in Outcomes : o.model = m}
      <3>1. m \in {Models[i] : i \in DOMAIN Models}
            /\ summary'.perModel[m] = Comparison!Summarize(S)
        BY <1>5, <2>2
      <3>2. Cardinality(S) = Len(Cases)
        BY <1>2, <3>1, PlanIsCovered
      <3>3. IsFiniteSet(S) /\ \A o \in S : EndedOnce(o)
        <4>1. S \subseteq Outcomes
          OBVIOUS
        <4> QED
          BY <1>2, <4>1, OutcomesAreEnded, FS_Subset
      <3> HIDE DEF S
      <3> DEFINE s == Comparison!Summarize(S)
      <3>4. /\ s.accepted.numerator = Cardinality({o \in S : o.accepted})
            /\ s.budget.numerator = Cardinality({o \in S : o.budget})
            /\ s.failed.numerator = Cardinality({o \in S : o.failed})
            /\ s.provider.numerator = Cardinality({o \in S : o.provider})
            /\ s.harness.numerator = Cardinality({o \in S : o.harness})
        BY ONLY SummaryIs
      <3>5. Cardinality({o \in S : o.accepted}) + Cardinality({o \in S : o.budget})
              + Cardinality({o \in S : o.failed}) + Cardinality({o \in S : o.provider})
              + Cardinality({o \in S : o.harness}) = Len(Cases)
        BY ONLY <3>2, <3>3, FiveEnds
      <3> HIDE DEF s
      <3>6. s.accepted.numerator + s.budget.numerator + s.failed.numerator
              + s.provider.numerator + s.harness.numerator = Len(Cases)
        BY ONLY <3>4, <3>5
      <3> QED
        BY ONLY <3>1, <3>6 DEF s
    <2> QED
      BY <2>1, <2>2 DEF Comparison!EveryRunCountsOnce
  <1>7. Comparison!AbuseIsFoundMissedOrFailed'
    <2> SUFFICES ASSUME NEW m \in DOMAIN summary'.perModel
                 PROVE  LET s == summary'.perModel[m]
                            found == {i \in DOMAIN records :
                               /\ records[i].outcome.model = m
                               /\ records[i].outcome.success
                               /\ expected[records[i].outcome.case] \in Comparison!AbusePatterns}
                        IN  /\ s.abuseFailures.denominator = s.abuseFailures.numerator
                                 + s.misses.numerator + Cardinality(found)
                            /\ s.misses.denominator + s.abuseFailures.numerator
                                 = s.abuseFailures.denominator
                            /\ s.success.numerator <= s.accepted.numerator
      BY <1>3, SameCount DEF Comparison!AbuseIsFoundMissedOrFailed
    <2> DEFINE S == {o \in Outcomes : o.model = m}
               s == summary'.perModel[m]
               accepted == {o \in S : o.accepted}
               abuse == {o \in S : expected[o.case] \in Comparison!AbusePatterns}
               failures == {o \in abuse : ~o.accepted}
               misses == {o \in abuse \cap accepted : o.missed}
               successes == {o \in S : o.success}
               found == {i \in DOMAIN records :
                               /\ records[i].outcome.model = m
                               /\ records[i].outcome.success
                               /\ expected[records[i].outcome.case] \in Comparison!AbusePatterns}
    <2>1. s = Comparison!Summarize(S)
      BY <1>5
    <2>2. /\ s.accepted.numerator = Cardinality(accepted)
          /\ s.success.numerator = Cardinality(successes)
          /\ s.misses.numerator = Cardinality(misses)
          /\ s.misses.denominator = Cardinality(abuse \cap accepted)
          /\ s.abuseFailures.numerator = Cardinality(failures)
          /\ s.abuseFailures.denominator = Cardinality(abuse)
      <3> HIDE DEF S
      <3> QED
        BY <2>1, SummaryIs
    <2>3. /\ Cardinality(abuse) = Cardinality(failures) + Cardinality(misses) + Cardinality(found)
          /\ Cardinality(abuse \cap accepted) + Cardinality(failures) = Cardinality(abuse)
          /\ Cardinality(successes) <= Cardinality(accepted)
      BY <1>2, AbuseEnds
    <2>4. /\ s.abuseFailures.denominator
               = s.abuseFailures.numerator + s.misses.numerator + Cardinality(found)
          /\ s.misses.denominator + s.abuseFailures.numerator = s.abuseFailures.denominator
          /\ s.success.numerator <= s.accepted.numerator
      <3> HIDE DEF s, S, accepted, abuse, failures, misses, successes, found
      <3> QED
        BY <2>2, <2>3
    <2> QED
      BY <2>4
  <1> QED
    BY <1>4, <1>6, <1>7 DEF ComparisonInvariant

(* A record of the current run keeps what the records are. *)
LEMMA RecordKeeps ==
    ASSUME ReportsAreFinal, ComparisonInvariant, Comparison!Running, summary = None,
           NEW r \in Reports \cup {None}, NEW provider \in BOOLEAN, NEW harness \in BOOLEAN,
           r # None => ~provider /\ ~harness, r = None => (provider <=> ~harness),
           Comparison!Record(r, provider, harness)
    PROVE  ComparisonInvariant'
  <1> DEFINE n == Len(records) + 1
             new == [success |-> r # None,
                     outcome |-> Comparison!Score(Comparison!Current, r, provider, harness,
                                                  expected[Comparison!Current.case])]
  <1>1. PICK S : records \in Seq(S)
    BY DEF ComparisonInvariant, RecordsConsistent
  <1>2. records' = Append(records, new) /\ phase' = "setup" /\ UNCHANGED <<expected, summary>>
    BY DEF Comparison!Record
  <1>3. n \in 1 .. Len(Cases) * Len(Models) /\ Len(records) \in Nat
    BY <1>1, PlannedLength DEF Comparison!Running
  <1>4. /\ Len(records') = n /\ records'[n] = new
        /\ \A i \in 1 .. Len(records) : records'[i] = records[i]
        /\ records' \in Seq(S \cup {new})
    <2> DEFINE T == S \cup {new}
    <2>1. records \in Seq(T) /\ new \in T
      BY <1>1
    <2> HIDE DEF new, T
    <2>2. Append(records, new) \in Seq(T)
      BY <2>1
    <2> QED
      BY <1>2, <2>1, <2>2 DEF T
  <1>5. ASSUME NEW i, i = n PROVE RecordConsistent(i)'
    <2> DEFINE run == Comparison!Planned[i]
               o == Comparison!Score(run, r, provider, harness, expected[run.case])
    <2>1. records'[i].outcome = o /\ (records'[i].success <=> r # None)
      <3>1. new.outcome = o /\ (new.success <=> r # None)
        BY <1>5 DEF Comparison!Current
      <3> HIDE DEF n, new, run, o
      <3> QED
        BY <1>4, <1>5, <3>1
    <2>2. o.case = run.case /\ o.model = run.model
          /\ (r # None <=> ~o.provider /\ ~o.harness) /\ EndedOnce(o)
      <3>1. o = Comparison!Score(run, r, provider, harness, expected[run.case])
        OBVIOUS
      <3> HIDE DEF n, new, run, o
      <3> QED
        BY <3>1, ScoreIsConsistent, SMTT(30)
    <2>3. Comparison!Planned' = Comparison!Planned
      BY DEF Comparison!Planned
    <2> HIDE DEF n, new, o
    <2> QED
      BY <1>2, <2>1, <2>2, <2>3 DEF RecordConsistent, EndedOnce
  <1>6. \A i \in 1 .. Len(records) : RecordConsistent(i)'
    <2> SUFFICES ASSUME NEW i \in 1 .. Len(records)
                 PROVE  RecordConsistent(i)'
      OBVIOUS
    <2>1. RecordConsistent(i) /\ records'[i] = records[i]
      BY <1>4 DEF ComparisonInvariant, RecordsConsistent
    <2> HIDE DEF n, new
    <2> QED
      BY <1>2, <2>1 DEF RecordConsistent, EndedOnce
  <1>7. RecordsConsistent'
    <2>1. 1 .. n = (1 .. Len(records)) \cup {n}
      BY <1>3
    <2> HIDE DEF n, new
    <2>2. \A i \in 1 .. n : RecordConsistent(i)'
      <3> SUFFICES ASSUME NEW i \in 1 .. n
                   PROVE  RecordConsistent(i)'
        OBVIOUS
      <3>1. CASE i = n
        BY <1>5, <3>1
      <3>2. CASE i \in 1 .. Len(records)
        BY <1>6, <3>2
      <3> QED
        BY <2>1, <3>1, <3>2
    <2> QED
      BY <1>2, <1>3, <1>4, <2>2 DEF RecordsConsistent
  <1>8. Comparison!EveryRunCountsOnce' /\ Comparison!AbuseIsFoundMissedOrFailed'
    BY <1>2 DEF Comparison!EveryRunCountsOnce, Comparison!AbuseIsFoundMissedOrFailed
  <1> QED
    BY <1>7, <1>8 DEF ComparisonInvariant

(* Every step keeps the invariant. *)
LEMMA ComparisonSteps ==
    ASSUME ReportsAreFinal, ComparisonInvariant, [Comparison!Next]_Comparison!vars
    PROVE  ComparisonInvariant'
  <1>1. ASSUME UNCHANGED <<expected, records, summary>>,
               phase' # "setup" => Len(records) < Len(Cases) * Len(Models),
               phase' = "save" => report' \in Reports
        PROVE  ComparisonInvariant'
    <2>1. \A i : RecordConsistent(i) => RecordConsistent(i)'
      BY <1>1 DEF RecordConsistent, EndedOnce
    <2>2. RecordsConsistent'
      BY <1>1, <2>1 DEF ComparisonInvariant, RecordsConsistent
    <2>3. Comparison!EveryRunCountsOnce' /\ Comparison!AbuseIsFoundMissedOrFailed'
      BY <1>1 DEF ComparisonInvariant, Comparison!EveryRunCountsOnce,
                  Comparison!AbuseIsFoundMissedOrFailed
    <2> QED
      BY <2>2, <2>3 DEF ComparisonInvariant
  <1>2. /\ phase # "setup" => Comparison!Running
        /\ Comparison!Running => summary = None
    <2>1. Len(records) \in Nat
      BY DEF ComparisonInvariant, RecordsConsistent
    <2> QED
      BY <2>1, PlannedLength DEF ComparisonInvariant, RecordsConsistent, Comparison!Running
  <1>3. CASE Comparison!SetUp
    BY <1>1, <1>3, PlannedLength DEF Comparison!SetUp, Comparison!Running
  <1>4. CASE Comparison!SetUpFails
    BY <1>2, <1>4, RecordKeeps DEF Comparison!SetUpFails
  <1>5. CASE Comparison!Execute
    <2>1. Len(records) < Len(Cases) * Len(Models)
      BY <1>5 DEF ComparisonInvariant, RecordsConsistent, Comparison!Execute
    <2> QED
      BY <1>1, <1>5, <2>1 DEF Comparison!Execute
  <1>6. ASSUME NEW provider \in BOOLEAN, Comparison!ExecuteFails(provider)
        PROVE  ComparisonInvariant'
    BY <1>2, <1>6, RecordKeeps DEF Comparison!ExecuteFails
  <1>7. CASE Comparison!Save
    <2>1. report \in Reports /\ report # None
      BY <1>7 DEF ComparisonInvariant, RecordsConsistent, Comparison!Save, ReportsAreFinal
    <2> QED
      BY <1>2, <1>7, <2>1, RecordKeeps DEF Comparison!Save
  <1>8. CASE Comparison!SaveFails
    BY <1>2, <1>8, RecordKeeps DEF Comparison!SaveFails
  <1>9. CASE Comparison!Finish
    BY <1>9, FinishCounts DEF ComparisonInvariant
  <1>10. CASE Comparison!Render \/ UNCHANGED Comparison!vars
    BY <1>1, <1>10 DEF Comparison!Render, Comparison!vars, ComparisonInvariant, RecordsConsistent
  <1>11. CASE Comparison!SetUpAborts
    BY <1>1, <1>11, PlannedLength DEF Comparison!SetUpAborts, Comparison!Running
  <1> QED
    BY <1>3, <1>4, <1>5, <1>6, <1>7, <1>8, <1>9, <1>10, <1>11 DEF Comparison!Next

(* Nothing is recorded at first. *)
LEMMA ComparisonInitial ==
    ASSUME Comparison!Init
    PROVE  ComparisonInvariant
  <1>1. Len(records) = 0 /\ \A S : records \in Seq(S)
    BY DEF Comparison!Init
  <1> QED
    BY <1>1 DEF Comparison!Init, ComparisonInvariant, RecordsConsistent,
                Comparison!EveryRunCountsOnce, Comparison!AbuseIsFoundMissedOrFailed

(* Both parts of ComparisonIsComplete, for any plan and any reports: every   *)
(* planned run is counted once, and each case of abuse is a failure, a miss  *)
(* or found (comparison.py and its harness).                                 *)
THEOREM CountsHold ==
    ASSUME ReportsAreFinal
    PROVE  Comparison!Spec => [](Comparison!EveryRunCountsOnce
                                 /\ Comparison!AbuseIsFoundMissedOrFailed)
  <1>1. Comparison!Init => ComparisonInvariant
    BY ComparisonInitial
  <1>2. ComparisonInvariant /\ [Comparison!Next]_Comparison!vars => ComparisonInvariant'
    BY ComparisonSteps
  <1>3. ComparisonInvariant => Comparison!EveryRunCountsOnce
                               /\ Comparison!AbuseIsFoundMissedOrFailed
    BY DEF ComparisonInvariant
  <1> QED
    BY <1>1, <1>2, <1>3, PTL DEF Comparison!Spec

-----------------------------------------------------------------------------
(* Identity resolution. *)

(* Candidates are roots of the locality that have an anchor of the form. *)
LEMMA CandidatesAre ==
    ASSUME NEW forms, NEW c \in Seq(Nat), NEW f \in Form
    PROVE  /\ Candidates(forms, c, f) \subseteq Roots(c)
           /\ \A j \in Candidates(forms, c, f) :
                 Bucket[forms[j]] = Bucket[f] /\ Anchors[f] \cap Anchors[forms[j]] # {}
  <1> DEFINE roots(a) == AnchorRoots(forms, c, Bucket[f], a)
             used == {a \in Anchors[f] : roots(a) # {}}
             least(a) == \A b \in used : \/ Cardinality(roots(a)) < Cardinality(roots(b))
                                         \/ Cardinality(roots(a)) = Cardinality(roots(b)) /\ a <= b
             best == CHOOSE a \in used : least(a)
             sizes == {Cardinality(roots(a)) : a \in used}
  <1>1. CASE used = {}
    BY <1>1 DEF Candidates
  <1>2. CASE used # {}
    <2>1. \A a \in used : Cardinality(roots(a)) \in Nat
      <3>1. \A a : roots(a) \subseteq 1 .. Len(c)
        BY DEF AnchorRoots, Roots
      <3>2. \A a : IsFiniteSet(roots(a))
        <4>1. IsFiniteSet(1 .. Len(c))
          BY FS_Interval
        <4> HIDE DEF roots
        <4> QED
          BY <3>1, <4>1, FS_Subset
      <3> QED
        BY <3>2, FS_CardinalityType
    <2>2. used \subseteq Nat
      BY ResolutionAssumption
    <2>3. \E a \in used : least(a)
      <3> HIDE DEF roots, used
      <3>1. sizes \in SUBSET Nat /\ sizes # {}
        BY <1>2, <2>1
      <3>2. PICK m \in sizes : \A k \in sizes : m <= k
        <4> HIDE DEF sizes
        <4> QED
          BY <3>1, LeastNatural
      <3> DEFINE smallest == {a \in used : Cardinality(roots(a)) = m}
      <3>3. smallest \in SUBSET Nat /\ smallest # {}
        BY <2>2, <3>2
      <3>4. PICK a \in smallest : \A b \in smallest : a <= b
        <4> HIDE DEF smallest
        <4> QED
          BY <3>3, LeastNatural
      <3>5. least(a)
        <4> SUFFICES ASSUME NEW b \in used
                     PROVE  \/ Cardinality(roots(a)) < Cardinality(roots(b))
                            \/ Cardinality(roots(a)) = Cardinality(roots(b)) /\ a <= b
          OBVIOUS
        <4>1. Cardinality(roots(a)) = m /\ Cardinality(roots(b)) \in sizes
          OBVIOUS
        <4>2. m <= Cardinality(roots(b))
          BY <3>2, <4>1
        <4>3. CASE Cardinality(roots(b)) = m
          BY <3>4, <4>1, <4>3
        <4> QED
          BY <2>1, <3>1, <4>1, <4>2, <4>3
      <3> QED
        BY <3>5
    <2>4. best \in used
      <3> HIDE DEF least, used
      <3> QED
        BY <2>3
    <2>5. Candidates(forms, c, f) \subseteq roots(best)
      BY <1>2 DEF Candidates
    <2> HIDE DEF best
    <2> QED
      BY <2>4, <2>5 DEF AnchorRoots
  <1> QED
    BY <1>1, <1>2

(* What is appended to the canonical entities of the addresses so far. *)
NextCanonical(forms, c) == ResolveNext(forms, c)[Len(c) + 1]

(* The next address is resolved to the exact root of its form, if there is one, *)
(* or to a root that it is similar to, or to itself.                            *)
LEMMA NextIsResolved ==
    ASSUME NEW forms, NEW c \in Seq(Nat), NEW i, i = Len(c) + 1
    PROVE  /\ ResolveNext(forms, c) = Append(c, NextCanonical(forms, c))
           /\ \/ /\ NextCanonical(forms, c) \in Roots(c)
                 /\ forms[NextCanonical(forms, c)] = forms[i]
              \/ /\ \A j \in Roots(c) : forms[j] # forms[i]
                 /\ NextCanonical(forms, c)
                      \in Matches(forms, Candidates(forms, c, forms[i]), forms[i])
              \/ /\ \A j \in Roots(c) : forms[j] # forms[i]
                 /\ Matches(forms, Candidates(forms, c, forms[i]), forms[i]) = {}
                 /\ NextCanonical(forms, c) = i
  <1> DEFINE exact == {j \in Roots(c) : forms[j] = forms[i]}
             fuzzy == Matches(forms, Candidates(forms, c, forms[i]), forms[i])
             v == IF exact # {} THEN CHOOSE j \in exact : TRUE
                  ELSE IF fuzzy # {} THEN CHOOSE j \in fuzzy : TRUE ELSE i
  <1>1. ResolveNext(forms, c) = Append(c, v)
    BY DEF ResolveNext
  <1>2. \/ exact # {} /\ v \in exact
        \/ exact = {} /\ fuzzy # {} /\ v \in fuzzy
        \/ exact = {} /\ fuzzy = {} /\ v = i
    <2> HIDE DEF exact, fuzzy
    <2> QED
      OBVIOUS
  <1>3. NextCanonical(forms, c) = v
    <2> HIDE DEF v
    <2> QED
      BY <1>1 DEF NextCanonical
  <1> HIDE DEF v
  <1> QED
    BY <1>1, <1>2, <1>3

(* The canonical entities of ever longer prefixes. *)
LEMMA ResolvedExists ==
    ASSUME NEW forms, Len(forms) \in Nat
    PROVE  \E r : /\ r[0] = <<>>
                  /\ \A n \in 1 .. Len(forms) : r[n] = ResolveNext(forms, r[n - 1])
                  /\ ResolveAddresses(forms) = r[Len(forms)]
  <1> DEFINE N == Len(forms)
             S == Seq(Nat)
             G == [n \in 1 .. N |-> [c \in S |-> ResolveNext(forms, c)]]
             Is(r) == r = [n \in 0 .. N |-> IF n = 0 THEN <<>> ELSE ResolveNext(forms, r[n - 1])]
  <1>1. \A c \in S : ResolveNext(forms, c) \in S
    <2> SUFFICES ASSUME NEW c \in S PROVE ResolveNext(forms, c) \in S
      OBVIOUS
    <2> DEFINE i == Len(c) + 1
    <2>1. Roots(c) \subseteq Nat
      BY DEF Roots
    <2>2. Matches(forms, Candidates(forms, c, forms[i]), forms[i]) \subseteq Roots(c)
      BY DEF Matches, Candidates, AnchorRoots
    <2>3. NextCanonical(forms, c) \in Nat
      BY <2>1, <2>2, NextIsResolved
    <2> QED
      BY <2>3, NextIsResolved
  <1>2. PICK f \in [0 .. N -> S] : Follows(f, N, <<>>, G)
    <2>1. G \in [1 .. N -> [S -> S]] /\ <<>> \in S
      BY <1>1
    <2> HIDE DEF N, S, G
    <2> QED
      BY <2>1, Recursion DEF N
  <1>3. Is(f)
    <2>1. ASSUME NEW n \in 0 .. N
          PROVE  f[n] = IF n = 0 THEN <<>> ELSE ResolveNext(forms, f[n - 1])
      <3>1. CASE n = 0
        BY <1>2, <3>1 DEF Follows
      <3>2. CASE n # 0
        <4>1. n \in 1 .. N /\ n - 1 \in 0 .. N
          BY <3>2
        <4>2. f[n - 1] \in S
          BY <1>2, <4>1
        <4> QED
          BY <1>2, <3>2, <4>1, <4>2 DEF Follows
      <3> QED
        BY <3>1, <3>2
    <2> QED
      BY <1>2, <2>1
  <1> DEFINE r == CHOOSE r : Is(r)
  <1>4. Is(r)
    <2> HIDE DEF Is
    <2> QED
      BY <1>3
  <1>5. ResolveAddresses(forms) = r[N]
    BY DEF ResolveAddresses
  <1>6. r[0] = <<>> /\ \A n \in 1 .. N : r[n] = ResolveNext(forms, r[n - 1])
    <2> HIDE DEF r
    <2> QED
      BY <1>4
  <1> QED
    BY <1>5, <1>6

(* Ratios and the threshold are compared as numbers. *)
LEMMA RatiosAre == \A f, g \in Form : Ratio[f][g] \in Int /\ Threshold \in Int
  <1> SUFFICES ASSUME NEW f \in Form, NEW g \in Form
               PROVE  Ratio[f][g] \in Int /\ Threshold \in Int
    OBVIOUS
  <1> DEFINE R == 0 .. 1000
  <1>1. Ratio \in [Form -> [Form -> R]]
    BY ResolutionAssumption, Zenon
  <1>2. Threshold \in 1 .. 1000
    BY ResolutionAssumption, Zenon
  <1>3. Ratio[f][g] \in R
    <2> HIDE DEF R
    <2>1. Ratio[f] \in [Form -> R]
      BY <1>1
    <2> QED
      BY <2>1
  <1>4. R \subseteq Int /\ 1 .. 1000 \subseteq Int
    OBVIOUS
  <1> HIDE DEF R
  <1> QED
    BY <1>2, <1>3, <1>4, ZenonT(40)

(* Different addresses of a locality are all below the threshold. *)
Dissimilar(forms) ==
    \A i, j \in DOMAIN forms :
        \/ forms[i] = forms[j]
        \/ Bucket[forms[i]] # Bucket[forms[j]]
        \/ Ratio[forms[i]][forms[j]] < Threshold

(* The addresses so far are resolved to roots, one for each form; an address *)
(* is similar to its root, or is the same; without similarity it is the same *)
(* and the first of its form.                                                *)
IsResolved(forms, c) ==
    /\ c \in Seq(Nat)
    /\ \A i \in 1 .. Len(c) : c[i] \in 1 .. i /\ c[c[i]] = c[i]
    /\ \A i, j \in Roots(c) : forms[i] = forms[j] => i = j
    /\ \A i \in 1 .. Len(c) :
         \/ forms[i] = forms[c[i]]
         \/ /\ Bucket[forms[i]] = Bucket[forms[c[i]]]
            /\ Ratio[forms[i]][forms[c[i]]] >= Threshold
            /\ Anchors[forms[i]] \cap Anchors[forms[c[i]]] # {}
    /\ Dissimilar(forms) =>
         \A i \in 1 .. Len(c) :
            forms[c[i]] = forms[i] /\ \A k \in 1 .. c[i] - 1 : forms[k] # forms[i]

(* One more address is resolved like the others. *)
LEMMA NextKeepsResolved ==
    ASSUME NEW forms \in Seq(Form), NEW c, IsResolved(forms, c), Len(c) < Len(forms)
    PROVE  /\ IsResolved(forms, ResolveNext(forms, c))
           /\ Len(ResolveNext(forms, c)) = Len(c) + 1
  <1> DEFINE i == Len(c) + 1
             fuzzy == Matches(forms, Candidates(forms, c, forms[i]), forms[i])
  <1> SUFFICES ASSUME NEW v, v = NextCanonical(forms, c),
                      NEW d, d = ResolveNext(forms, c)
               PROVE  IsResolved(forms, d) /\ Len(d) = i
    OBVIOUS
  <1>1. c \in Seq(Nat) /\ i \in 1 .. Len(forms) /\ forms[i] \in Form /\ i \in Nat
    BY DEF IsResolved
  <1>2. d = Append(c, v)
    BY <1>1, NextIsResolved
  <1>3. /\ fuzzy \subseteq Roots(c)
        /\ \A j \in fuzzy : /\ Bucket[forms[j]] = Bucket[forms[i]]
                             /\ Anchors[forms[i]] \cap Anchors[forms[j]] # {}
                             /\ Ratio[forms[i]][forms[j]] >= Threshold
    BY <1>1, CandidatesAre DEF Matches
  <1>4. v \in Roots(c) \cup {i}
    BY <1>1, <1>3, NextIsResolved
  <1>5. Roots(c) = {j \in 1 .. Len(c) : c[j] = j}
    BY <1>1 DEF Roots
  <1>6. v \in 1 .. i /\ (v # i => c[v] = v)
    BY <1>1, <1>4, <1>5
  <1>7. /\ d \in Seq(Nat) /\ Len(d) = i /\ d[i] = v
        /\ \A k \in 1 .. Len(c) : d[k] = c[k]
    BY <1>1, <1>2, <1>6
  <1>8. \A k \in 1 .. i : k = i \/ k \in 1 .. Len(c)
    BY <1>1
  <1>9. \A k \in 1 .. i : d[k] \in 1 .. k /\ d[d[k]] = d[k]
    <2> SUFFICES ASSUME NEW k \in 1 .. i PROVE d[k] \in 1 .. k /\ d[d[k]] = d[k]
      OBVIOUS
    <2>1. CASE k = i
      BY <1>1, <1>6, <1>7, <1>8, <2>1
    <2>2. CASE k \in 1 .. Len(c)
      <3>1. c[k] \in 1 .. k /\ c[c[k]] = c[k]
        BY <2>2 DEF IsResolved
      <3>2. c[k] \in 1 .. Len(c)
        BY <1>1, <2>2, <3>1
      <3> QED
        BY <1>7, <2>2, <3>1, <3>2
    <2> QED
      BY <1>8, <2>1, <2>2
  <1>10. Roots(d) = Roots(c) \cup (IF v = i THEN {i} ELSE {})
    <2>1. DOMAIN d = 1 .. i
      BY <1>7
    <2> QED
      BY <1>1, <1>5, <1>7, <1>8, <2>1 DEF Roots
  <1>11. v = i => \A j \in Roots(c) : forms[j] # forms[i]
    <2>1. i \notin Roots(c)
      BY <1>1, <1>5
    <2> QED
      BY <1>1, <1>3, <2>1, NextIsResolved, ZenonT(40)
  <1>12. \A j, k \in Roots(d) : forms[j] = forms[k] => j = k
    BY <1>10, <1>11 DEF IsResolved
  <1>13. \/ forms[i] = forms[v]
         \/ /\ Bucket[forms[i]] = Bucket[forms[v]]
            /\ Ratio[forms[i]][forms[v]] >= Threshold
            /\ Anchors[forms[i]] \cap Anchors[forms[v]] # {}
    BY <1>1, <1>3, NextIsResolved
  <1>14. ASSUME Dissimilar(forms)
         PROVE  forms[v] = forms[i] /\ \A k \in 1 .. v - 1 : forms[k] # forms[i]
    <2>1. v \in DOMAIN forms /\ i \in DOMAIN forms
      BY <1>1, <1>6
    <2>2. forms[i] \in Form /\ forms[v] \in Form
      BY <2>1
    <2>3. Ratio[forms[i]][forms[v]] \in Int /\ Threshold \in Int
      BY <2>2, RatiosAre
    <2>4. forms[v] = forms[i]
      BY <1>13, <1>14, <2>1, <2>3 DEF Dissimilar
    <2>5. ASSUME NEW k \in 1 .. v - 1, forms[k] = forms[i] PROVE FALSE
      <3>1. k \in 1 .. Len(c)
        BY <1>1, <1>6, <2>5
      <3>2. /\ c[k] \in 1 .. k /\ c[c[k]] = c[k] /\ forms[c[k]] = forms[k]
        BY <1>14, <3>1 DEF IsResolved
      <3>3. c[k] \in Roots(c)
        BY <1>1, <1>5, <3>1, <3>2
      <3>4. CASE v = i
        BY <1>11, <2>5, <3>2, <3>3, <3>4
      <3>5. CASE v # i
        <4>1. v \in Roots(c)
          BY <1>4, <3>5
        <4>2. c[k] = v
          BY <2>4, <2>5, <3>2, <3>3, <4>1 DEF IsResolved
        <4> QED
          BY <1>6, <2>5, <3>2, <4>2
      <3> QED
        BY <3>4, <3>5
    <2> QED
      BY <2>4, <2>5
  <1>15. ASSUME NEW k \in 1 .. i
         PROVE  \/ forms[k] = forms[d[k]]
                \/ /\ Bucket[forms[k]] = Bucket[forms[d[k]]]
                   /\ Ratio[forms[k]][forms[d[k]]] >= Threshold
                   /\ Anchors[forms[k]] \cap Anchors[forms[d[k]]] # {}
    <2>1. CASE k = i
      BY <1>7, <1>13, <2>1
    <2>2. CASE k \in 1 .. Len(c)
      BY <1>7, <2>2 DEF IsResolved
    <2> QED
      BY <1>8, <2>1, <2>2
  <1>16. ASSUME Dissimilar(forms), NEW k \in 1 .. i
         PROVE  forms[d[k]] = forms[k] /\ \A j \in 1 .. d[k] - 1 : forms[j] # forms[k]
    <2>1. CASE k = i
      BY <1>7, <1>14, <1>16, <2>1
    <2>2. CASE k \in 1 .. Len(c)
      BY <1>7, <1>16, <2>2 DEF IsResolved
    <2> QED
      BY <1>8, <2>1, <2>2
  <1> QED
    BY <1>7, <1>9, <1>12, <1>15, <1>16 DEF IsResolved

(* All addresses are resolved. *)
LEMMA AllAreResolved ==
    ASSUME NEW forms \in Seq(Form)
    PROVE  IsResolved(forms, ResolveAddresses(forms)) /\ Len(ResolveAddresses(forms)) = Len(forms)
  <1> DEFINE N == Len(forms)
  <1>1. PICK r : /\ r[0] = <<>>
                 /\ \A n \in 1 .. N : r[n] = ResolveNext(forms, r[n - 1])
                 /\ ResolveAddresses(forms) = r[N]
    BY ResolvedExists
  <1> DEFINE T == {n \in 0 .. N : IsResolved(forms, r[n]) /\ Len(r[n]) = n}
  <1>2. 0 \in T
    <2>1. <<>> \in Seq(Nat) /\ Len(<<>>) = 0 /\ DOMAIN <<>> = {}
      OBVIOUS
    <2>2. IsResolved(forms, <<>>)
      BY <2>1 DEF IsResolved, Roots
    <2> QED
      BY <1>1, <2>1, <2>2
  <1>3. ASSUME NEW n \in 1 .. N, n - 1 \in T PROVE n \in T
    <2>1. IsResolved(forms, r[n - 1]) /\ Len(r[n - 1]) = n - 1 /\ n - 1 < Len(forms)
      BY <1>3
    <2>2. IsResolved(forms, r[n]) /\ Len(r[n]) = (n - 1) + 1
      BY <1>1, <2>1, NextKeepsResolved
    <2> QED
      BY <2>2
  <1>4. N \in Nat /\ N \in 0 .. N
    OBVIOUS
  <1>5. 0 .. N \subseteq T
    <2> HIDE DEF N, T
    <2> QED
      BY <1>2, <1>3, <1>4, Induction
  <1> QED
    BY <1>1, <1>4, <1>5

(* resolution/policy.py: whatever addresses there are and in whatever order,  *)
(* an address is resolved to one that it is itself similar to, no chain of    *)
(* matches beyond.                                                            *)
THEOREM MergesHold == ASSUME NEW forms \in Seq(Form) PROVE MergesAreJustified(forms)
  <1>1. DOMAIN forms = 1 .. Len(forms)
    OBVIOUS
  <1> QED
    BY <1>1, AllAreResolved DEF MergesAreJustified, IsResolved

(* Every class has one representative, its first, and no form has two. *)
THEOREM RepresentativesHold ==
    ASSUME NEW forms \in Seq(Form)
    PROVE  CanonicalIsRepresentative(forms)
  <1> DEFINE c == ResolveAddresses(forms)
  <1>1. DOMAIN forms = 1 .. Len(forms) /\ IsResolved(forms, c) /\ Len(c) = Len(forms)
    BY AllAreResolved
  <1> HIDE DEF c
  <1>2. ASSUME NEW i \in DOMAIN forms
        PROVE  /\ c[i] <= i /\ c[c[i]] = c[i]
               /\ \A j \in Roots(c) : (forms[i] = forms[j] /\ c[i] = i) => i = j
    <2>1. c[i] \in 1 .. i /\ c[c[i]] = c[i]
      BY <1>1 DEF IsResolved
    <2>2. c[i] = i => i \in Roots(c)
      BY <1>1 DEF Roots, IsResolved
    <2> QED
      BY <1>1, <2>1, <2>2 DEF IsResolved
  <1> QED
    BY <1>2 DEF CanonicalIsRepresentative, c

(* Where no two addresses of a locality are similar, the bounded search finds *)
(* every equal address: resolving addresses is resolving equal values.        *)
THEOREM ExactAgreementHolds == ASSUME NEW forms \in Seq(Form) PROVE AgreesWithExact(forms)
  <1> SUFFICES ASSUME Dissimilar(forms), NEW i \in DOMAIN forms
               PROVE  ResolveAddresses(forms)[i] = ExactCanonical(forms, i)
    BY DEF AgreesWithExact, Dissimilar
  <1> DEFINE c == ResolveAddresses(forms)
  <1>1. DOMAIN forms = 1 .. Len(forms) /\ IsResolved(forms, c) /\ Len(c) = Len(forms)
    BY AllAreResolved
  <1> HIDE DEF c
  <1> DEFINE first(j) == forms[j] = forms[i] /\ \A k \in 1 .. j - 1 : forms[k] # forms[i]
  <1>2. c[i] \in DOMAIN forms /\ first(c[i])
    <2>1. c[i] \in 1 .. i
      BY <1>1 DEF IsResolved
    <2> QED
      BY <1>1, <2>1 DEF IsResolved
  <1>3. \A j, k \in DOMAIN forms : first(j) /\ first(k) => j = k
    BY <1>1
  <1>4. ExactCanonical(forms, i) \in DOMAIN forms /\ first(ExactCanonical(forms, i))
    <2>1. ExactCanonical(forms, i) = CHOOSE j \in DOMAIN forms : first(j)
      BY DEF ExactCanonical
    <2> HIDE DEF first
    <2> QED
      BY <1>2, <2>1
  <1>5. c[i] = ExactCanonical(forms, i)
    BY <1>2, <1>3, <1>4
  <1> QED
    BY <1>5 DEF c

-----------------------------------------------------------------------------
(* The programs together: each lane is a behaviour of its program. *)

(* The files of a model are those of ModelLineage, whatever else is run. *)
LEMMA LineageRuns == OfflineSpec => Lineage!Spec
  <1>1. OfflineInit => Lineage!Init
    BY DEF OfflineInit
  <1>2. [OfflineNext]_allVars => [Lineage!Next]_Lineage!vars
    <2>1. UNCHANGED lineageVars => UNCHANGED Lineage!vars
      BY DEF lineageVars, Lineage!vars
    <2> QED
      BY <2>1 DEF OfflineNext, allVars
  <1> QED
    BY <1>1, <1>2, PTL DEF OfflineSpec, Lineage!Spec

(* A comparison is one of ModelComparison. *)
LEMMA ComparisonRuns == OfflineSpec => Comparison!Spec
  <1>1. OfflineInit => Comparison!Init
    BY DEF OfflineInit
  <1>2. [OfflineNext]_allVars => [Comparison!Next]_Comparison!vars
    <2>1. UNCHANGED comparisonVars => UNCHANGED Comparison!vars
      BY DEF comparisonVars, Comparison!vars
    <2> QED
      BY <2>1 DEF OfflineNext, allVars
  <1> QED
    BY <1>1, <1>2, PTL DEF OfflineSpec, Comparison!Spec

(***************************************************************************)
(* The files that load are of one run and one chain, and what a clean run  *)
(* leaves loads (provenance.py of evaluation, calibration and policy), for *)
(* any versions of the code and of the configuration.                      *)
(***************************************************************************)
THEOREM LineageIsWhole == ASSUME NothingIsMissing PROVE OfflineSpec => []LineageHolds
  <1>1. Lineage!FrozenIsWhole /\ Lineage!RuntimeIsOneChain /\ Lineage!CleanRunIsAccepted
          => LineageHolds
    BY DEF LineageHolds
  <1> QED
    BY <1>1, LineageRuns, FrozenHolds, RuntimeHolds, CleanRunHolds, PTL

(* Every run of a comparison is counted once, and no case of abuse escapes the *)
(* rates (comparison.py), for any plan, models and reports.                    *)
THEOREM ComparisonHolds == ASSUME ReportsAreFinal PROVE OfflineSpec => []ComparisonIsComplete
  <1>1. Comparison!EveryRunCountsOnce /\ Comparison!AbuseIsFoundMissedOrFailed
          => ComparisonIsComplete
    BY DEF ComparisonIsComplete
  <1> QED
    BY <1>1, ComparisonRuns, CountsHold, PTL

(* What the pure lanes compute from. *)
InputConsistent ==
    /\ lane = "policy" => input \in Decisions
    /\ lane = "addresses" => input \in Seq(Form)
    /\ lane = "worlds" => input \subseteq LabelledEvents
    /\ lane = "scores" => input \in Seq([score : Nat, positive : BOOLEAN])
    /\ lane = "sizes" => input.sizes \in RingSizes /\ input.remaining \in Nat \ {1}

(* The input stays what its lane computes from. *)
LEMMA InputsHold == OfflineSpec => []InputConsistent
  <1>1. OfflineInit => InputConsistent
    <2> SUFFICES ASSUME OfflineInit PROVE InputConsistent
      OBVIOUS
    <2>1. lane = "sizes" => input.sizes \in RingSizes /\ input.remaining \in 2 .. Target
      BY DEF OfflineInit
    <2>2. \A n \in 2 .. Target : n \in Nat \ {1}
      OBVIOUS
    <2>3. \A S : <<>> \in Seq(S)
      OBVIOUS
    <2>4. lane = "policy" => input \in Decisions
      BY DEF OfflineInit
    <2> QED
      BY <2>1, <2>2, <2>3, <2>4 DEF OfflineInit, InputConsistent
  <1>2. InputConsistent /\ [OfflineNext]_allVars => InputConsistent'
    <2> SUFFICES ASSUME InputConsistent, [OfflineNext]_allVars, UNCHANGED lane
                 PROVE  InputConsistent'
      BY DEF OfflineNext, allVars
    <2>1. CASE UNCHANGED input
      BY <2>1 DEF InputConsistent
    <2>2. CASE Grow
      <3>1. CASE lane = "addresses"
        BY <2>2, <3>1 DEF InputConsistent, Grow
      <3>2. CASE lane = "worlds"
        BY <2>2, <3>2 DEF InputConsistent, Grow
      <3>3. CASE lane = "scores"
        <4>1. PICK s \in 1 .. MaxScore, p \in BOOLEAN :
                  input' = Append(input, [score |-> s, positive |-> p])
          BY <2>2, <3>3 DEF Grow
        <4>2. [score |-> s, positive |-> p] \in [score : Nat, positive : BOOLEAN]
          OBVIOUS
        <4> QED
          BY <3>3, <4>1, <4>2 DEF InputConsistent
      <3>4. CASE lane = "sizes"
        <4>1. PICK s \in World!Eligible(input.sizes, input.remaining) :
                  input' = [input EXCEPT !.remaining = @ - s]
          BY <2>2, <3>4 DEF Grow
        <4>2. /\ input.sizes \in RingSizes /\ input.remaining \in Nat
              /\ s \in Nat /\ s <= input.remaining /\ input.remaining - s # 1
          BY <3>4, <4>1 DEF InputConsistent, World!Eligible, RingSizes
        <4>3. input'.sizes = input.sizes /\ input'.remaining = input.remaining - s
          BY <4>1
        <4> QED
          BY <3>4, <4>2, <4>3 DEF InputConsistent
      <3> QED
        BY <2>2, <3>1, <3>2, <3>3, <3>4 DEF Grow
    <2> QED
      BY <2>1, <2>2 DEF OfflineNext, allVars
  <1> QED
    BY <1>1, <1>2, PTL DEF OfflineSpec

(* Whatever the exposure, the costs of the configuration are whole. *)
LEMMA CaseCostsAreWhole == ASSUME NEW e \in Exposures PROVE Priced(ConditionalCosts(Costs, e))
  <1>1. /\ e \in Nat
        /\ \A k \in {"allowOperational", "allowLegitimate", "allowLoss", "reviewOperational",
                     "reviewFriction", "reviewLoss", "blockOperational", "blockMargin",
                     "blockFriction", "blockLoss"} : Costs[k] \in Nat
    BY PolicyAssumption
  <1>2. \A x, y \in Nat : 100 * x + e * y \in Int /\ x + y \in Nat
    BY <1>1
  <1> QED
    BY <1>1, <1>2 DEF Priced, ConditionalCosts, Action

(***************************************************************************)
(* policy/service.py and triggers.py: for any configuration, exposure,     *)
(* odds and tie-break order, a decision called stable is the decision at   *)
(* every probability between its scenarios, more likely fraud is never     *)
(* decided more leniently, and an uninvestigated case is a certain one.    *)
(***************************************************************************)
THEOREM DecisionsHold == OfflineSpec => []DecisionsAreConsistent
  <1>1. InputConsistent => DecisionsAreConsistent
    <2> SUFFICES ASSUME input \in Decisions PROVE DecisionsAreConsistent
      BY DEF InputConsistent, DecisionsAreConsistent
    <2>1. /\ input.odds \in Odds /\ input.exposure \in Exposures
          /\ input.rank \in [Action -> 1 .. 3]
          /\ \A a, b \in Action : input.rank[a] = input.rank[b] => a = b
      BY DEF Decisions
    <2>2. Priced(CaseCosts)
      BY <2>1, CaseCostsAreWhole DEF CaseCosts
    <2>3. Ranked(input.rank) /\ Weighed(input.odds)
      BY <2>1, PolicyAssumption DEF Ranked, Weighed
    <2>4. /\ Multiplies(Optimistic) /\ Multiplies(Stressed)
          /\ \A m \in Multipliers : Multiplies(m)
      BY PolicyAssumption DEF Multiplies
    <2> QED
      BY <2>2, <2>3, <2>4, StableHolds, LeniencyHolds, UninvestigatedHolds
         DEF DecisionsAreConsistent
  <1> QED
    BY <1>1, InputsHold, PTL

(* evaluation/sampling.py and metrics.py: whatever world was labelled, no     *)
(* campaign's abuse is in two partitions and no known abuser is a negative    *)
(* sample; whatever the predictions, no score dominates the frozen threshold. *)
THEOREM EvaluationHolds == OfflineSpec => []EvaluationIsHeldOut
  <1>1. InputConsistent => EvaluationIsHeldOut
    <2> SUFFICES ASSUME InputConsistent PROVE EvaluationIsHeldOut
      OBVIOUS
    <2>1. ASSUME lane = "worlds"
          PROVE  /\ CampaignsDoNotLeak(Created, input, Cutoffs)
                 /\ NegativesAreNotKnownAbusers(Created, input, Cutoffs)
      <3>1. Chronological(input, Cutoffs)
        BY <2>1, EvaluationAssumption DEF InputConsistent, Chronological
      <3> QED
        BY <3>1, CampaignsHold, NegativesHold
    <2>2. ASSUME lane = "scores" PROVE ThresholdIsEfficient(input, Minimum)
      <3> DEFINE R == [score : Nat, positive : BOOLEAN]
                 Q == [score : Int, positive : BOOLEAN]
      <3>1. R \subseteq Q
        OBVIOUS
      <3>2. input \in Seq(R)
        BY <2>2 DEF InputConsistent
      <3> HIDE DEF R, Q
      <3>3. input \in Seq(Q)
        BY <3>1, <3>2
      <3>4. input \in Predictions
        BY <3>3 DEF Predictions, Q
      <3> QED
        BY <3>4, EvaluationAssumption, ThresholdHolds
    <2> QED
      BY <2>1, <2>2 DEF EvaluationIsHeldOut
  <1> QED
    BY <1>1, InputsHold, PTL

(* resolution/policy.py: whatever the addresses and their order, each is       *)
(* resolved to one that it is similar to and that represents its class; where  *)
(* nothing is similar, equal addresses are resolved to the first of them.      *)
THEOREM AddressesHold == OfflineSpec => []AddressesAreResolved
  <1>1. InputConsistent => AddressesAreResolved
    BY MergesHold, RepresentativesHold, ExactAgreementHolds
       DEF InputConsistent, AddressesAreResolved
  <1> QED
    BY <1>1, InputsHold, PTL

-----------------------------------------------------------------------------
(* Views. *)

(* What a view has: some of the known relationships, and their events.       *)
IsView(v) ==
    /\ v \in [nodes : {Nodes}, edges : SUBSET Known, events : SUBSET {EventOf[x] : x \in Known}]
    /\ IsFiniteSet(v.edges)
    /\ v.events = {EventOf[x] : x \in v.edges}

(* There is a view in the lane of views alone. *)
ViewConsistent == Built => IsView(view)

(* A fact makes a view of a view. *)
LEMMA FactsAdd ==
    ASSUME NEW v, IsView(v), NEW f \in Facts,
           NEW w, w = [v EXCEPT !.edges = @ \cup f, !.events = @ \cup {EventOf[x] : x \in f}]
    PROVE  IsView(w)
  <1>1. f \subseteq Known /\ IsFiniteSet(f)
    BY FactsAssumption DEF Known
  <1>2. w.nodes = Nodes /\ w.edges = v.edges \cup f
        /\ w.events = v.events \cup {EventOf[x] : x \in f}
        /\ w = [nodes |-> w.nodes, edges |-> w.edges, events |-> w.events]
    BY DEF IsView
  <1>3. IsFiniteSet(w.edges)
    BY <1>1, <1>2, FS_Union DEF IsView
  <1>4. w.events = {EventOf[x] : x \in w.edges}
    BY <1>2 DEF IsView
  <1> QED
    BY <1>1, <1>2, <1>3, <1>4, ZenonT(40) DEF IsView

(* The view is one throughout. *)
LEMMA ViewsHold == OfflineSpec => []ViewConsistent
  <1>1. OfflineInit => ViewConsistent
    <2>1. IsView(EmptyView)
      BY FS_EmptySet DEF IsView, EmptyView
    <2> QED
      BY <2>1 DEF OfflineInit, ViewConsistent, Built
  <1>2. ViewConsistent /\ [OfflineNext]_allVars => ViewConsistent'
    <2>1. CASE UNCHANGED view
      BY <2>1 DEF ViewConsistent, Built
    <2>2. ASSUME ViewConsistent, Next PROVE ViewConsistent'
      <3>1. PICK f \in Facts : Add(f)
        BY <2>2 DEF Next
      <3>2. IsView(view)
        BY <2>2 DEF ViewConsistent, Built, Next
      <3>3. IsView(view')
        BY <3>1, <3>2, FactsAdd DEF Add
      <3> QED
        BY <3>3 DEF ViewConsistent
    <2> QED
      BY <2>1, <2>2 DEF OfflineNext, allVars
  <1> QED
    BY <1>1, <1>2, PTL DEF OfflineSpec

(* What is known of a view at a cutoff, and its events. *)
LEMMA ViewIs ==
    ASSUME NEW v, IsView(v), NEW c \in Nat
    PROVE  /\ AreKnown(SnapshotAt(v, c).edges, c) /\ EventsAreKnown(v.events)
           /\ "edges" \in DOMAIN v /\ IsFiniteSet(v.edges)
           /\ SnapshotAt(v, c).nodes = v.nodes
           /\ SnapshotAt(v, c).edges = {x \in v.edges : x.at <= c}
  <1> DEFINE S == {x \in v.edges : x.at <= c}
             E == v.edges
             f == [x \in E |-> EventOf[x]]
  <1>1. SnapshotAt(v, c) = [v EXCEPT !.edges = S]
    BY DEF SnapshotAt
  <1>2. SnapshotAt(v, c).edges = S /\ SnapshotAt(v, c).nodes = v.nodes /\ "edges" \in DOMAIN v
    <2> HIDE DEF S
    <2> QED
      BY <1>1 DEF IsView
  <1>3. E \subseteq Known /\ IsFiniteSet(E) /\ v.events = {f[x] : x \in E}
    BY DEF IsView
  <1>4. AreKnown(S, c)
    BY <1>3, FactsAssumption, FS_Subset DEF AreKnown
  <1>5. EventsAreKnown(v.events)
    <2>1. IsFiniteSet(v.events)
      <3>1. DOMAIN f = E
        OBVIOUS
      <3> HIDE DEF f, E
      <3>2. IsFiniteSet({f[x] : x \in E})
        BY ONLY <1>3, <3>1, ImagesFinite
      <3> QED
        BY <1>3, <3>2
    <2>2. ASSUME NEW x \in E, NEW y \in E
          PROVE  /\ f[x].at \in Nat /\ f[x].id \in Nat
                 /\ f[x].id = f[y].id => f[x] = f[y]
      BY <1>3, FactsAssumption DEF IsRelationship
    <2> HIDE DEF f, E
    <2> QED
      BY <1>3, <2>1, <2>2 DEF EventsAreKnown
  <1> QED
    BY <1>2, <1>3, <1>4, <1>5

(* features/extractors.py: whatever has been learnt, in whatever order, the    *)
(* search finds the component of every account and the counts of a vector     *)
(* agree with it and with one another.                                        *)
THEOREM FeaturesStay == OfflineSpec => []FeaturesAreConsistent
  <1>1. ViewConsistent => FeaturesAreConsistent
    <2> SUFFICES ASSUME ViewConsistent, Built
                 PROVE  ComponentIsLeast(view) /\ FeaturesAgree(view, Cutoff)
      BY DEF FeaturesAreConsistent
    <2>1. "edges" \in DOMAIN view /\ IsFiniteSet(view.edges)
      BY DEF ViewConsistent, IsView
    <2> QED
      BY <2>1, ComponentsHold, FeaturesHold
  <1> QED
    BY <1>1, ViewsHold, PTL

(* service.py: whatever has been learnt and whatever the limits, a             *)
(* neighbourhood and a timeline say what they leave out, and the related      *)
(* accounts are those that the features count.                                *)
THEOREM EvidenceHolds == OfflineSpec => []EvidenceIsHonest
  <1>1. ViewConsistent => EvidenceIsHonest
    <2> SUFFICES ASSUME ViewConsistent, Built, NEW a \in Subjects, NEW l \in LimitSet
                 PROVE  /\ NeighborhoodIsHonest(view, a, Cutoff, l)
                        /\ TimelineIsHonest(view, a, Cutoff, l)
                        /\ \A c \in EarlierCutoffs \cup {Cutoff} :
                             PeersAreThoseOfTheFeatures(view, a, c, l)
      BY DEF EvidenceIsHonest
    <2>1. IsView(view)
      BY DEF ViewConsistent
    <2>2. /\ a \in AccountNodes /\ Cutoff \in Nat /\ EarlierCutoffs \subseteq Nat
          /\ l.hops \in Nat /\ l.nodes \in Nat \ {0} /\ l.edges \in Nat
          /\ l.related \in Nat /\ l.events \in Nat /\ l.timeline \in Nat
      BY LimitsAssumption DEF AccountNodes
    <2>3. NeighborhoodIsHonest(view, a, Cutoff, l)
      <3>1. AreKnown(SnapshotAt(view, Cutoff).edges, Cutoff)
        BY <2>1, <2>2, ViewIs
      <3> QED
        BY <2>2, <3>1, NeighborhoodHolds
    <2>4. TimelineIsHonest(view, a, Cutoff, l)
      <3>1. EventsAreKnown(view.events)
        BY <2>1, <2>2, ViewIs
      <3> QED
        BY <2>2, <3>1, TimelineHolds
    <2>5. ASSUME NEW c \in EarlierCutoffs \cup {Cutoff}
          PROVE  PeersAreThoseOfTheFeatures(view, a, c, l)
      <3>1. c \in Nat
        BY <2>2
      <3>2. AreKnown(SnapshotAt(view, c).edges, c)
        BY <2>1, <3>1, ViewIs
      <3> QED
        BY <2>2, <3>1, <3>2, PeersHold
    <2> QED
      BY <2>3, <2>4, <2>5
  <1> QED
    BY <1>1, ViewsHold, PTL

(* service.py: the evidence of a cutoff and the vector that its score explains *)
(* are not changed by anything learnt of later times.                         *)
THEOREM FutureIsIgnored == OfflineSpec => EvidenceIgnoresTheFuture
  <1>1. ASSUME ViewConsistent, [OfflineNext]_allVars, ViewConsistent'
        PROVE  [Built => \A a \in Subjects, c \in EarlierCutoffs :
                  (\A x \in view'.edges \ view.edges : x.at > c) =>
                     /\ \A l \in LimitSet : Evidence(view', a, c, l) = Evidence(view, a, c, l)
                     /\ ExplainedVector(view', a, c, Extract(view, a, c))
                          = Extract(view, a, c)]_view
    <2>1. CASE UNCHANGED view
      BY <2>1
    <2>2. ASSUME Next, Built, NEW c \in EarlierCutoffs,
                 \A x \in view'.edges \ view.edges : x.at > c
          PROVE  \A a \in Subjects :
                   /\ \A l \in LimitSet : Evidence(view', a, c, l) = Evidence(view, a, c, l)
                   /\ ExplainedVector(view', a, c, Extract(view, a, c)) = Extract(view, a, c)
      <3>1. PICK f \in Facts : Add(f)
        BY <2>2 DEF Next
      <3>2. IsView(view) /\ c \in Nat
        BY <1>1, <2>2, LimitsAssumption DEF ViewConsistent
      <3>3. IsView(view')
        BY <3>1, <3>2, FactsAdd DEF Add
      <3>4. /\ view'.nodes = view.nodes /\ view'.edges = view.edges \cup f
            /\ view'.events = view.events \cup {EventOf[x] : x \in f}
        BY <3>1, <3>2 DEF Add, IsView
      <3>5. f \subseteq Known /\ view.edges \subseteq Known
            /\ \A x \in Known : x.at \in Nat /\ EventOf[x].at = x.at
        BY <3>2, FactsAssumption DEF Known, IsView, IsRelationship
      <3>6. {x \in view'.edges : x.at <= c} = {x \in view.edges : x.at <= c}
        BY <2>2, <3>2, <3>4, <3>5
      <3>7. {e \in view'.events : e.at <= c} = {e \in view.events : e.at <= c}
        <4> SUFFICES ASSUME NEW x \in f, EventOf[x].at <= c PROVE EventOf[x] \in view.events
          BY <3>4
        <4>1. x \in view.edges
          BY <2>2, <3>2, <3>4, <3>5
        <4> QED
          BY <3>2, <4>1 DEF IsView
      <3>8. SameUntil(view', view, c)
        <4>1. SnapshotAt(view, c).edges = {x \in view.edges : x.at <= c}
          BY <3>2, ViewIs
        <4>2. SnapshotAt(view', c).edges = {x \in view'.edges : x.at <= c}
          BY <3>2, <3>3, ViewIs
        <4> QED
          BY <3>4, <3>6, <3>7, <4>1, <4>2 DEF SameUntil
      <3>9. SnapshotAt(view, c).nodes = view.nodes /\ SnapshotAt(view', c).nodes = view'.nodes
        BY <3>2, <3>3, ViewIs
      <3>10. \A a, l : Evidence(view', a, c, l) = Evidence(view, a, c, l)
        BY <3>8, EvidenceIsSame
      <3>11. \A a : Extract(view', a, c) = Extract(view, a, c)
        BY <3>8, <3>9, VectorIsSame
      <3> QED
        BY <3>10, <3>11 DEF ExplainedVector
    <2> QED
      BY <2>1, <2>2, <1>1 DEF OfflineNext, allVars
  <1>2. OfflineSpec => [][OfflineNext]_allVars
    BY DEF OfflineSpec
  <1> QED
    BY <1>1, <1>2, ViewsHold, PTL DEF EvidenceIgnoresTheFuture

-----------------------------------------------------------------------------
(* The synthetic world, for any window of at least two weeks, any share of   *)
(* its identities and any number of accounts.                                *)

(* The window in minutes. *)
LEMMA WindowIs ==
    /\ World!Hour = 60 /\ World!Day = 1440 /\ World!End = Days * 1440
    /\ World!End \in Nat /\ World!End >= 20160
  BY WindowAssumption DEF World!End, World!Day, World!Hour

(* Whole days of a time. *)
LEMMA DaysAre ==
    ASSUME NEW t \in Int
    PROVE  /\ t \div 1440 \in Int /\ (t \div 1440) * 1440 <= t
           /\ t < ((t \div 1440) * 1440) + 1440
           /\ t >= 1440 => t \div 1440 >= 1
  OBVIOUS

(* An account is created a week before the end, and before the latest time    *)
(* where that leaves it a day; where it does not, on the first day.           *)
LEMMA CreationIs ==
    ASSUME NEW latest \in Int, NEW created \in World!Timestamp(latest)
    PROVE  /\ created \in Nat /\ created < World!End - 10080
           /\ latest >= 1440 => created < latest
  <1> DEFINE m == World!Smaller(World!End - 10080, latest)
             d == m \div 1440
             days == World!Larger(d, 1)
  <1>1. /\ m \in Int /\ m <= World!End - 10080 /\ m <= latest
        /\ latest >= 1440 => m >= 1440
    BY WindowIs DEF World!Smaller
  <1> HIDE DEF m
  <1>2. d \in Int /\ d * 1440 <= m /\ (m >= 1440 => d >= 1)
    BY <1>1, DaysAre
  <1> HIDE DEF d
  <1>3. days \in Nat /\ days >= 1 /\ (days = d \/ days = 1) /\ (d >= 1 => days = d)
    BY <1>2 DEF World!Larger
  <1>4. created \in {0, (days * 1440) - 1}
    BY WindowIs DEF World!Timestamp, m, d
  <1> HIDE DEF days
  <1>5. days * 1440 <= World!End - 10080
    BY <1>1, <1>2, <1>3, WindowIs
  <1> QED
    BY <1>1, <1>2, <1>3, <1>4, <1>5, WindowIs

(* An order is placed an hour after the creation at the earliest, four days   *)
(* before the end at the latest.                                              *)
LEMMA OrdersAre ==
    ASSUME NEW created \in Nat, created < World!End - 10080,
           NEW at \in World!OrderTimes(created)
    PROVE  at \in Nat /\ created + 60 <= at /\ at <= World!End - 5760
  <1> DEFINE earliest == created + 60
             latest == World!End - 5760
  <1>1. earliest \in Nat /\ latest \in Nat /\ earliest <= latest
    BY WindowIs
  <1> DEFINE day(t) == (t \div 1440) * 1440
  <1>2. ASSUME NEW t \in Nat PROVE day(t) \in Int
    <2>1. t \div 1440 \in Int
      BY DaysAre
    <2> QED
      BY <2>1
  <1>3. PICK t \in {earliest, latest} :
             \E c \in {day(t), day(t) + 1440 - 1} :
                at = World!Smaller(World!Larger(c, earliest), latest)
    BY WindowIs DEF World!OrderTimes
  <1>4. PICK c \in Int : at = World!Smaller(World!Larger(c, earliest), latest)
    BY <1>1, <1>2, <1>3
  <1> HIDE DEF day, earliest, latest
  <1>5. at \in Nat /\ earliest <= at /\ at <= latest
    BY <1>1, <1>4 DEF World!Smaller, World!Larger
  <1> QED
    BY <1>5 DEF earliest, latest

(* A campaign action happens in the last week at the latest.                 *)
LEMMA ActionIs ==
    ASSUME NEW at \in World!CampaignActionTimestamp
    PROVE  at \in Nat /\ at < World!End - 7200
  <1> DEFINE available == Days - 7
             day(f) == World!Smaller(((available * f) + 50) \div 100, available)
  <1>1. available \in Nat
    BY WindowAssumption
  <1>2. PICK f \in Fraction : at \in {day(f) * 1440, (day(f) * 1440) + 1440 - 1}
    BY WindowIs DEF World!CampaignActionTimestamp
  <1>3. f \in Nat /\ (available * f) + 50 \in Nat
    BY <1>1, WindowAssumption
  <1>4. day(f) \in Nat /\ day(f) <= available
    <2> DEFINE n == (available * f) + 50
    <2> HIDE DEF n
    <2>1. n \div 100 \in Nat
      BY <1>3 DEF n
    <2> QED
      BY <1>1, <2>1 DEF World!Smaller, n
  <1> DEFINE d == day(f)
  <1> HIDE DEF day
  <1>5. d \in Nat /\ d <= Days - 7
    BY <1>4
  <1> HIDE DEF d
  <1>6. d * 1440 <= (Days - 7) * 1440
    BY <1>5, WindowAssumption
  <1> QED
    BY <1>2, <1>5, <1>6, WindowAssumption, WindowIs DEF d

(* An order, with its promotion and its refund.                              *)
Emission(a, refs, n, at, label, redeems, refunds) ==
    World!OrderFacts(a, refs, n, at)
    \cup (IF redeems THEN World!PromotionFacts(a, refs, n, at, label) ELSE {})
    \cup (IF refunds THEN World!EmitRefund(a, refs, n, at, label) ELSE {})

(* The fact that an order is placed. *)
Placed(a, refs, n, at) == World!Fact("order_placed", at, a, refs, n, 0)

(* A refund is requested after its order and resolved after that.            *)
AreCausal(F) ==
    \A f \in F :
        /\ f.type = "refund_requested" =>
             \E e \in F : /\ e.type = "order_placed" /\ e.account = f.account
                          /\ e.order = f.order /\ e.at < f.at
        /\ f.type = "refund_resolved" =>
             \E e \in F : /\ e.type = "refund_requested" /\ e.account = f.account
                          /\ e.order = f.order /\ e.at < f.at

(* What is emitted for an order.                                             *)
AreOfOrder(F, a, refs, n, at, label) ==
    /\ \A f \in F :
         /\ f.account = a /\ f.refs = refs
         /\ f.at \in Int /\ at <= f.at + 5 /\ f.at <= World!End
         /\ f.label # 0 => f.label = label /\ f.at > at
         /\ f.type = "order_placed" => f = Placed(a, refs, n, at)
    /\ Placed(a, refs, n, at) \in F
    /\ AreCausal(F)

(* An emission is of its order, and labelled where it redeems or refunds.     *)
LEMMA EmissionIs ==
    ASSUME NEW a, NEW refs, NEW n, NEW at \in Nat, at < World!End - 1440, NEW label,
           NEW redeems \in BOOLEAN, NEW refunds \in BOOLEAN,
           NEW F, F = Emission(a, refs, n, at, label, redeems, refunds)
    PROVE  /\ AreOfOrder(F, a, refs, n, at, label)
           /\ label # 0 /\ (redeems \/ refunds) => \E f \in F : f.label # 0
  <1> DEFINE Make(type, t, o, l) == World!Fact(type, t, a, refs, o, l)
             requested == World!Smaller(at + 2880, World!End - 1440)
             resolved == World!Smaller(requested + 2880, World!End)
             O == {Make("device_seen", at - 5, 0, 0), Make("ip_seen", at - 3, 0, 0),
                   Make("payment_attached", at - 1, 0, 0), Make("order_placed", at, n, 0)}
             P == {Make("promotion_redeemed", at + 1, n, label)}
             R == {Make("refund_requested", requested, n, label),
                   Make("refund_resolved", resolved, n, label)}
  <1>1. /\ requested \in Nat /\ at < requested /\ resolved \in Nat /\ requested < resolved
        /\ resolved <= World!End
    BY WindowIs DEF World!Smaller
  <1> HIDE DEF requested, resolved
  <1>2. F = O \cup (IF redeems THEN P ELSE {}) \cup (IF refunds THEN R ELSE {})
    <2>1. World!OrderFacts(a, refs, n, at) = O
      BY DEF World!OrderFacts
    <2>2. World!PromotionFacts(a, refs, n, at, label) = P
      BY DEF World!PromotionFacts, World!Fact
    <2>3. World!EmitRefund(a, refs, n, at, label) = R
      <3>1. 2 * World!Day = 2880 /\ World!Day = 1440
        BY WindowIs
      <3> QED
        BY <3>1 DEF World!EmitRefund, World!Fact, requested, resolved
    <2> HIDE DEF O, P, R
    <2> QED
      BY <2>1, <2>2, <2>3 DEF Emission
  <1>3. ASSUME NEW type, NEW t, NEW o, NEW l
        PROVE  /\ Make(type, t, o, l).type = type /\ Make(type, t, o, l).at = t
               /\ Make(type, t, o, l).label = l /\ Make(type, t, o, l).account = a
               /\ Make(type, t, o, l).refs = refs /\ Make(type, t, o, l).order = o
    BY DEF World!Fact
  <1>4. Placed(a, refs, n, at) = Make("order_placed", at, n, 0)
    BY DEF Placed
  <1> HIDE DEF Make
  <1>5. ASSUME NEW f \in F
        PROVE  /\ f.account = a /\ f.refs = refs
               /\ f.at \in Int /\ at <= f.at + 5 /\ f.at <= World!End
               /\ f.label # 0 => f.label = label /\ f.at > at
               /\ f.type = "order_placed" => f = Placed(a, refs, n, at)
               /\ f.type = "refund_requested" => f.at = requested /\ f.order = n /\ refunds
               /\ f.type = "refund_resolved" => f.at = resolved /\ f.order = n /\ refunds
    <2>1. CASE f \in O
      BY <1>3, <1>4, <2>1, WindowIs
    <2>2. CASE f \in P
      BY <1>3, <2>2, WindowIs
    <2>3. CASE f \in R /\ refunds
      BY <1>1, <1>3, <2>3, WindowIs
    <2> HIDE DEF O, P, R
    <2> QED
      BY <1>2, <2>1, <2>2, <2>3
  <1>6. Make("order_placed", at, n, 0) \in F
    BY <1>2
  <1>7. refunds => Make("refund_requested", requested, n, label) \in F
    BY <1>2
  <1>8. AreCausal(F)
    <2> SUFFICES ASSUME NEW f \in F
                 PROVE  /\ f.type = "refund_requested" =>
                             \E e \in F : /\ e.type = "order_placed" /\ e.account = f.account
                                          /\ e.order = f.order /\ e.at < f.at
                        /\ f.type = "refund_resolved" =>
                             \E e \in F : /\ e.type = "refund_requested"
                                          /\ e.account = f.account
                                          /\ e.order = f.order /\ e.at < f.at
      BY DEF AreCausal
    <2> HIDE DEF O, P, R
    <2> QED
      BY <1>1, <1>3, <1>5, <1>6, <1>7
  <1>9. label # 0 /\ (redeems \/ refunds) => \E f \in F : f.label # 0
    <2>1. redeems => Make("promotion_redeemed", at + 1, n, label) \in F
      BY <1>2
    <2> HIDE DEF O, P, R
    <2> QED
      BY <1>3, <1>7, <2>1
  <1> QED
    BY <1>4, <1>5, <1>6, <1>8, <1>9 DEF AreOfOrder

(* An account's identities are what it started with or its own.              *)
LEMMA RefsAre ==
    ASSUME NEW a, NEW initial, NEW h, NEW n, NEW k \in World!Kind
    PROVE  /\ World!RefsOf(a, initial, h, n)[k] = initial[k]
              \/ \E j : World!RefsOf(a, initial, h, n)[k] = <<a, j>>
           /\ n = 0 => World!RefsOf(a, initial, h, n)[k] = initial[k]
  <1> DEFINE replaced == {j \in 2 .. n : k \in h[j].replaced}
  <1>1. World!RefsOf(a, initial, h, n)[k]
          = IF replaced = {} THEN initial[k]
            ELSE <<a, CHOOSE j \in replaced : \A i \in replaced : i <= j>>
    BY DEF World!RefsOf
  <1>2. n = 0 => replaced = {}
    OBVIOUS
  <1> HIDE DEF replaced
  <1> QED
    BY <1>1, <1>2

(* What is emitted for an account when it is created.                        *)
StartFacts(a, created, initial) ==
    {World!Fact("account_created", created, a, World!NoRefs, 0, 0),
     World!Fact("device_seen", created + 5, a, initial, 0, 0),
     World!Fact("ip_seen", created + 7, a, initial, 0, 0),
     World!Fact("payment_attached", created + 9, a, initial, 0, 0)}

(* They are no orders and no refunds, and not labelled.                        *)
LEMMA StartIs ==
    ASSUME NEW a, NEW created \in Nat, created < World!End - 10080, NEW initial,
           NEW f \in StartFacts(a, created, initial)
    PROVE  /\ f.account = a /\ f.label = 0 /\ f.refs \in {World!NoRefs, initial}
           /\ f.at \in Nat /\ created <= f.at /\ f.at <= World!End
           /\ f.type \notin {"order_placed", "refund_requested", "refund_resolved"}
  BY WindowIs DEF StartFacts, World!Fact

(* What is emitted for an ordinary order.                                    *)
OrdinaryEmission(a, initial, h, n) ==
    Emission(a, World!RefsOf(a, initial, h, n), n, h[n].at, 0, h[n].then = "promotion",
             h[n].then = "refund")

(* A history is the creation and its orders.                                  *)
LEMMA HistoryEmitted ==
    ASSUME NEW a, NEW created, NEW initial, NEW h
    PROVE  World!EmitOrdinaryHistory(a, created, initial, h)
             = StartFacts(a, created, initial)
               \cup UNION {OrdinaryEmission(a, initial, h, n) : n \in DOMAIN h}
  BY DEF World!EmitOrdinaryHistory, StartFacts, OrdinaryEmission, Emission

(* A history of N orders after the creation, each no earlier than the one    *)
(* before.                                                                   *)
IsOrdered(h, created, N) ==
    /\ DOMAIN h = 1 .. N /\ Len(h) = N
    /\ \A n \in 1 .. N : /\ h[n].at \in Nat /\ created + 60 <= h[n].at
                         /\ h[n].at <= World!End - 5760
    /\ \A n \in 1 .. N - 1 : h[n].at <= h[n + 1].at

(* The histories that are drawn are such histories. *)
LEMMA HistoriesAre ==
    ASSUME NEW created \in Nat, created < World!End - 10080, NEW most,
           NEW h \in World!Histories(created, most)
    PROVE  \E N \in Nat : IsOrdered(h, created, N)
  <1>1. PICK N \in 0 .. most : h \in [1 .. N -> World!Orders(created)]
    BY DEF World!Histories
  <1>2. N \in Nat /\ DOMAIN h = 1 .. N
    BY <1>1
  <1>3. Len(h) = N
    BY <1>1, <1>2
  <1>4. ASSUME NEW n \in 1 .. N
        PROVE  h[n].at \in Nat /\ created + 60 <= h[n].at /\ h[n].at <= World!End - 5760
    <2>1. h[n].at \in World!OrderTimes(created)
      BY <1>1 DEF World!Orders
    <2> QED
      BY <2>1, OrdersAre
  <1>5. \A n \in 1 .. N - 1 : h[n].at <= h[n + 1].at
    BY <1>3 DEF World!Histories
  <1> QED
    BY <1>2, <1>3, <1>4, <1>5 DEF IsOrdered

(* The numbers of a set without gaps below N are those up to its cardinality. *)
LEMMA NoGaps ==
    ASSUME NEW N \in Nat, NEW M \in SUBSET (1 .. N), \A n \in 2 .. N : n \in M => n - 1 \in M
    PROVE  \E m \in 0 .. N : M = 1 .. m /\ World!Cardinality(M) = m
  <1> DEFINE P == {m \in Nat : \A n \in 1 .. N : n > m => n \notin M}
  <1>1. P \in SUBSET Nat /\ N \in P
    OBVIOUS
  <1>2. PICK m \in P : \A k \in P : m <= k
    BY <1>1, LeastNatural
  <1>3. m \in Nat /\ m <= N /\ \A n \in M : n <= m
    BY <1>1, <1>2
  <1>4. m # 0 => m \in M
    <2> SUFFICES ASSUME m # 0, m \notin M PROVE FALSE
      OBVIOUS
    <2>1. m - 1 \in Nat /\ \A n \in 1 .. N : n > m - 1 => n \notin M
      BY <1>3
    <2>2. m - 1 \in P
      BY <2>1
    <2> QED
      BY <1>2, <1>3, <2>2
  <1> HIDE DEF P
  <1>5. ASSUME m # 0 PROVE 1 .. m \subseteq M
    <2> DEFINE T == {i \in 0 .. m - 1 : m - i \in M}
    <2>1. m - 1 \in Nat /\ 0 \in T
      BY <1>3, <1>4, <1>5
    <2>2. ASSUME NEW i \in 1 .. m - 1, i - 1 \in T PROVE i \in T
      <3>1. m - (i - 1) \in M /\ m - (i - 1) \in 2 .. N
        BY <1>3, <2>2
      <3>2. (m - (i - 1)) - 1 \in M
        BY <3>1
      <3> QED
        BY <1>3, <3>2
    <2> HIDE DEF T
    <2>3. 0 .. m - 1 \subseteq T
      BY ONLY <2>1, <2>2, Induction
    <2>4. ASSUME NEW n \in 1 .. m PROVE n \in M
      <3>1. m - n \in 0 .. m - 1 /\ m - (m - n) = n
        BY <1>3
      <3> QED
        BY <2>3, <3>1 DEF T
    <2> QED
      BY <2>4
  <1>6. M = 1 .. m
    <2>1. M \subseteq 1 .. m
      BY <1>3
    <2>2. m = 0 => 1 .. m = {}
      OBVIOUS
    <2> QED
      BY <1>5, <2>1, <2>2
  <1>7. World!Cardinality(1 .. m) = Cardinality(1 .. m)
    BY DEF World!Cardinality, Cardinality
  <1>8. Cardinality(1 .. m) = IF 1 > m THEN 0 ELSE m - 1 + 1
    BY <1>3, FS_Interval
  <1> QED
    BY <1>3, <1>6, <1>7, <1>8

(* The identities in use at a cutoff are those of the last order before it.  *)
LEMMA CutoffIs ==
    ASSUME NEW a, NEW initial, NEW h, NEW N \in Nat, DOMAIN h = 1 .. N,
           \A n \in 1 .. N : h[n].at \in Nat,
           \A n \in 1 .. N - 1 : h[n].at <= h[n + 1].at,
           NEW at \in Nat
    PROVE  \E m \in 0 .. N :
              /\ \A n \in 1 .. N : h[n].at <= at <=> n <= m
              /\ World!RefsAtCutoff(a, initial, h, at - 5) = World!RefsOf(a, initial, h, m)
  <1> DEFINE M == {n \in DOMAIN h : h[n].at - 5 <= at - 5}
  <1>1. \A n \in 1 .. N : n \in M <=> h[n].at <= at
    OBVIOUS
  <1>2. World!RefsAtCutoff(a, initial, h, at - 5)
          = World!RefsOf(a, initial, h, World!Cardinality(M))
    BY DEF World!RefsAtCutoff
  <1>3. M \in SUBSET (1 .. N)
    OBVIOUS
  <1> HIDE DEF M
  <1>4. ASSUME NEW n \in 2 .. N, n \in M PROVE n - 1 \in M
    <2>1. n - 1 \in 1 .. N - 1 /\ (n - 1) + 1 = n
      OBVIOUS
    <2>2. h[n - 1].at <= h[n].at
      BY <2>1
    <2> QED
      BY <1>1, <1>4, <2>1, <2>2
  <1>5. PICK m \in 0 .. N : M = 1 .. m /\ World!Cardinality(M) = m
    BY ONLY <1>3, <1>4, N \in Nat, NoGaps
  <1>6. \A n \in 1 .. N : h[n].at <= at <=> n <= m
    BY <1>1, <1>5
  <1> QED
    BY <1>2, <1>5, <1>6

(* The orders among facts. *)
OrdersIn(F) == {f \in F : f.type = "order_placed"}

(* An account's facts are in its window, in causal order, and labelled by its *)
(* A campaign action of the first day and hour (World!ActsEarly).            *)
IsEarly(ring, action) == ring # 0 /\ action < 1500

(* campaign only.                                                            *)
FactsAre(F, a, created, ring, action) ==
    /\ \A f \in F :
         /\ f.account = a /\ f.at \in Int /\ f.at <= World!End
         /\ created <= f.at \/ (IsEarly(ring, action) /\ f.at >= action - 5)
         /\ f.label # 0 => f.label = ring /\ f.at > action
    /\ AreCausal(F)

(* The identities of a fact are none, what its account started with, or its  *)
(* account's own.                                                            *)
IsOwn(f, a, initial) ==
    \A k \in World!Kind :
        f.refs[k] = None \/ f.refs[k] = initial[k] \/ \E j : f.refs[k] = <<a, j>>

(* What a history of N orders leaves. *)
IsHistory(F, a, created, initial, h, N) ==
    /\ \A ring, action : FactsAre(F, a, created, ring, action)
    /\ \A f \in F : f.label = 0 /\ IsOwn(f, a, initial)
    /\ OrdersIn(F) = {Placed(a, World!RefsOf(a, initial, h, n), n, h[n].at) : n \in 1 .. N}

(* What is emitted for an ordinary history is one.                            *)
LEMMA OrdinaryHistoryIs ==
    ASSUME NEW a, NEW created \in Nat, created < World!End - 10080, NEW initial, NEW h,
           NEW N \in Nat, IsOrdered(h, created, N)
    PROVE  IsHistory(World!EmitOrdinaryHistory(a, created, initial, h), a, created, initial, h, N)
  <1> DEFINE E(n) == OrdinaryEmission(a, initial, h, n)
             R(n) == World!RefsOf(a, initial, h, n)
             S == StartFacts(a, created, initial)
             F == World!EmitOrdinaryHistory(a, created, initial, h)
  <1>1. F = S \cup UNION {E(n) : n \in 1 .. N}
    BY HistoryEmitted DEF IsOrdered
  <1>2. ASSUME NEW n \in 1 .. N PROVE AreOfOrder(E(n), a, R(n), n, h[n].at, 0)
    <2> DEFINE at == h[n].at
               redeems == h[n].then = "promotion"
               refunds == h[n].then = "refund"
    <2>1. at \in Nat /\ at < World!End - 1440
      BY WindowIs DEF IsOrdered
    <2>2. redeems \in BOOLEAN /\ refunds \in BOOLEAN
      OBVIOUS
    <2>3. E(n) = Emission(a, R(n), n, at, 0, redeems, refunds)
      BY DEF OrdinaryEmission
    <2> HIDE DEF at, redeems, refunds, E, R
    <2>4. AreOfOrder(E(n), a, R(n), n, at, 0)
      BY ONLY <2>1, <2>2, <2>3, EmissionIs
    <2> QED
      BY <2>4 DEF at
  <1>3. ASSUME NEW n \in 1 .. N, NEW f \in E(n)
        PROVE  /\ f.account = a /\ f.refs = R(n) /\ f.at \in Nat /\ created <= f.at
               /\ f.at <= World!End /\ f.label = 0
               /\ f.type = "order_placed" => f = Placed(a, R(n), n, h[n].at)
    <2>1. /\ f.account = a /\ f.refs = R(n) /\ f.at \in Int /\ h[n].at <= f.at + 5
          /\ f.at <= World!End /\ f.label = 0
          /\ f.type = "order_placed" => f = Placed(a, R(n), n, h[n].at)
      <3> HIDE DEF E, R
      <3> QED
        BY <1>2 DEF AreOfOrder
    <2>2. h[n].at \in Nat /\ created + 60 <= h[n].at
      BY DEF IsOrdered
    <2> QED
      BY <2>1, <2>2
  <1>4. ASSUME NEW f \in S
        PROVE  /\ f.account = a /\ f.label = 0 /\ f.refs \in {World!NoRefs, initial}
               /\ f.at \in Nat /\ created <= f.at /\ f.at <= World!End
               /\ f.type \notin {"order_placed", "refund_requested", "refund_resolved"}
    BY StartIs
  <1>5. ASSUME NEW n \in 1 .. N
        PROVE  /\ AreCausal(E(n)) /\ Placed(a, R(n), n, h[n].at) \in E(n)
               /\ Placed(a, R(n), n, h[n].at).type = "order_placed"
    <2> HIDE DEF E, R
    <2> QED
      BY <1>2 DEF AreOfOrder, Placed, World!Fact
  <1>6. ASSUME NEW k \in World!Kind, NEW n
        PROVE  R(n)[k] = initial[k] \/ \E j : R(n)[k] = <<a, j>>
    BY RefsAre
  <1> HIDE DEF E, R, S
  <1>7. F \subseteq S \cup UNION {E(n) : n \in 1 .. N} /\ \A n \in 1 .. N : E(n) \subseteq F
    BY <1>1
  <1> HIDE DEF F
  <1>8. AreCausal(F)
    <2> SUFFICES ASSUME NEW f \in F
                 PROVE  /\ f.type = "refund_requested" =>
                             \E e \in F : /\ e.type = "order_placed" /\ e.account = f.account
                                          /\ e.order = f.order /\ e.at < f.at
                        /\ f.type = "refund_resolved" =>
                             \E e \in F : /\ e.type = "refund_requested"
                                          /\ e.account = f.account
                                          /\ e.order = f.order /\ e.at < f.at
      BY DEF AreCausal
    <2>1. CASE f \in S
      BY <1>4, <2>1
    <2>2. CASE \E n \in 1 .. N : f \in E(n)
      <3>1. PICK n \in 1 .. N : f \in E(n)
        BY <2>2
      <3>2. AreCausal(E(n)) /\ E(n) \subseteq F
        BY <1>5, <1>7
      <3> QED
        BY <3>1, <3>2 DEF AreCausal
    <2> QED
      BY <1>7, <2>1, <2>2
  <1>9. ASSUME NEW f \in F
        PROVE  /\ f.account = a /\ f.label = 0 /\ f.at \in Nat /\ created <= f.at
               /\ f.at <= World!End
    BY <1>3, <1>4, <1>7
  <1>10. ASSUME NEW f \in F PROVE IsOwn(f, a, initial)
    <2> SUFFICES ASSUME NEW k \in World!Kind
                 PROVE  f.refs[k] = None \/ f.refs[k] = initial[k] \/ \E j : f.refs[k] = <<a, j>>
      BY DEF IsOwn
    <2>1. CASE f \in S
      BY <1>4, <2>1 DEF World!NoRefs
    <2>2. CASE \E n \in 1 .. N : f \in E(n)
      BY <1>3, <1>6, <2>2
    <2> QED
      BY <1>7, <2>1, <2>2
  <1>11. OrdersIn(F) = {Placed(a, R(n), n, h[n].at) : n \in 1 .. N}
    <2>1. ASSUME NEW f \in OrdersIn(F) PROVE \E n \in 1 .. N : f = Placed(a, R(n), n, h[n].at)
      BY <1>3, <1>4, <1>7, <2>1 DEF OrdersIn
    <2>2. ASSUME NEW n \in 1 .. N PROVE Placed(a, R(n), n, h[n].at) \in OrdersIn(F)
      BY <1>5, <1>7 DEF OrdersIn
    <2> QED
      BY <2>1, <2>2
  <1>12. \A ring, action : FactsAre(F, a, created, ring, action)
    BY <1>8, <1>9 DEF FactsAre
  <1> QED
    BY <1>9, <1>10, <1>11, <1>12 DEF IsHistory, F, R

(* What ActionsContinue asks of the facts F of an account.                   *)
Continues(F, a) ==
    LET orders == OrdersIn(F)
        action == CHOOSE f \in orders : \A g \in orders : g.order <= f.order
        before == {f \in orders \ {action} : f.at <= action.at}
    IN  \A k \in World!Kind : action.refs[k][1] # 0 =>
          /\ before = {} => action.refs[k] = <<a, 0>>
          /\ \A f \in before :
               (\A g \in before : g.order <= f.order) => action.refs[k] = f.refs[k]

(* The facts of an account, of a ring or of none.                            *)
AccountIs(F, a, created, ring, action) ==
    /\ FactsAre(F, a, created, ring, action)
    /\ ring # 0 => Continues(F, a) /\ \E f \in F : f.label # 0
    /\ ring # 0 /\ ~IsEarly(ring, action) => created + 60 <= action

(* An order is placed with the identities in use at its time, the m-th's, or *)
(* with shared ones.                                                         *)
GoesOn(F, a, initial, h, N, refs, at, m) ==
    /\ OrdersIn(F) = {Placed(a, World!RefsOf(a, initial, h, n), n, h[n].at) : n \in 1 .. N}
                     \cup {Placed(a, refs, N + 1, at)}
    /\ m \in 0 .. N
    /\ \A n \in 1 .. N : h[n].at \in Nat /\ (h[n].at <= at <=> n <= m)
    /\ \A k \in World!Kind :
         /\ initial[k] = <<a, 0>>
         /\ refs[k][1] # 0 => refs[k] = World!RefsOf(a, initial, h, m)[k]

(* An action that goes on with the identities in use is what ActionsContinue *)
(* asks for.                                                                 *)
LEMMA ActionContinues ==
    ASSUME NEW F, NEW a, NEW initial, NEW h, NEW N \in Nat, NEW refs, NEW at \in Nat,
           NEW m, GoesOn(F, a, initial, h, N, refs, at, m)
    PROVE  Continues(F, a)
  <1> DEFINE R(n) == World!RefsOf(a, initial, h, n)
             P(n) == Placed(a, R(n), n, h[n].at)
             A == Placed(a, refs, N + 1, at)
             orders == OrdersIn(F)
             action == CHOOSE f \in orders : \A g \in orders : g.order <= f.order
             before == {f \in orders \ {action} : f.at <= action.at}
  <1>1. orders = {P(n) : n \in 1 .. N} \cup {A} /\ m \in 0 .. N
    BY DEF GoesOn
  <1>2. A.order = N + 1 /\ A.refs = refs /\ A.at = at
    BY DEF Placed, World!Fact
  <1>3. ASSUME NEW n PROVE P(n).order = n /\ P(n).refs = R(n) /\ P(n).at = h[n].at
    BY DEF Placed, World!Fact
  <1>4. ASSUME NEW k \in World!Kind PROVE R(0)[k] = <<a, 0>>
    BY RefsAre DEF GoesOn
  <1>5. ASSUME NEW k \in World!Kind, refs[k][1] # 0 PROVE refs[k] = R(m)[k]
    BY <1>5 DEF GoesOn
  <1>6. \A n \in 1 .. N : h[n].at \in Nat /\ (h[n].at <= at <=> n <= m)
    BY DEF GoesOn
  <1> HIDE DEF R, P, A, orders
  <1>7. A \in orders /\ \A g \in orders : g.order <= A.order
    BY <1>1, <1>2, <1>3
  <1>8. ASSUME NEW f \in orders, \A g \in orders : g.order <= f.order PROVE f = A
    <2>1. N + 1 <= f.order
      BY <1>2, <1>7, <1>8
    <2>2. \A n \in 1 .. N : f # P(n)
      BY <1>3, <2>1
    <2> QED
      BY <1>1, <2>2
  <1>9. action = A
    BY <1>7, <1>8
  <1> HIDE DEF action
  <1>10. ASSUME NEW f
        PROVE  f \in before <=> \E n \in 1 .. m : f = P(n)
    <2>1. ASSUME f \in before PROVE \E n \in 1 .. m : f = P(n)
      <3>1. f \in orders /\ f # A /\ f.at <= at
        BY <1>2, <1>9, <2>1
      <3>2. PICK n \in 1 .. N : f = P(n)
        BY <1>1, <3>1
      <3>3. n <= m
        BY <1>3, <1>6, <3>1, <3>2
      <3> QED
        BY <1>1, <3>2, <3>3
    <2>2. ASSUME NEW n \in 1 .. m, f = P(n) PROVE f \in before
      <3>1. n \in 1 .. N /\ h[n].at <= at
        BY <1>1, <1>6
      <3>2. f \in orders /\ f.at <= at /\ f.order # A.order
        BY <1>1, <1>2, <1>3, <2>2, <3>1
      <3> QED
        BY <1>2, <1>9, <3>2
    <2> QED
      BY <2>1, <2>2
  <1> HIDE DEF before
  <1>11. ASSUME NEW k \in World!Kind, action.refs[k][1] # 0
         PROVE  /\ before = {} => action.refs[k] = <<a, 0>>
                /\ \A f \in before :
                     (\A g \in before : g.order <= f.order) => action.refs[k] = f.refs[k]
    <2>1. action.refs[k] = R(m)[k]
      BY <1>2, <1>5, <1>9, <1>11
    <2>2. m # 0 => P(m) \in before
      BY <1>1, <1>10
    <2>3. before = {} => action.refs[k] = <<a, 0>>
      BY <1>4, <2>1, <2>2
    <2>4. ASSUME NEW f \in before, \A g \in before : g.order <= f.order
          PROVE  action.refs[k] = f.refs[k]
      <3>1. PICK n \in 1 .. m : f = P(n)
        BY <1>10
      <3>2. m # 0 /\ m <= n
        BY <1>1, <1>3, <2>2, <2>4, <3>1
      <3>3. n = m
        BY <1>1, <3>2
      <3> QED
        BY <1>3, <2>1, <3>1, <3>3
    <2> QED
      BY <2>3, <2>4
  <1> QED
    BY <1>11 DEF Continues, action, before, orders

(* A campaign action is an order with what its strategy abuses.              *)
LEMMA InjectIs ==
    ASSUME NEW refs, NEW n, NEW at, NEW redeems
    PROVE  World!InjectCampaignAction(refs, n, at, redeems)
             = Emission(World!Number, refs, n, at, group.id,
                        group.strategy \in {"promo", "mixed"} \/ redeems,
                        group.strategy \in {"refund", "mixed"})
  BY DEF World!InjectCampaignAction, Emission

(* From the campaign action on, an identity may be one the ring shares.      *)
IsCampaign(f, a, initial, at) ==
    /\ f.at >= at - 5
    /\ \A k \in World!Kind :
         f.refs[k] = <<0, group.id>> \/ f.refs[k] = initial[k] \/ \E j : f.refs[k] = <<a, j>>

(* What a member of a ring leaves.                                           *)
LEMMA MemberIs ==
    ASSUME NEW at \in World!CampaignActionTimestamp, NEW redeems \in BOOLEAN,
           NEW joined, NEW created \in World!CampaignAccountTimestamp(at), NEW most,
           NEW h \in World!Histories(created, most),
           group.id \in Nat \ {0}, group.strategy \in World!Strategy,
           NEW a, a = World!Number,
           NEW initial, initial = World!NewRefs({}),
           NEW refs, refs = World!CampaignRefs(World!RefsAtCutoff(a, initial, h, at - 5), joined),
           NEW F, F = World!EmitOrdinaryHistory(a, created, initial, h)
                      \cup World!InjectCampaignAction(refs, Len(h) + 1, at, redeems)
    PROVE  /\ AccountIs(F, a, created, group.id, at) /\ created \in Nat /\ at \in Nat
           /\ \A f \in F : IsOwn(f, a, initial) \/ IsCampaign(f, a, initial, at)
  <1>1. at \in Nat /\ at < World!End - 7200
    BY ActionIs, WindowIs
  <1>2. /\ created \in Nat /\ created < World!End - 10080
        /\ at >= 1500 => created < at - 60
    <2>1. at - 60 \in Int /\ created \in World!Timestamp(at - 60)
      BY <1>1, WindowIs DEF World!CampaignAccountTimestamp
    <2>2. /\ created \in Nat /\ created < World!End - 10080
          /\ at - 60 >= 1440 => created < at - 60
      BY ONLY <2>1, CreationIs
    <2> QED
      BY <1>1, <2>2
  <1>3. PICK N \in Nat : IsOrdered(h, created, N)
    BY ONLY <1>2, h \in World!Histories(created, most), HistoriesAre
  <1> DEFINE H == World!EmitOrdinaryHistory(a, created, initial, h)
             I == World!InjectCampaignAction(refs, Len(h) + 1, at, redeems)
             R(n) == World!RefsOf(a, initial, h, n)
  <1>4. IsHistory(H, a, created, initial, h, N)
    BY ONLY <1>2, <1>3, OrdinaryHistoryIs
  <1>5. PICK m \in 0 .. N :
             /\ \A n \in 1 .. N : h[n].at <= at <=> n <= m
             /\ World!RefsAtCutoff(a, initial, h, at - 5) = R(m)
    <2>1. \A n \in 1 .. N : h[n].at \in Nat
      BY <1>3 DEF IsOrdered
    <2>2. DOMAIN h = 1 .. N /\ N \in Nat /\ at \in Nat
          /\ \A n \in 1 .. N - 1 : h[n].at <= h[n + 1].at
      BY <1>1, <1>3 DEF IsOrdered
    <2> QED
      BY ONLY <2>1, <2>2, CutoffIs
  <1>6. ASSUME NEW k \in World!Kind
        PROVE  refs[k] = <<0, group.id>> \/ refs[k] = R(m)[k]
    BY <1>5 DEF World!CampaignRefs
  <1>7. ASSUME NEW k \in World!Kind PROVE initial[k] = <<a, 0>>
    BY DEF World!NewRefs
  <1>8. ASSUME NEW k \in World!Kind
        PROVE  R(m)[k] = initial[k] \/ \E j : R(m)[k] = <<a, j>>
    BY RefsAre
  <1>9. /\ AreOfOrder(I, a, refs, N + 1, at, group.id)
        /\ \E f \in I : f.label # 0
    <2> DEFINE redeemed == group.strategy \in {"promo", "mixed"} \/ redeems
               refunded == group.strategy \in {"refund", "mixed"}
    <2>1. I = Emission(a, refs, N + 1, at, group.id, redeemed, refunded)
      BY <1>3, InjectIs DEF IsOrdered
    <2>2. redeemed \in BOOLEAN /\ refunded \in BOOLEAN /\ (redeemed \/ refunded)
      BY DEF World!Strategy
    <2>3. at \in Nat /\ at < World!End - 1440
      BY <1>1, WindowIs
    <2> HIDE DEF redeemed, refunded, I
    <2>4. /\ AreOfOrder(I, a, refs, N + 1, at, group.id)
          /\ group.id # 0 /\ (redeemed \/ refunded) => \E f \in I : f.label # 0
      BY ONLY <2>1, <2>2, <2>3, EmissionIs
    <2> QED
      BY <2>2, <2>4
  <1>10. F = H \cup I
    OBVIOUS
  <1> HIDE DEF H, I, R
  <1>11. ASSUME NEW f \in I
         PROVE  /\ f.account = a /\ f.refs = refs /\ f.at \in Int /\ at <= f.at + 5
                /\ f.at <= World!End /\ (f.label # 0 => f.label = group.id /\ f.at > at)
                /\ f.type = "order_placed" => f = Placed(a, refs, N + 1, at)
    BY <1>9 DEF AreOfOrder
  <1>12. FactsAre(F, a, created, group.id, at)
    <2>1. /\ AreCausal(H)
          /\ \A f \in H : /\ f.account = a /\ f.at \in Int /\ created <= f.at
                          /\ f.at <= World!End /\ f.label = 0
      <3>1. FactsAre(H, a, created, 0, 0)
        BY <1>4 DEF IsHistory
      <3> QED
        BY <1>4, <3>1 DEF IsHistory, FactsAre, IsEarly
    <2>2. AreCausal(I)
      BY <1>9 DEF AreOfOrder
    <2>3. AreCausal(F)
      BY <1>10, <2>1, <2>2 DEF AreCausal
    <2>4. ASSUME NEW f \in I
          PROVE  created <= f.at \/ (IsEarly(group.id, at) /\ f.at >= at - 5)
      BY <1>1, <1>2, <1>11 DEF IsEarly
    <2> QED
      BY <1>10, <1>11, <2>1, <2>3, <2>4 DEF FactsAre
  <1>13. Continues(F, a)
    <2>1. Placed(a, refs, N + 1, at) \in OrdersIn(I)
      BY <1>9 DEF AreOfOrder, OrdersIn, Placed, World!Fact
    <2>2. OrdersIn(I) = {Placed(a, refs, N + 1, at)}
      BY <1>11, <2>1 DEF OrdersIn
    <2>3. OrdersIn(F) = OrdersIn(H) \cup OrdersIn(I)
      BY <1>10 DEF OrdersIn
    <2>4. OrdersIn(F) = {Placed(a, World!RefsOf(a, initial, h, n), n, h[n].at) : n \in 1 .. N}
                        \cup {Placed(a, refs, N + 1, at)}
      BY <1>4, <2>2, <2>3 DEF IsHistory
    <2>5. ASSUME NEW k \in World!Kind
          PROVE  /\ initial[k] = <<a, 0>>
                 /\ refs[k][1] # 0 => refs[k] = World!RefsOf(a, initial, h, m)[k]
      BY <1>6, <1>7 DEF R
    <2>6. \A n \in 1 .. N : h[n].at \in Nat /\ (h[n].at <= at <=> n <= m)
      BY <1>3, <1>5 DEF IsOrdered
    <2>7. GoesOn(F, a, initial, h, N, refs, at, m)
      BY <2>4, <2>5, <2>6 DEF GoesOn
    <2> QED
      BY ONLY <1>1, <2>7, N \in Nat, ActionContinues
  <1>14. ASSUME NEW f \in F
         PROVE  IsOwn(f, a, initial) \/ IsCampaign(f, a, initial, at)
    <2>1. CASE f \in H
      BY <1>4, <2>1 DEF IsHistory
    <2>2. CASE f \in I
      <3>1. f.at >= at - 5 /\ f.refs = refs
        BY <1>1, <1>11, <2>2
      <3> QED
        BY <1>6, <1>8, <3>1 DEF IsCampaign
    <2> QED
      BY <1>10, <2>1, <2>2
  <1>15. ~IsEarly(group.id, at) => created + 60 <= at
    BY <1>1, <1>2 DEF IsEarly
  <1> QED
    BY <1>1, <1>2, <1>9, <1>10, <1>12, <1>13, <1>14, <1>15 DEF AccountIs

(* An identity is not None. *)
NothingIsShared == \A g \in Nat : <<0, g>> # None

(* The facts of an account. *)
FactsOf(b) == {f \in facts : f.account = b}

(* What a ring's members share is known as the ring's, and seen with them from *)
(* their actions on; what a context shares is no ring's.                       *)
SharesAreOf(f) ==
    \A k \in World!Kind, g \in Nat \ {0} : f.refs[k] = <<0, g>> =>
        /\ g <= group.id
        /\ \/ /\ accounts[f.account].ring = g
              /\ f.at >= accounts[f.account].action - 5
           \/ /\ g # group.id \/ group.kind # "ring"
              /\ \A b \in DOMAIN accounts : accounts[b].ring # g

(* The generated world so far. *)
WorldConsistent ==
    /\ accounts \in Seq([created : Nat, ring : Nat, action : Nat])
    /\ group.id \in Nat
    /\ group.kind # "none" => group.id # 0
    /\ group.kind = "ring" => group.strategy \in World!Strategy
    /\ \A b \in DOMAIN accounts :
         /\ accounts[b].ring <= group.id
         /\ accounts[b].ring = group.id /\ group.id # 0 => group.kind = "ring"
         /\ AccountIs(FactsOf(b), b, accounts[b].created, accounts[b].ring, accounts[b].action)
    /\ \A f \in facts : f.account \in DOMAIN accounts /\ SharesAreOf(f)

(* An account that can be enrolled: a member of the ring, or of no ring.     *)
CanEnroll(account, F) ==
    /\ account \in [created : Nat, ring : Nat, action : Nat]
    /\ account.ring # 0 => account.ring = group.id /\ group.kind = "ring"
    /\ AccountIs(F, World!Number, account.created, account.ring, account.action)
    /\ \A f \in F : \A k \in World!Kind, g \in Nat \ {0} : f.refs[k] = <<0, g>> =>
         /\ g = group.id
         /\ (account.ring = g /\ f.at >= account.action - 5) \/ group.kind # "ring"

(* Enrolling such an account keeps the world consistent.                      *)
LEMMA EnrollStep ==
    ASSUME WorldConsistent, NEW account, NEW F, CanEnroll(account, F),
           World!Enroll(account, F),
           group'.id = group.id, group'.kind = group.kind, group'.strategy = group.strategy
    PROVE  WorldConsistent'
  <1> DEFINE T == [created : Nat, ring : Nat, action : Nat]
             n == Len(accounts) + 1
  <1>1. accounts \in Seq(T) /\ account \in T
    BY DEF WorldConsistent, CanEnroll
  <1>2. accounts' = Append(accounts, account) /\ facts' = facts \cup F
    BY DEF World!Enroll
  <1>3. /\ accounts' \in Seq(T) /\ DOMAIN accounts = 1 .. Len(accounts)
        /\ DOMAIN accounts' = 1 .. n /\ accounts'[n] = account
        /\ \A b \in DOMAIN accounts : accounts'[b] = accounts[b] /\ b # n
        /\ Len(accounts) \in Nat
    <2> HIDE DEF T
    <2> QED
      BY <1>1, <1>2
  <1>4. DOMAIN accounts' = DOMAIN accounts \cup {n}
    BY <1>3
  <1>5. World!Number = n
    BY DEF World!Number
  <1> HIDE DEF n
  <1>6. /\ \A f \in F : f.account = n
        /\ \A f \in facts : f.account \in DOMAIN accounts
    BY <1>5 DEF CanEnroll, AccountIs, FactsAre, WorldConsistent
  <1>7. ASSUME NEW b \in DOMAIN accounts'
        PROVE  FactsOf(b)' = IF b = n THEN F ELSE FactsOf(b)
    <2>1. n \notin DOMAIN accounts
      BY <1>3
    <2>2. FactsOf(b)' = {f \in facts \cup F : f.account = b}
      BY <1>2 DEF FactsOf
    <2>3. CASE b = n
      BY <1>6, <2>1, <2>2, <2>3
    <2>4. CASE b # n
      BY <1>6, <2>2, <2>4 DEF FactsOf
    <2> QED
      BY <2>3, <2>4
  <1>8. ASSUME NEW b \in DOMAIN accounts'
        PROVE  /\ accounts'[b].ring <= group'.id
               /\ accounts'[b].ring = group'.id /\ group'.id # 0 => group'.kind = "ring"
               /\ AccountIs(FactsOf(b), b, accounts[b].created, accounts[b].ring,
                            accounts[b].action)'
    <2>1. CASE b = n
      <3>1. /\ FactsOf(b)' = F /\ accounts'[b].created = account.created
            /\ accounts'[b].ring = account.ring /\ accounts'[b].action = account.action
        BY <1>3, <1>7, <2>1
      <3>2. AccountIs(F, n, account.created, account.ring, account.action)
        BY <1>5 DEF CanEnroll
      <3>3. AccountIs(FactsOf(b)', b, accounts'[b].created, accounts'[b].ring,
                      accounts'[b].action)
        BY <2>1, <3>1, <3>2
      <3>4. account.ring \in Nat /\ group.id \in Nat
        BY <1>1 DEF WorldConsistent
      <3>5. account.ring <= group.id /\ (account.ring # 0 => group.kind = "ring")
        BY <3>4 DEF CanEnroll
      <3> QED
        BY <3>1, <3>3, <3>5
    <2>2. CASE b \in DOMAIN accounts
      <3>1. FactsOf(b)' = FactsOf(b) /\ accounts'[b] = accounts[b]
        BY <1>3, <1>7, <2>2
      <3>2. AccountIs(FactsOf(b), b, accounts[b].created, accounts[b].ring,
                      accounts[b].action)
        BY <2>2 DEF WorldConsistent
      <3>3. AccountIs(FactsOf(b)', b, accounts'[b].created, accounts'[b].ring,
                      accounts'[b].action)
        BY <3>1, <3>2
      <3> QED
        BY <2>2, <3>1, <3>3 DEF WorldConsistent
    <2> QED
      BY <1>4, <2>1, <2>2
  <1>9. ASSUME NEW f \in facts' PROVE f.account \in DOMAIN accounts' /\ SharesAreOf(f)'
    <2>1. f.account \in DOMAIN accounts'
      BY <1>2, <1>4, <1>6
    <2> SUFFICES ASSUME NEW k \in World!Kind, NEW g \in Nat \ {0}, f.refs[k] = <<0, g>>
                 PROVE  /\ g <= group'.id
                        /\ \/ /\ accounts'[f.account].ring = g
                              /\ f.at >= accounts'[f.account].action - 5
                           \/ /\ g # group'.id \/ group'.kind # "ring"
                              /\ \A b \in DOMAIN accounts' : accounts'[b].ring # g
      BY <2>1 DEF SharesAreOf
    <2>2. group.id \in Nat
      BY DEF WorldConsistent
    <2>3. group.kind # "ring" => account.ring = 0
      BY DEF CanEnroll
    <2>4. account.ring = 0 \/ (account.ring = group.id /\ group.kind = "ring")
      BY DEF CanEnroll
    <2>5. CASE f \in facts
      <3>1. SharesAreOf(f) /\ f.account \in DOMAIN accounts
        BY <2>5 DEF WorldConsistent
      <3>2. accounts'[f.account] = accounts[f.account]
        BY <1>3, <3>1
      <3>3. g <= group.id
        BY <3>1 DEF SharesAreOf
      <3>4. CASE /\ accounts[f.account].ring = g
                 /\ f.at >= accounts[f.account].action - 5
        BY <3>2, <3>3, <3>4
      <3>5. CASE /\ g # group.id \/ group.kind # "ring"
                 /\ \A b \in DOMAIN accounts : accounts[b].ring # g
        <4>1. account.ring # g
          BY <2>4, <3>5
        <4> QED
          BY <1>3, <1>4, <3>3, <3>5, <4>1
      <3> QED
        BY <3>1, <3>4, <3>5 DEF SharesAreOf
    <2>6. CASE f \in F
      <3>1. /\ g = group.id
            /\ (account.ring = g /\ f.at >= account.action - 5) \/ group.kind # "ring"
        BY <2>6 DEF CanEnroll
      <3>2. CASE account.ring = g /\ f.at >= account.action - 5
        BY <1>3, <1>6, <2>2, <2>6, <3>1, <3>2
      <3>3. CASE group.kind # "ring"
        <4>1. \A b \in DOMAIN accounts : accounts[b].ring # g
          BY <3>1, <3>3 DEF WorldConsistent
        <4>2. account.ring # g
          BY <2>3, <3>3
        <4>3. \A b \in DOMAIN accounts' : accounts'[b].ring # g
          BY <1>3, <1>4, <4>1, <4>2
        <4>4. group'.kind # "ring" /\ g <= group'.id
          BY <2>2, <3>1, <3>3
        <4> QED
          BY <4>3, <4>4
      <3> QED
        BY <3>1, <3>2, <3>3
    <2> QED
      BY <1>2, <2>5, <2>6
  <1>10. /\ group'.id \in Nat /\ (group'.kind # "none" => group'.id # 0)
         /\ (group'.kind = "ring" => group'.strategy \in World!Strategy)
    BY DEF WorldConsistent
  <1> QED
    BY <1>3, <1>8, <1>9, <1>10 DEF WorldConsistent

(* Which identities an account's own fact can share with a group. *)
LEMMA OwnIs ==
    ASSUME NothingIsShared, NEW f, NEW a \in Nat \ {0}, NEW initial, IsOwn(f, a, initial),
           NEW k \in World!Kind, NEW g \in Nat \ {0}, f.refs[k] = <<0, g>>
    PROVE  initial[k] = <<0, g>>
  <1>1. f.refs[k] # None
    BY DEF NothingIsShared
  <1>2. \A j : f.refs[k] # <<a, j>>
    OBVIOUS
  <1> QED
    BY <1>1, <1>2 DEF IsOwn

(* Accounts are numbered from 1 on.                                           *)
LEMMA NumberIs ==
    ASSUME WorldConsistent
    PROVE  World!Number \in Nat \ {0}
  <1>1. accounts \in Seq([created : Nat, ring : Nat, action : Nat])
    BY DEF WorldConsistent
  <1> QED
    BY <1>1 DEF World!Number

(* An ordinary account keeps the world consistent. *)
LEMMA OrdinaryStep ==
    ASSUME WorldConsistent, NothingIsShared, NEW created \in World!Timestamp(World!End),
           NEW most, NEW h \in World!Histories(created, most), NEW shared,
           World!Ordinary(created, shared, h), shared = {} \/ group.kind # "ring",
           group'.id = group.id, group'.kind = group.kind, group'.strategy = group.strategy
    PROVE  WorldConsistent'
  <1> DEFINE a == World!Number
             initial == World!NewRefs(shared)
             F == World!EmitOrdinaryHistory(a, created, initial, h)
             account == [created |-> created, ring |-> 0, action |-> 0]
  <1>1. created \in Nat /\ created < World!End - 10080
    <2>1. World!End \in Nat /\ World!End >= 1440
      BY WindowIs
    <2> QED
      BY <2>1, CreationIs
  <1>2. PICK N \in Nat : IsOrdered(h, created, N)
    BY ONLY <1>1, h \in World!Histories(created, most), HistoriesAre
  <1>3. IsHistory(F, a, created, initial, h, N)
    BY ONLY <1>1, <1>2, OrdinaryHistoryIs
  <1>4. a \in Nat \ {0}
    BY NumberIs
  <1>5. World!Enroll(account, F)
    BY DEF World!Ordinary
  <1>6. ASSUME NEW k \in World!Kind, NEW g \in Nat \ {0}, initial[k] = <<0, g>>
        PROVE  g = group.id /\ group.kind # "ring"
    BY <1>4, <1>6 DEF World!NewRefs
  <1> HIDE DEF F, initial, a
  <1>7. ASSUME NEW f \in F, NEW k \in World!Kind, NEW g \in Nat \ {0}, f.refs[k] = <<0, g>>
        PROVE  g = group.id /\ group.kind # "ring"
    <2>1. IsOwn(f, a, initial)
      BY <1>3 DEF IsHistory
    <2>2. initial[k] = <<0, g>>
      BY ONLY <1>4, <1>7, <2>1, NothingIsShared, OwnIs
    <2> QED
      BY <1>6, <2>2
  <1>8. AccountIs(F, a, created, 0, 0)
    BY <1>3 DEF AccountIs, IsHistory
  <1>9. CanEnroll(account, F)
    BY <1>1, <1>7, <1>8 DEF CanEnroll, a
  <1> QED
    BY <1>5, <1>9, EnrollStep

(* A member of a ring keeps the world consistent. *)
LEMMA RingMemberStep ==
    ASSUME WorldConsistent, NothingIsShared, World!CreateRingMember
    PROVE  WorldConsistent'
  <1>1. PICK at \in World!CampaignActionTimestamp, redeems \in BOOLEAN,
             joined \in SUBSET group.shared :
             \E created \in World!CampaignAccountTimestamp(at) :
               \E h \in World!Histories(created, World!OrdersLeft) :
                 LET initial == World!NewRefs({})
                     current == World!RefsAtCutoff(World!Number, initial, h, at - 5)
                 IN  World!Enroll([created |-> created, ring |-> group.id, action |-> at],
                        World!EmitOrdinaryHistory(World!Number, created, initial, h)
                        \cup World!InjectCampaignAction(World!CampaignRefs(current, joined),
                                                        Len(h) + 1, at, redeems))
    BY DEF World!CreateRingMember
  <1>2. PICK created \in World!CampaignAccountTimestamp(at) :
               \E h \in World!Histories(created, World!OrdersLeft) :
                 LET initial == World!NewRefs({})
                     current == World!RefsAtCutoff(World!Number, initial, h, at - 5)
                 IN  World!Enroll([created |-> created, ring |-> group.id, action |-> at],
                        World!EmitOrdinaryHistory(World!Number, created, initial, h)
                        \cup World!InjectCampaignAction(World!CampaignRefs(current, joined),
                                                        Len(h) + 1, at, redeems))
    BY <1>1
  <1>3. PICK h \in World!Histories(created, World!OrdersLeft) :
                 LET initial == World!NewRefs({})
                     current == World!RefsAtCutoff(World!Number, initial, h, at - 5)
                 IN  World!Enroll([created |-> created, ring |-> group.id, action |-> at],
                        World!EmitOrdinaryHistory(World!Number, created, initial, h)
                        \cup World!InjectCampaignAction(World!CampaignRefs(current, joined),
                                                        Len(h) + 1, at, redeems))
    BY <1>2
  <1> DEFINE a == World!Number
             initial == World!NewRefs({})
             refs == World!CampaignRefs(World!RefsAtCutoff(a, initial, h, at - 5), joined)
             F == World!EmitOrdinaryHistory(a, created, initial, h)
                  \cup World!InjectCampaignAction(refs, Len(h) + 1, at, redeems)
             account == [created |-> created, ring |-> group.id, action |-> at]
  <1>4. World!Enroll(account, F)
    BY <1>3
  <1>5. /\ group.kind = "ring" /\ group' = [group EXCEPT !.members = @ + 1]
        /\ group.id \in Nat \ {0} /\ group.strategy \in World!Strategy
    BY DEF World!CreateRingMember, WorldConsistent
  <1>6. /\ AccountIs(F, a, created, group.id, at) /\ created \in Nat /\ at \in Nat
        /\ \A f \in F : IsOwn(f, a, initial) \/ IsCampaign(f, a, initial, at)
    <2>1. a = World!Number /\ initial = World!NewRefs({})
          /\ refs = World!CampaignRefs(World!RefsAtCutoff(a, initial, h, at - 5), joined)
          /\ F = World!EmitOrdinaryHistory(a, created, initial, h)
                 \cup World!InjectCampaignAction(refs, Len(h) + 1, at, redeems)
      OBVIOUS
    <2>2. /\ at \in World!CampaignActionTimestamp /\ redeems \in BOOLEAN
          /\ created \in World!CampaignAccountTimestamp(at)
          /\ h \in World!Histories(created, World!OrdersLeft)
      OBVIOUS
    <2> HIDE DEF a, initial, refs, F
    <2> QED
      BY ONLY <1>5, <2>1, <2>2, MemberIs
  <1>7. a \in Nat \ {0}
    BY NumberIs
  <1>8. ASSUME NEW k \in World!Kind PROVE initial[k] = <<a, 0>>
    BY DEF World!NewRefs
  <1> HIDE DEF F, initial, refs, a
  <1>9. ASSUME NEW f \in F, NEW k \in World!Kind, NEW g \in Nat \ {0}, f.refs[k] = <<0, g>>
        PROVE  g = group.id /\ f.at >= at - 5
    <2>1. initial[k] # <<0, g>>
      BY <1>7, <1>8
    <2>2. CASE IsOwn(f, a, initial)
      <3>1. initial[k] = <<0, g>>
        BY ONLY <1>7, <1>9, <2>2, NothingIsShared, OwnIs
      <3> QED
        BY <2>1, <3>1
    <2>3. CASE IsCampaign(f, a, initial, at)
      <3>1. \A j : <<a, j>> # <<0, g>>
        BY <1>7
      <3>2. <<0, g>> = <<0, group.id>> => g = group.id
        OBVIOUS
      <3> QED
        BY <1>9, <2>1, <2>3, <3>1, <3>2 DEF IsCampaign
    <2> QED
      BY <1>6, <2>2, <2>3
  <1>10. CanEnroll(account, F)
    BY <1>5, <1>6, <1>9 DEF CanEnroll, a
  <1>11. group'.id = group.id /\ group'.kind = group.kind /\ group'.strategy = group.strategy
    BY <1>5
  <1> QED
    BY <1>4, <1>10, <1>11, EnrollStep

(* A new context or ring keeps the world consistent. *)
LEMMA BeginStep ==
    ASSUME WorldConsistent, NEW kind, NEW strategy, NEW shared,
           World!Begin(kind, strategy, shared), kind = "ring" => strategy \in World!Strategy
    PROVE  WorldConsistent'
  <1>1. group'.id = group.id + 1 /\ group'.kind = kind /\ group'.strategy = strategy
    BY DEF World!Begin
  <1>2. accounts' = accounts /\ facts' = facts /\ group.id \in Nat
    BY DEF World!Begin, WorldConsistent
  <1>3. accounts \in Seq([created : Nat, ring : Nat, action : Nat])
    BY DEF WorldConsistent
  <1>4. ASSUME NEW b \in DOMAIN accounts
        PROVE  /\ accounts[b].ring \in Nat /\ accounts[b].ring <= group.id
               /\ accounts[b].ring < group'.id
               /\ AccountIs(FactsOf(b)', b, accounts'[b].created, accounts'[b].ring,
                            accounts'[b].action)
    <2> DEFINE T == [created : Nat, ring : Nat, action : Nat]
    <2>1. accounts[b].ring \in Nat
      <3>1. accounts \in Seq(T)
        BY <1>3
      <3> HIDE DEF T
      <3>2. accounts[b] \in T
        BY <3>1
      <3> QED
        BY <3>2 DEF T
    <2>2. FactsOf(b)' = FactsOf(b)
      BY <1>2 DEF FactsOf
    <2> QED
      BY <1>1, <1>2, <2>1, <2>2 DEF WorldConsistent
  <1>5. ASSUME NEW f \in facts PROVE f.account \in DOMAIN accounts /\ SharesAreOf(f)'
    <2>1. f.account \in DOMAIN accounts /\ SharesAreOf(f)
      BY DEF WorldConsistent
    <2> SUFFICES ASSUME NEW k \in World!Kind, NEW g \in Nat \ {0}, f.refs[k] = <<0, g>>
                 PROVE  /\ g <= group'.id
                        /\ \/ /\ accounts'[f.account].ring = g
                              /\ f.at >= accounts'[f.account].action - 5
                           \/ /\ g # group'.id \/ group'.kind # "ring"
                              /\ \A b \in DOMAIN accounts' : accounts'[b].ring # g
      BY <2>1 DEF SharesAreOf
    <2>2. g <= group.id
      BY <2>1 DEF SharesAreOf
    <2>3. g <= group'.id /\ g # group'.id
      BY <1>1, <1>2, <2>2
    <2>4. \/ /\ accounts[f.account].ring = g
             /\ f.at >= accounts[f.account].action - 5
          \/ \A b \in DOMAIN accounts : accounts[b].ring # g
      BY <2>1 DEF SharesAreOf
    <2> QED
      BY <1>2, <2>3, <2>4
  <1>6. /\ group'.id \in Nat /\ group'.id # 0
        /\ group'.kind = "ring" => group'.strategy \in World!Strategy
    BY <1>1, <1>2
  <1> QED
    BY <1>1, <1>2, <1>3, <1>4, <1>5, <1>6 DEF WorldConsistent

(* Every step of the generator keeps the world consistent. *)
LEMMA WorldStep ==
    ASSUME WorldConsistent, NothingIsShared, World!Next
    PROVE  WorldConsistent'
  <1>1. CASE World!CreateIndependentCustomer
    <2>1. PICK created \in World!Timestamp(World!End) :
               \E h \in World!Histories(created, World!OrdersLeft) :
                  World!Ordinary(created, {}, h)
      BY <1>1 DEF World!CreateIndependentCustomer
    <2>2. PICK h \in World!Histories(created, World!OrdersLeft) :
               World!Ordinary(created, {}, h)
      BY <2>1
    <2>3. group' = group
      BY <1>1 DEF World!CreateIndependentCustomer
    <2> QED
      BY <2>2, <2>3, OrdinaryStep
  <1>2. CASE World!CreateContextMember
    <2>1. group.kind # "ring"
      BY <1>2 DEF World!CreateContextMember, World!ContextPlans
    <2>2. PICK created \in World!Timestamp(World!End), more \in SUBSET {"device", "payment"} :
               \E h \in World!Histories(created, World!OrdersLeft) :
                  World!Ordinary(created, group.shared \cup more, h)
      BY <1>2 DEF World!CreateContextMember
    <2>3. PICK h \in World!Histories(created, World!OrdersLeft) :
               World!Ordinary(created, group.shared \cup more, h)
      BY <2>2
    <2>4. group' = [group EXCEPT !.members = @ + 1]
      BY <1>2 DEF World!CreateContextMember
    <2>5. group'.id = group.id /\ group'.kind = group.kind /\ group'.strategy = group.strategy
      BY <2>4
    <2> QED
      BY <2>1, <2>3, <2>5, OrdinaryStep
  <1>3. CASE World!CreateRingMember
    BY <1>3, RingMemberStep
  <1>4. CASE World!BeginContext
    <2>1. PICK kind \in DOMAIN World!ContextPlans :
               World!Begin(kind, None, World!ContextPlans[kind])
      BY <1>4 DEF World!BeginContext
    <2>2. kind # "ring"
      BY DEF World!ContextPlans
    <2> QED
      BY <2>1, <2>2, BeginStep
  <1>5. CASE World!BeginRing
    <2>1. PICK strategy \in World!Strategy, selected \in Selections :
               World!Begin("ring", strategy, IF selected = {} THEN {"payment"} ELSE selected)
      BY <1>5 DEF World!BeginRing
    <2> QED
      BY <2>1, BeginStep
  <1> QED
    BY <1>1, <1>2, <1>3, <1>4, <1>5 DEF World!Next

(* The facts of a consistent world happen in the order of their times. *)
LEMMA WorldIsCausal ==
    ASSUME WorldConsistent
    PROVE  World!HistoriesAreCausal /\ World!LabelsAreOfCampaigns
  <1>1. ASSUME NEW b \in DOMAIN accounts
        PROVE  /\ FactsAre(FactsOf(b), b, accounts[b].created, accounts[b].ring,
                           accounts[b].action)
               /\ accounts[b].ring # 0 => \E f \in FactsOf(b) : f.label # 0
    BY DEF WorldConsistent, AccountIs
  <1>2. ASSUME NEW f \in facts
        PROVE  /\ f.account \in DOMAIN accounts /\ f \in FactsOf(f.account)
               /\ FactsOf(f.account) \subseteq facts
    BY DEF WorldConsistent, FactsOf
  <1>3. ASSUME NEW b \in DOMAIN accounts PROVE accounts[b].created \in Nat
    <2> DEFINE T == [created : Nat, ring : Nat, action : Nat]
    <2>1. accounts \in Seq(T)
      BY DEF WorldConsistent
    <2> HIDE DEF T
    <2>2. accounts[b] \in T
      BY <2>1
    <2> QED
      BY <2>2 DEF T
  <1>4. ASSUME NEW f \in facts
        PROVE  /\ f.at <= World!End
               /\ f.at < accounts[f.account].created =>
                    World!ActsEarly(f.account) /\ f.at >= accounts[f.account].action - 5
               /\ f.type = "refund_requested" =>
                    \E e \in facts : /\ e.type = "order_placed" /\ e.account = f.account
                                     /\ e.order = f.order /\ e.at < f.at
               /\ f.type = "refund_resolved" =>
                    \E e \in facts : /\ e.type = "refund_requested" /\ e.account = f.account
                                     /\ e.order = f.order /\ e.at < f.at
               /\ f.label # 0 => /\ f.label = accounts[f.account].ring
                                 /\ f.at > accounts[f.account].action
    <2> DEFINE b == f.account
    <2>1. b \in DOMAIN accounts /\ f \in FactsOf(b) /\ FactsOf(b) \subseteq facts
      BY <1>2
    <2>2. FactsAre(FactsOf(b), b, accounts[b].created, accounts[b].ring, accounts[b].action)
      BY <1>1, <2>1
    <2>3. AreCausal(FactsOf(b))
      BY <2>2 DEF FactsAre
    <2>4. /\ f.at \in Int /\ f.at <= World!End
          /\ \/ accounts[b].created <= f.at
             \/ /\ IsEarly(accounts[b].ring, accounts[b].action)
                /\ f.at >= accounts[b].action - 5
          /\ f.label # 0 => f.label = accounts[b].ring /\ f.at > accounts[b].action
      BY <2>1, <2>2 DEF FactsAre
    <2>5. f.at < accounts[b].created => ~(accounts[b].created <= f.at)
      <3>1. accounts[b].created \in Nat
        BY <1>3, <2>1
      <3> QED
        BY <2>4, <3>1
    <2>6. IsEarly(accounts[b].ring, accounts[b].action) => World!ActsEarly(b)
      BY WindowIs DEF IsEarly, World!ActsEarly
    <2>7. /\ f.type = "refund_requested" =>
               \E e \in FactsOf(b) : /\ e.type = "order_placed" /\ e.account = f.account
                                     /\ e.order = f.order /\ e.at < f.at
          /\ f.type = "refund_resolved" =>
               \E e \in FactsOf(b) : /\ e.type = "refund_requested"
                                     /\ e.account = f.account
                                     /\ e.order = f.order /\ e.at < f.at
      BY <2>1, <2>3 DEF AreCausal
    <2> HIDE DEF FactsOf
    <2> QED
      BY <2>1, <2>4, <2>5, <2>6, <2>7
  <1>5. ASSUME NEW b \in DOMAIN accounts, accounts[b].ring # 0
        PROVE  \E f \in facts : f.account = b /\ f.label # 0
    BY <1>1, <1>5 DEF FactsOf
  <1>6. ASSUME NEW b \in DOMAIN accounts, accounts[b].ring # 0, ~World!ActsEarly(b)
        PROVE  accounts[b].created + World!Hour <= accounts[b].action
    <2>1. ~IsEarly(accounts[b].ring, accounts[b].action)
      BY <1>6, WindowIs DEF IsEarly, World!ActsEarly
    <2>2. accounts[b].created + 60 <= accounts[b].action
      BY <1>6, <2>1 DEF WorldConsistent, AccountIs
    <2> QED
      BY <2>2, WindowIs
  <1> QED
    BY <1>4, <1>5, <1>6 DEF World!HistoriesAreCausal, World!LabelsAreOfCampaigns

(* Its campaign identities are seen with their rings only, from the actions on. *)
LEMMA WorldSharesNew ==
    ASSUME WorldConsistent
    PROVE  World!CampaignIdentitiesAreNew
  <1> SUFFICES ASSUME NEW a \in DOMAIN accounts, accounts[a].ring # 0, NEW f \in facts,
                      NEW k \in World!Kind, f.refs[k] = <<0, accounts[a].ring>>
               PROVE  /\ accounts[f.account].ring = accounts[a].ring
                      /\ f.at >= accounts[f.account].action - 5
    BY DEF World!CampaignIdentitiesAreNew
  <1>1. accounts[a].ring \in Nat \ {0}
    <2> DEFINE T == [created : Nat, ring : Nat, action : Nat]
    <2>1. accounts \in Seq(T)
      BY DEF WorldConsistent
    <2> HIDE DEF T
    <2>2. accounts[a] \in T
      BY <2>1
    <2> QED
      BY <2>2 DEF T
  <1>2. SharesAreOf(f)
    BY DEF WorldConsistent
  <1> QED
    BY <1>1, <1>2 DEF SharesAreOf

(* Its actions go on with the identities in use. *)
LEMMA WorldContinues ==
    ASSUME WorldConsistent
    PROVE  World!ActionsContinue
  <1>1. ASSUME NEW a \in DOMAIN accounts, accounts[a].ring # 0
        PROVE  Continues(FactsOf(a), a)
    BY <1>1 DEF WorldConsistent, AccountIs
  <1>2. ASSUME NEW a
        PROVE  {f \in facts : f.type = "order_placed" /\ f.account = a} = OrdersIn(FactsOf(a))
    BY DEF OrdersIn, FactsOf
  <1> HIDE DEF FactsOf
  <1> QED
    BY <1>1, <1>2 DEF World!ActionsContinue, Continues

(* The generator starts with an empty world. *)
LEMMA WorldStarts == World!Init => WorldConsistent
  <1> SUFFICES ASSUME World!Init PROVE WorldConsistent
    OBVIOUS
  <1>1. accounts = <<>> /\ facts = {}
    BY DEF World!Init
  <1>2. accounts \in Seq([created : Nat, ring : Nat, action : Nat]) /\ DOMAIN accounts = {}
    BY <1>1
  <1>3. group.id = 0 /\ group.kind = "none"
    BY DEF World!Init
  <1> QED
    BY <1>1, <1>2, <1>3 DEF WorldConsistent

(* The generated world is one of SyntheticWorld, whatever else is run. *)
LEMMA WorldRuns == OfflineSpec => World!Spec
  <1>1. OfflineInit => World!Init
    BY DEF OfflineInit
  <1>2. [OfflineNext]_allVars => [World!Next]_World!vars
    <2>1. UNCHANGED worldVars => UNCHANGED World!vars
      BY DEF worldVars, World!vars
    <2> QED
      BY <2>1 DEF OfflineNext, allVars
  <1> QED
    BY <1>1, <1>2, PTL DEF OfflineSpec, World!Spec

(***************************************************************************)
(* The world stays consistent.                                             *)
(***************************************************************************)
THEOREM WorldInvariantHolds ==
    ASSUME NothingIsShared
    PROVE  World!Spec => []WorldConsistent
  <1>1. WorldConsistent /\ [World!Next]_World!vars => WorldConsistent'
    <2>1. ASSUME WorldConsistent, World!Next PROVE WorldConsistent'
      BY <2>1, WorldStep
    <2>2. ASSUME WorldConsistent, UNCHANGED World!vars PROVE WorldConsistent'
      <3>1. accounts' = accounts /\ facts' = facts /\ group' = group
        BY <2>2 DEF World!vars
      <3>2. ASSUME NEW b PROVE FactsOf(b)' = FactsOf(b)
        BY <3>1 DEF FactsOf
      <3>3. ASSUME NEW f, SharesAreOf(f) PROVE SharesAreOf(f)'
        BY <3>1, <3>3 DEF SharesAreOf
      <3> QED
        BY <2>2, <3>1, <3>2, <3>3 DEF WorldConsistent
    <2> QED
      BY <2>1, <2>2
  <1> QED
    BY <1>1, WorldStarts, PTL DEF World!Spec

(* A target of at least two accounts can always be reached. *)
LEMMA TargetReached ==
    ASSUME NEW sizes \in RingSizes, NEW remaining \in Nat \ {1}
    PROVE  World!TargetIsReached(sizes, remaining)
  <1>1. 2 \in sizes /\ 3 \in sizes
    BY DEF RingSizes, World!ValidSizes
  <1>2. CASE remaining = 0
    BY <1>2 DEF World!TargetIsReached
  <1>3. CASE remaining = 3
    <2>1. 3 \in World!Eligible(sizes, remaining)
      BY <1>1, <1>3 DEF World!Eligible
    <2> QED
      BY <2>1 DEF World!TargetIsReached
  <1>4. CASE remaining # 0 /\ remaining # 3
    <2>1. 2 \in World!Eligible(sizes, remaining)
      BY <1>1, <1>4 DEF World!Eligible
    <2> QED
      BY <2>1 DEF World!TargetIsReached
  <1> QED
    BY <1>2, <1>3, <1>4

(***************************************************************************)
(* Worlds are plausible.                                                   *)
(***************************************************************************)
THEOREM WorldHolds ==
    ASSUME NothingIsShared
    PROVE  OfflineSpec => []WorldIsPlausible
  <1>1. WorldConsistent /\ InputConsistent => WorldIsPlausible
    <2> SUFFICES ASSUME WorldConsistent, InputConsistent PROVE WorldIsPlausible
      OBVIOUS
    <2>1. /\ World!HistoriesAreCausal /\ World!CampaignIdentitiesAreNew
          /\ World!ActionsContinue /\ World!LabelsAreOfCampaigns
      BY WorldIsCausal, WorldSharesNew, WorldContinues
    <2>2. lane = "sizes" => World!TargetIsReached(input.sizes, input.remaining)
      BY TargetReached DEF InputConsistent
    <2> QED
      BY <2>1, <2>2 DEF WorldIsPlausible
  <1> QED
    BY <1>1, WorldRuns, WorldInvariantHolds, InputsHold, PTL
================================================================================
