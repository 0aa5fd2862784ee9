---------------------------- MODULE MCRiskPipeline ----------------------------
(* Small instances of RiskPipeline for TLC.  A behaviour is of one scene,    *)
(* chosen at the start:                                                      *)
(*   race      two backend threads on one account: a redelivery, a lost      *)
(*             lease, a failing store, a closed case; nobody dies            *)
(*   recovery  a backend thread and an operator: a crash, an explicit retry, *)
(*             the catch-up as often as it is run, and a row that never      *)
(*             normalizes, the oldest of all                                 *)
EXTENDS RiskPipeline

CONSTANTS setup, early, late, poison, alice, w1, w2, op, Scene

(* One account. *)
MCAccountOf == [e \in Event |-> alice]

(* Every fact of the account can move its features. *)
MCRelevant == [e \in Event |-> Event \ Setup]

(* The first fact alone is allowed; every other decision is actionable. *)
MCActionable == Decision \ {<<early, {early}>>}

MCBound == [redelivery |-> 1, start |-> 1, crash |-> 1, fault |-> 1, expiry |-> 1, close |-> 1]

VARIABLE scene
sceneVars == <<vars, scene>>

EventOf(s) == Event \cap (IF s = "race" THEN {setup, early, late} ELSE {setup, early, poison})
WorkerOf(s) == Worker \cap (IF s = "race" THEN {w1, w2} ELSE {w1, op})
Happens(s) == IF s = "race" THEN {"redelivery", "fault", "expiry", "close"} ELSE {"start", "crash"}

InOrder(e) == \A p \in (EventOf(scene) \cap {poison}) \ {e} : phase[p] # "absent"

(* A step of the scene. *)
Scenic(A) ==
    /\ A
    /\ UNCHANGED scene
    /\ \A kind \in DOMAIN used \ Happens(scene) : used'[kind] = 0

SceneInit == Init /\ scene \in Scene

SceneNext ==
    \/ \E w \in WorkerOf(scene) : Scenic(WorkerStep(w) \/ Die(w))
    \/ \E w \in WorkerOf(scene), S \in SUBSET EventOf(scene) : Scenic(StartCatchUp(w, S))
    \/ \E w \in WorkerOf(scene), e \in EventOf(scene) :
           Scenic(StartTask(w, e) \/ StartProcess(w, e))
    \/ \E e \in EventOf(scene) : Scenic((DeliverNew(e) /\ InOrder(e)) \/ DeliverAgain(e))
    \/ \E c \in cases : Scenic(CloseCase(c))
    \/ Scenic(Restart)

(* In the scene of recovery an operator keeps running the catch-up. *)
Recovery ==
    WF_sceneVars(\E w \in WorkerOf(scene), S \in SUBSET EventOf(scene) :
                    Scenic(StartCatchUp(w, S)))

SceneSpec == SceneInit /\ [][SceneNext]_sceneVars /\ Fairness /\ Recovery

(* While no thread dies, a finished risk event does not linger between the   *)
(* inbox and scoring; and where an operator keeps running the catch-up, no   *)
(* accepted one that can be normalized lingers, whatever died on the way: it *)
(* is evaluated, or its failure is recorded.                                 *)
EventsAreAnswered ==
    \A e \in Mappable \ Setup :
        (phase[e] = "done" \/ (scene = "recovery" /\ phase[e] # "absent")) ~> Answered(e)
===============================================================================
