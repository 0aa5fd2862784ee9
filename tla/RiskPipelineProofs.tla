-------------------------- MODULE RiskPipelineProofs --------------------------
(***************************************************************************)
(* Machine-checked proofs about RiskPipeline, for any events, accounts and *)
(* threads, any influence of facts on features and any bounds: what its    *)
(* transactions leave behind, however scorers overlap, fail and die.       *)
(***************************************************************************)
EXTENDS RiskPipeline, FiniteSetTheorems, TLAPS

(* The part of the type invariant that the proofs need. *)
StoresTyped ==
    /\ phase \in [Event -> {"absent", "open", "held", "done"}]
    /\ receivedAt \in [Event -> Nat]
    /\ graph \subseteq Event
    /\ knownAt \in [Account -> Nat]
    /\ tasks \in [Event -> Nat]

(* The same of the decisions and of what refers to them. *)
LineageTyped ==
    /\ decisions \subseteq Decision
    /\ evaluation \in [Event -> Evaluation \cup {None}]
    /\ cases \subseteq Decision /\ closed \subseteq cases
    /\ attached \subseteq cases \X decisions

(* The same of the workers. *)
ThreadsTyped ==
    /\ pc \in [Worker -> PC]
    /\ item \in [Worker -> Event \cup {None}]
    /\ view \in [Worker -> SUBSET Event]
    /\ found \in [Worker -> Decision \cup {None}]
    /\ queue \in [Worker -> SUBSET Event]

(* Every receipt has its number. *)
FinitelyReceived == IsFiniteSet({d \in Event : receivedAt[d] > 0})

(* Only what was received is scheduled and projected, and Neo4j knows a      *)
(* creation only of an account whose setup event it has.                     *)
StoresConsistent ==
    /\ \A e \in Event : tasks[e] > 0 => phase[e] # "absent"
    /\ \A e \in Event : phase[e] # "absent" => receivedAt[e] > 0
    /\ \A e \in graph : phase[e] # "absent"
    /\ \A a \in Account : knownAt[a] # 0 => \E s \in Setup : AccountOf[s] = a /\ s \in graph

(* What an evaluation of e may be based on. *)
Known(e, facts) ==
    /\ \A d \in facts : d \in graph /\ receivedAt[d] \in 1..receivedAt[e]
    /\ \E s \in Setup : AccountOf[s] = AccountOf[e] /\ s \in graph

(* What a thread has established when it stands at each place. *)
ThreadsConsistent ==
    \A w \in Worker :
        /\ \A e \in queue[w] : phase[e] # "absent"
        /\ pc[w] \notin {"idle", "next", "select"} =>
             item[w] \in Event /\ phase[item[w]] # "absent"
        /\ pc[w] \in {"inputs", "features", "case", "persist"} => item[w] \notin Setup
        /\ pc[w] \in {"features", "case", "persist"} =>
             phase[item[w]] = "done" /\ item[w] \in InContext
        /\ pc[w] \in {"case", "persist"} => Known(item[w], view[w])

(* The open case that a transaction found is a case of its account. *)
FoundIsCase ==
    \A w \in Worker : found[w] # None =>
        /\ pc[w] \in {"persist", "mark", "clear"}
        /\ found[w] \in cases /\ AccountOf[found[w][1]] = AccountOf[item[w]]

(* The partial unique index: an account has no two open cases. *)
OpenCaseIsUnique ==
    \A c, d \in cases \ closed : AccountOf[c[1]] = AccountOf[d[1]] => c = d

(* The inductive invariant. *)
PipelineInvariant ==
    /\ StoresTyped /\ LineageTyped /\ ThreadsTyped
    /\ FinitelyReceived /\ StoresConsistent /\ ThreadsConsistent /\ FoundIsCase
    /\ LineageIsWhole /\ OpenCaseIsUnique /\ ScoredOnWhatWasKnown

(* Nothing is received, scored or running at first. *)
LEMMA InitInvariant == Init => PipelineInvariant
  <1> SUFFICES ASSUME Init PROVE PipelineInvariant
    OBVIOUS
  <1>1. FinitelyReceived
    <2>1. {d \in Event : receivedAt[d] > 0} = {}
      BY DEF Init
    <2> QED
      BY <2>1, FS_EmptySet DEF FinitelyReceived
  <1>2. StoresTyped /\ LineageTyped /\ ThreadsTyped
    BY DEF Init, Inbox!Init, StoresTyped, LineageTyped, ThreadsTyped, PC
  <1>3. StoresConsistent /\ ThreadsConsistent /\ FoundIsCase
    BY DEF Init, Inbox!Init, StoresConsistent, ThreadsConsistent, FoundIsCase
  <1>4. LineageIsWhole /\ OpenCaseIsUnique /\ ScoredOnWhatWasKnown
    BY DEF Init, LineageIsWhole, OpenCaseIsUnique, ScoredOnWhatWasKnown, Scored
  <1> QED
    BY <1>1, <1>2, <1>3, <1>4 DEF PipelineInvariant

(* The case of a transaction: none, one of the account, or a new one where   *)
(* the account has no open case.                                             *)
LEMMA CaseDescribed ==
    ASSUME PipelineInvariant, NEW w \in Worker, pc[w] = "persist"
    PROVE  /\ DecisionOf(w) \in Decision
           /\ DecisionOf(w) \notin Actionable => CaseOf(w) = None
           /\ DecisionOf(w) \in Actionable =>
                 \/ CaseOf(w) \in cases /\ AccountOf[CaseOf(w)[1]] = AccountOf[item[w]]
                 \/ CaseOf(w) = DecisionOf(w) /\ OpenCases(AccountOf[item[w]]) = {}
  <1> USE PipelineAssumption DEF PipelineInvariant
  <1>1. item[w] \in Event /\ view[w] \subseteq Event
    BY DEF ThreadsConsistent, ThreadsTyped
  <1>2. DecisionOf(w) \in Decision
    BY <1>1 DEF DecisionOf, Decision
  <1>3. CASE DecisionOf(w) \notin Actionable
    BY <1>2, <1>3 DEF CaseOf
  <1>4. CASE DecisionOf(w) \in Actionable /\ found[w] # None
    BY <1>2, <1>4 DEF CaseOf, FoundIsCase
  <1>5. CASE DecisionOf(w) \in Actionable /\ found[w] = None
    <2>1. CASE OpenCases(AccountOf[item[w]]) = {}
      BY <1>2, <1>5, <2>1 DEF CaseOf
    <2>2. CASE OpenCases(AccountOf[item[w]]) # {}
      <3>1. CaseOf(w) \in OpenCases(AccountOf[item[w]])
        BY <1>5, <2>2 DEF CaseOf
      <3> QED
        BY <1>2, <1>5, <3>1 DEF OpenCases
    <2> QED
      BY <2>1, <2>2
  <1> QED
    BY <1>3, <1>4, <1>5, <1>2

(* Only a commit and the closing of a case touch the lineage. *)
LEMMA LineageSteps ==
    [Next]_vars => \/ UNCHANGED lineageVars
                   \/ \E w \in Worker : Persist(w)
                   \/ \E c \in cases : CloseCase(c)
  <1> SUFFICES ASSUME [Next]_vars, \A w \in Worker : ~Persist(w),
                      \A c \in cases : ~CloseCase(c)
               PROVE  UNCHANGED lineageVars
    OBVIOUS
  <1>1. ASSUME NEW w \in Worker,
               \/ Claim(w) \/ ClaimRefused(w) \/ Reproject(w) \/ Project(w) \/ Finalize(w)
               \/ Gate(w) \/ ReadInputs(w) \/ ReadFeatures(w) \/ FindCase(w)
        PROVE  UNCHANGED lineageVars
    BY <1>1 DEF Claim, ClaimRefused, Reproject, Project, Finalize, Gate, ReadInputs,
                ReadFeatures, FindCase
  <1>2. ASSUME NEW w \in Worker,
               \/ PersistConflicts(w) \/ ScoringFails(w) \/ Mark(w) \/ Clear(w)
               \/ SelectUnscored(w) \/ NextItem(w) \/ Die(w)
        PROVE  UNCHANGED lineageVars
    BY <1>2 DEF PersistConflicts, ScoringFails, Mark, Clear, SelectUnscored, NextItem, Die
  <1>3. ASSUME NEW w \in Worker, NEW S \in SUBSET Event, StartCatchUp(w, S)
        PROVE  UNCHANGED lineageVars
    BY <1>3 DEF StartCatchUp
  <1>4. ASSUME NEW w \in Worker, NEW e \in Event, StartTask(w, e) \/ StartProcess(w, e)
        PROVE  UNCHANGED lineageVars
    BY <1>4 DEF StartTask, StartProcess
  <1>5. ASSUME NEW e \in Event, DeliverNew(e) \/ DeliverAgain(e)
        PROVE  UNCHANGED lineageVars
    BY <1>5 DEF DeliverNew, DeliverAgain
  <1>6. CASE Restart \/ UNCHANGED vars
    BY <1>6 DEF Restart, vars
  <1> QED
    BY <1>1, <1>2, <1>3, <1>4, <1>5, <1>6 DEF Next, WorkerStep

(* A commit, as far as the lineage is concerned. *)
LEMMA PersistDescribed ==
    ASSUME PipelineInvariant, NEW w \in Worker, Persist(w)
    PROVE  /\ item[w] \in Event /\ pc[w] = "persist"
           /\ evaluation[item[w]] \in {None, [decision |-> DecisionOf(w), case |-> CaseOf(w)]}
           /\ evaluation' = [evaluation EXCEPT ![item[w]] =
                                [decision |-> DecisionOf(w), case |-> CaseOf(w)]]
           /\ decisions' = decisions \cup {DecisionOf(w)}
           /\ CaseOf(w) = None => cases' = cases /\ attached' = attached
           /\ CaseOf(w) # None => /\ cases' = cases \cup {CaseOf(w)}
                                  /\ attached' = attached \cup {<<CaseOf(w), DecisionOf(w)>>}
           /\ closed' = closed
  BY DEF Persist, Conflicts, PipelineInvariant, ThreadsConsistent

(* The lineage stays well-typed, *)
LEMMA LineageTypedStep == PipelineInvariant /\ [Next]_vars => LineageTyped'
  <1> SUFFICES ASSUME PipelineInvariant, [Next]_vars PROVE LineageTyped'
    OBVIOUS
  <1>0. LineageTyped
    BY DEF PipelineInvariant
  <1>1. CASE UNCHANGED lineageVars
    BY <1>0, <1>1 DEF LineageTyped, lineageVars
  <1>2. ASSUME NEW w \in Worker, Persist(w) PROVE LineageTyped'
    <2>1. DecisionOf(w) \in Decision /\ CaseOf(w) \in cases \cup {DecisionOf(w), None}
      BY <1>2, CaseDescribed, PersistDescribed
    <2>2. [decision |-> DecisionOf(w), case |-> CaseOf(w)] \in Evaluation
      BY <1>0, <2>1 DEF Evaluation, LineageTyped
    <2>3. evaluation' \in [Event -> Evaluation \cup {None}]
      BY <1>0, <1>2, <2>2, PersistDescribed DEF LineageTyped
    <2>4. CASE CaseOf(w) = None
      <3>1. /\ cases' = cases /\ decisions' = decisions \cup {DecisionOf(w)}
            /\ attached' = attached /\ closed' = closed
        BY <1>2, <2>4, PersistDescribed
      <3> QED
        BY <1>0, <2>1, <2>3, <3>1 DEF LineageTyped
    <2>5. CASE CaseOf(w) # None
      <3>1. /\ cases' = cases \cup {CaseOf(w)} /\ decisions' = decisions \cup {DecisionOf(w)}
            /\ attached' = attached \cup {<<CaseOf(w), DecisionOf(w)>>} /\ closed' = closed
        BY <1>2, <2>5, PersistDescribed
      <3> QED
        BY <1>0, <2>1, <2>3, <2>5, <3>1 DEF LineageTyped
    <2> QED
      BY <2>4, <2>5
  <1>3. ASSUME NEW c \in cases, CloseCase(c) PROVE LineageTyped'
    BY <1>0, <1>3 DEF CloseCase, LineageTyped
  <1> QED
    BY <1>1, <1>2, <1>3, LineageSteps

(* and whole, *)
LEMMA WholeStep == PipelineInvariant /\ [Next]_vars => LineageIsWhole'
  <1> SUFFICES ASSUME PipelineInvariant, [Next]_vars PROVE LineageIsWhole'
    OBVIOUS
  <1>0. LineageTyped /\ LineageIsWhole
    BY DEF PipelineInvariant
  <1>1. CASE UNCHANGED lineageVars
    BY <1>0, <1>1 DEF LineageIsWhole, lineageVars, Scored
  <1>2. ASSUME NEW w \in Worker, Persist(w) PROVE LineageIsWhole'
    <2> DEFINE d == DecisionOf(w)
               c == CaseOf(w)
               e == item[w]
    <2>1. e \in Event /\ d \in Decision /\ d[1] = e
      BY <1>2, CaseDescribed, PersistDescribed DEF DecisionOf
    <2>2. /\ d \notin Actionable => c = None
          /\ d \in Actionable => (c \in cases \/ c = d) /\ AccountOf[c[1]] = AccountOf[e]
      BY <1>2, <2>1, CaseDescribed, PersistDescribed
    <2>3. d \in Actionable <=> c # None
      BY <1>0, <2>1, <2>2, PipelineAssumption DEF LineageTyped
    <2>4. /\ evaluation[e] \in {None, [decision |-> d, case |-> c]}
          /\ evaluation' = [evaluation EXCEPT ![e] = [decision |-> d, case |-> c]]
          /\ decisions' = decisions \cup {d}
          /\ c = None => cases' = cases /\ attached' = attached
          /\ c # None => cases' = cases \cup {c} /\ attached' = attached \cup {<<c, d>>}
      BY <1>2, PersistDescribed
    <2>5. [decision |-> d, case |-> c] # None
      BY <1>0, <2>1, <2>2, PipelineAssumption DEF LineageTyped
    <2> HIDE DEF c, d, e
    <2>6. evaluation'[e] = [decision |-> d, case |-> c]
          /\ \A x \in Event : x # e => evaluation'[x] = evaluation[x]
      BY <1>0, <2>1, <2>4 DEF LineageTyped
    <2>7. \A x \in decisions' : Scored(x[1])' /\ evaluation'[x[1]].decision = x
      <3> SUFFICES ASSUME NEW x \in decisions'
                   PROVE  evaluation'[x[1]] # None /\ evaluation'[x[1]].decision = x
        BY DEF Scored
      <3>1. CASE x = d
        BY <2>1, <2>5, <2>6, <3>1
      <3>2. CASE x \in decisions /\ x[1] # e
        <4>1. x[1] \in Event
          BY <1>0, <3>2 DEF LineageTyped, Decision
        <4> QED
          BY <1>0, <2>6, <3>2, <4>1 DEF LineageIsWhole, Scored
      <3>3. CASE x \in decisions /\ x[1] = e
        <4>1. evaluation[e] # None /\ evaluation[e].decision = x
          BY <1>0, <3>3 DEF LineageIsWhole, Scored
        <4>2. evaluation[e] = [decision |-> d, case |-> c]
          BY <2>4, <4>1
        <4> QED
          BY <2>5, <2>6, <3>3, <4>1, <4>2
      <3> QED
        BY <2>4, <3>1, <3>2, <3>3
    <2>8. cases' \subseteq decisions'
      BY <1>0, <2>2, <2>3, <2>4 DEF LineageIsWhole
    <2>9. \A pair \in attached' : AccountOf[pair[1][1]] = AccountOf[pair[2][1]]
      BY <1>0, <2>1, <2>2, <2>3, <2>4 DEF LineageIsWhole
    <2>10. \A x \in Event : Scored(x)' =>
              /\ evaluation'[x].decision[1] = x /\ evaluation'[x].decision \in decisions'
              /\ evaluation'[x].decision \in Actionable <=> evaluation'[x].case # None
              /\ evaluation'[x].case # None =>
                    <<evaluation'[x].case, evaluation'[x].decision>> \in attached'
      <3> SUFFICES ASSUME NEW x \in Event, evaluation'[x] # None
                   PROVE  /\ evaluation'[x].decision[1] = x /\ evaluation'[x].decision \in decisions'
                          /\ evaluation'[x].decision \in Actionable <=> evaluation'[x].case # None
                          /\ evaluation'[x].case # None =>
                                <<evaluation'[x].case, evaluation'[x].decision>> \in attached'
        BY DEF Scored
      <3>1. CASE x = e
        BY <2>1, <2>3, <2>4, <2>6, <3>1
      <3>2. CASE x # e
        BY <1>0, <2>4, <2>6, <3>2 DEF LineageIsWhole, Scored
      <3> QED
        BY <3>1, <3>2
    <2> QED
      BY <2>7, <2>8, <2>9, <2>10 DEF LineageIsWhole
  <1>3. ASSUME NEW c \in cases, CloseCase(c) PROVE LineageIsWhole'
    BY <1>0, <1>3 DEF CloseCase, LineageIsWhole, Scored
  <1> QED
    BY <1>1, <1>2, <1>3, LineageSteps

(* an account keeps at most one open case, *)
LEMMA OpenStep == PipelineInvariant /\ [Next]_vars => OpenCaseIsUnique'
  <1> SUFFICES ASSUME PipelineInvariant, [Next]_vars PROVE OpenCaseIsUnique'
    OBVIOUS
  <1>0. LineageTyped /\ OpenCaseIsUnique
    BY DEF PipelineInvariant
  <1>1. CASE UNCHANGED lineageVars
    BY <1>0, <1>1 DEF OpenCaseIsUnique, lineageVars
  <1>2. ASSUME NEW w \in Worker, Persist(w) PROVE OpenCaseIsUnique'
    <2>1. CASE CaseOf(w) \in cases \cup {None}
      <3>1. closed' = closed /\ cases' \in {cases, cases \cup {CaseOf(w)}}
            /\ (CaseOf(w) = None => cases' = cases)
        BY <1>2, PersistDescribed
      <3>2. cases' = cases
        BY <2>1, <3>1
      <3> QED
        BY <1>0, <3>1, <3>2 DEF OpenCaseIsUnique
    <2>2. CASE CaseOf(w) \notin cases \cup {None}
      <3>1. CaseOf(w) = DecisionOf(w) /\ OpenCases(AccountOf[item[w]]) = {}
        BY <1>2, <2>2, CaseDescribed, PersistDescribed
      <3>2. CaseOf(w)[1] = item[w]
        BY <3>1 DEF DecisionOf
      <3>3. cases' = cases \cup {CaseOf(w)} /\ closed' = closed
        BY <1>2, <2>2, PersistDescribed
      <3>4. \A c \in cases \ closed : AccountOf[c[1]] # AccountOf[item[w]]
        BY <3>1 DEF OpenCases
      <3> QED
        BY <1>0, <3>2, <3>3, <3>4 DEF OpenCaseIsUnique
    <2> QED
      BY <2>1, <2>2
  <1>3. ASSUME NEW c \in cases, CloseCase(c) PROVE OpenCaseIsUnique'
    BY <1>0, <1>3 DEF CloseCase, OpenCaseIsUnique
  <1> QED
    BY <1>1, <1>2, <1>3, LineageSteps

(* The inbox and the graph stay well-typed, *)
LEMMA StoresTypedStep == PipelineInvariant /\ [Next]_vars => StoresTyped'
  <1> SUFFICES ASSUME PipelineInvariant, [Next]_vars PROVE StoresTyped'
    OBVIOUS
  <1> USE PipelineAssumption DEF PipelineInvariant, StoresTyped, ThreadsTyped,
          ThreadsConsistent,
          inboxVars, graphVars, lineageVars, workerVars, PC
  <1>1. ASSUME NEW e \in Event, DeliverNew(e)
         PROVE  StoresTyped'
    <2>1. Cardinality({d \in Event : receivedAt[d] > 0}) \in Nat
      BY FS_CardinalityType DEF FinitelyReceived
    <2> QED
      BY <1>1, <2>1 DEF DeliverNew, Inbox!Admit
  <1>2. ASSUME NEW e \in Event, DeliverAgain(e)
         PROVE  StoresTyped'
    BY <1>2 DEF DeliverAgain, Spend
  <1>3. ASSUME NEW w \in Worker, NEW e \in Event, StartTask(w, e) \/ StartProcess(w, e)
         PROVE  StoresTyped'
    BY <1>3 DEF StartTask, StartProcess, Begin, Spend
  <1>4. ASSUME NEW w \in Worker, Claim(w)
         PROVE  StoresTyped'
    <2>1. UNCHANGED <<receivedAt, graph, knownAt, tasks>>
      BY ONLY <1>4 DEF Claim, graphVars
    <2>2. Inbox!Take(w, item[w]) \/ Inbox!TakeAndGiveBack(w, item[w])
      BY ONLY <1>4 DEF Claim
    <2>3. CASE Inbox!Take(w, item[w])
      BY <2>1, <2>3 DEF Inbox!Take
    <2>4. CASE Inbox!TakeAndGiveBack(w, item[w])
      BY <2>1, <2>4 DEF Inbox!TakeAndGiveBack
    <2> QED
      BY ONLY <2>2, <2>3, <2>4
  <1>5. ASSUME NEW w \in Worker, ClaimRefused(w)
         PROVE  StoresTyped'
    BY <1>5 DEF ClaimRefused, Leave
  <1>6. ASSUME NEW w \in Worker, Reproject(w)
         PROVE  StoresTyped'
    BY <1>6 DEF Reproject, Merge, Goto
  <1>7. ASSUME NEW w \in Worker, Project(w)
         PROVE  StoresTyped'
    BY <1>7 DEF Project, Merge, Goto, Spend
  <1>8. ASSUME NEW w \in Worker, Finalize(w)
         PROVE  StoresTyped'
    BY <1>8, SMTT(30) DEF Finalize, Goto, Leave, Inbox!Close
  <1>9. ASSUME NEW w \in Worker, Gate(w)
         PROVE  StoresTyped'
    BY <1>9 DEF Gate, Goto, Leave
  <1>10. ASSUME NEW w \in Worker, ReadInputs(w)
         PROVE  StoresTyped'
    BY <1>10 DEF ReadInputs, Goto
  <1>11. ASSUME NEW w \in Worker, ReadFeatures(w)
         PROVE  StoresTyped'
    BY <1>11 DEF ReadFeatures, Goto, HasHistory, Features
  <1>12. ASSUME NEW w \in Worker, FindCase(w)
         PROVE  StoresTyped'
    BY <1>12 DEF FindCase, OpenCases
  <1>13. ASSUME NEW w \in Worker, Persist(w)
         PROVE  StoresTyped'
    BY <1>13 DEF Persist, Goto
  <1>14. ASSUME NEW w \in Worker, PersistConflicts(w)
         PROVE  StoresTyped'
    BY <1>14 DEF PersistConflicts, Goto
  <1>15. ASSUME NEW w \in Worker, ScoringFails(w)
         PROVE  StoresTyped'
    BY <1>15 DEF ScoringFails, Goto, Spend
  <1>16. ASSUME NEW w \in Worker, Mark(w)
         PROVE  StoresTyped'
    BY <1>16 DEF Mark, Leave
  <1>17. ASSUME NEW w \in Worker, Clear(w)
         PROVE  StoresTyped'
    BY <1>17 DEF Clear, Leave
  <1>18. ASSUME NEW w \in Worker, SelectUnscored(w)
         PROVE  StoresTyped'
    BY <1>18 DEF SelectUnscored, Unscored, Oldest
  <1>19. ASSUME NEW w \in Worker, NextItem(w)
         PROVE  StoresTyped'
    BY <1>19 DEF NextItem, Begin
  <1>20. ASSUME NEW w \in Worker, NEW S \in SUBSET Event, StartCatchUp(w, S)
         PROVE  StoresTyped'
    BY <1>20 DEF StartCatchUp, Oldest, Free, Overdue
  <1>21. ASSUME NEW c \in cases, CloseCase(c)
         PROVE  StoresTyped'
    BY <1>21 DEF CloseCase, Spend
  <1>22. ASSUME NEW w \in Worker, Die(w)
         PROVE  StoresTyped'
    BY <1>22 DEF Die, Drop, Spend, Inbox!Abandon
  <1>23. ASSUME Restart
         PROVE  StoresTyped'
    BY <1>23 DEF Restart, Drop, Spend, Inbox!Abandon
  <1>24. CASE UNCHANGED vars
    BY <1>24 DEF vars
  <1> QED
    BY <1>1, <1>2, <1>3, <1>4, <1>5, <1>6, <1>7, <1>8, <1>9, <1>10, <1>11,
       <1>12, <1>13, <1>14, <1>15, <1>16, <1>17, <1>18, <1>19, <1>20, <1>21,
       <1>22, <1>23, <1>24 DEF Next, WorkerStep

(* and so do the threads. *)
LEMMA ThreadsTypedStep == PipelineInvariant /\ [Next]_vars => ThreadsTyped'
  <1> SUFFICES ASSUME PipelineInvariant, [Next]_vars PROVE ThreadsTyped'
    OBVIOUS
  <1> USE PipelineAssumption DEF PipelineInvariant, StoresTyped, ThreadsTyped,
          ThreadsConsistent,
          inboxVars, graphVars, lineageVars, workerVars, PC
  <1>1. ASSUME NEW e \in Event, DeliverNew(e)
         PROVE  ThreadsTyped'
    BY <1>1 DEF DeliverNew, Inbox!Admit
  <1>2. ASSUME NEW e \in Event, DeliverAgain(e)
         PROVE  ThreadsTyped'
    BY <1>2 DEF DeliverAgain, Spend
  <1>3. ASSUME NEW w \in Worker, NEW e \in Event, StartTask(w, e) \/ StartProcess(w, e)
         PROVE  ThreadsTyped'
    BY <1>3 DEF StartTask, StartProcess, Begin, Spend
  <1>4. ASSUME NEW w \in Worker, Claim(w)
         PROVE  ThreadsTyped'
    <2>1. CASE Goto(w, "project")
      BY <2>1 DEF Goto
    <2>2. CASE Leave(w)
      BY <2>2 DEF Leave
    <2> QED
      BY ONLY <1>4, <2>1, <2>2 DEF Claim
  <1>5. ASSUME NEW w \in Worker, ClaimRefused(w)
         PROVE  ThreadsTyped'
    BY <1>5 DEF ClaimRefused, Leave
  <1>6. ASSUME NEW w \in Worker, Reproject(w)
         PROVE  ThreadsTyped'
    BY <1>6 DEF Reproject, Merge, Goto
  <1>7. ASSUME NEW w \in Worker, Project(w)
         PROVE  ThreadsTyped'
    BY <1>7 DEF Project, Merge, Goto, Spend
  <1>8. ASSUME NEW w \in Worker, Finalize(w)
         PROVE  ThreadsTyped'
    <2>1. CASE \E place \in PC : Goto(w, place)
      BY <2>1 DEF Goto
    <2>2. CASE Leave(w)
      BY <2>2 DEF Leave
    <2> QED
      BY ONLY <1>8, <2>1, <2>2 DEF Finalize, PC
  <1>9. ASSUME NEW w \in Worker, Gate(w)
         PROVE  ThreadsTyped'
    BY <1>9 DEF Gate, Goto, Leave
  <1>10. ASSUME NEW w \in Worker, ReadInputs(w)
         PROVE  ThreadsTyped'
    BY <1>10 DEF ReadInputs, Goto
  <1>11. ASSUME NEW w \in Worker, ReadFeatures(w)
         PROVE  ThreadsTyped'
    BY <1>11 DEF ReadFeatures, Goto, HasHistory, Features
  <1>12. ASSUME NEW w \in Worker, FindCase(w)
         PROVE  ThreadsTyped'
    <2>1. OpenCases(AccountOf[item[w]]) \subseteq Decision
      BY DEF OpenCases, LineageTyped
    <2>2. (IF OpenCases(AccountOf[item[w]]) = {} THEN None
           ELSE CHOOSE c \in OpenCases(AccountOf[item[w]]) : TRUE) \in Decision \cup {None}
      BY <2>1
    <2>3. /\ found' \in [Worker -> Decision \cup {None}]
          /\ pc' = [pc EXCEPT ![w] = "persist"]
          /\ item' = item /\ view' = view /\ queue' = queue
      BY <1>12, <2>2 DEF FindCase
    <2> QED
      BY <2>3
  <1>13. ASSUME NEW w \in Worker, Persist(w)
         PROVE  ThreadsTyped'
    BY <1>13 DEF Persist, Goto
  <1>14. ASSUME NEW w \in Worker, PersistConflicts(w)
         PROVE  ThreadsTyped'
    BY <1>14 DEF PersistConflicts, Goto
  <1>15. ASSUME NEW w \in Worker, ScoringFails(w)
         PROVE  ThreadsTyped'
    BY <1>15 DEF ScoringFails, Goto, Spend
  <1>16. ASSUME NEW w \in Worker, Mark(w)
         PROVE  ThreadsTyped'
    BY <1>16 DEF Mark, Leave
  <1>17. ASSUME NEW w \in Worker, Clear(w)
         PROVE  ThreadsTyped'
    BY <1>17 DEF Clear, Leave
  <1>18. ASSUME NEW w \in Worker, SelectUnscored(w)
         PROVE  ThreadsTyped'
    BY <1>18 DEF SelectUnscored, Unscored, Oldest
  <1>19. ASSUME NEW w \in Worker, NextItem(w)
         PROVE  ThreadsTyped'
    BY <1>19 DEF NextItem, Begin
  <1>20. ASSUME NEW w \in Worker, NEW S \in SUBSET Event, StartCatchUp(w, S)
         PROVE  ThreadsTyped'
    BY <1>20 DEF StartCatchUp, Oldest, Free, Overdue
  <1>21. ASSUME NEW c \in cases, CloseCase(c)
         PROVE  ThreadsTyped'
    BY <1>21 DEF CloseCase, Spend
  <1>22. ASSUME NEW w \in Worker, Die(w)
         PROVE  ThreadsTyped'
    BY <1>22 DEF Die, Drop, Spend, Inbox!Abandon
  <1>23. ASSUME Restart
         PROVE  ThreadsTyped'
    BY <1>23 DEF Restart, Drop, Spend, Inbox!Abandon
  <1>24. CASE UNCHANGED vars
    BY <1>24 DEF vars
  <1> QED
    BY <1>1, <1>2, <1>3, <1>4, <1>5, <1>6, <1>7, <1>8, <1>9, <1>10, <1>11,
       <1>12, <1>13, <1>14, <1>15, <1>16, <1>17, <1>18, <1>19, <1>20, <1>21,
       <1>22, <1>23, <1>24 DEF Next, WorkerStep

(* Events are received one by one. *)
LEMMA ReceiptSteps ==
    [Next]_vars => receivedAt' = receivedAt \/ \E e \in Event : DeliverNew(e)
  <1> SUFFICES ASSUME [Next]_vars, \A e \in Event : ~DeliverNew(e)
               PROVE  receivedAt' = receivedAt
    OBVIOUS
  <1>1. ASSUME NEW w \in Worker, WorkerStep(w) \/ Die(w) PROVE receivedAt' = receivedAt
    BY <1>1 DEF WorkerStep, Claim, ClaimRefused, Reproject, Project, Finalize, Gate,
                ReadInputs, ReadFeatures, FindCase, Persist, PersistConflicts, ScoringFails,
                Mark, Clear, SelectUnscored, NextItem, Die
  <1>2. ASSUME NEW w \in Worker, NEW S \in SUBSET Event, StartCatchUp(w, S)
        PROVE  receivedAt' = receivedAt
    BY <1>2 DEF StartCatchUp
  <1>3. ASSUME NEW w \in Worker, NEW e \in Event, StartTask(w, e) \/ StartProcess(w, e)
        PROVE  receivedAt' = receivedAt
    BY <1>3 DEF StartTask, StartProcess
  <1>4. ASSUME NEW e \in Event, DeliverAgain(e) PROVE receivedAt' = receivedAt
    BY <1>4 DEF DeliverAgain
  <1>5. ASSUME NEW c \in cases, CloseCase(c) PROVE receivedAt' = receivedAt
    BY <1>5 DEF CloseCase
  <1>6. CASE Restart \/ UNCHANGED vars
    BY <1>6 DEF Restart, vars
  <1> QED
    BY <1>1, <1>2, <1>3, <1>4, <1>5, <1>6 DEF Next

(* A receipt adds one event to those received. *)
LEMMA ReceivedStep == PipelineInvariant /\ [Next]_vars => FinitelyReceived'
  <1> SUFFICES ASSUME PipelineInvariant, [Next]_vars PROVE FinitelyReceived'
    OBVIOUS
  <1>0. FinitelyReceived /\ receivedAt \in [Event -> Nat]
    BY DEF PipelineInvariant, StoresTyped
  <1>1. ASSUME NEW e \in Event, DeliverNew(e) PROVE FinitelyReceived'
    <2>1. Cardinality({d \in Event : receivedAt[d] > 0}) \in Nat
      BY <1>0, FS_CardinalityType DEF FinitelyReceived
    <2>2. {d \in Event : receivedAt'[d] > 0} = {d \in Event : receivedAt[d] > 0} \cup {e}
      BY <1>0, <1>1, <2>1 DEF DeliverNew
    <2> QED
      BY <1>0, <2>2, FS_AddElement DEF FinitelyReceived
  <1>2. CASE receivedAt' = receivedAt
    BY <1>0, <1>2 DEF FinitelyReceived
  <1> QED
    BY <1>1, <1>2, ReceiptSteps

(* Nothing is scheduled or projected before it is received. *)
LEMMA StoresStep == PipelineInvariant /\ [Next]_vars => StoresConsistent'
  <1> SUFFICES ASSUME PipelineInvariant, [Next]_vars PROVE StoresConsistent'
    OBVIOUS
  <1> USE PipelineAssumption DEF PipelineInvariant, StoresTyped, ThreadsTyped,
          ThreadsConsistent, StoresConsistent,
          inboxVars, graphVars, lineageVars, workerVars, PC
  <1>1. ASSUME NEW e \in Event, DeliverNew(e)
         PROVE  StoresConsistent'
    <2>1. Cardinality({d \in Event : receivedAt[d] > 0}) \in Nat
      BY FS_CardinalityType DEF FinitelyReceived
    <2>2. /\ phase[e] = "absent" /\ phase' = [phase EXCEPT ![e] = "open"]
          /\ graph' = graph /\ knownAt' = knownAt
          /\ receivedAt' \in [Event -> Nat] /\ receivedAt'[e] > 0
          /\ \A d \in Event \ {e} : receivedAt'[d] = receivedAt[d] /\ tasks'[d] = tasks[d]
      BY <1>1, <2>1 DEF DeliverNew, Inbox!Admit
    <2>3. \A d \in Event : /\ phase[d] # "absent" => phase'[d] # "absent"
                           /\ phase'[d] # "absent" => receivedAt'[d] > 0
                           /\ tasks'[d] > 0 => phase'[d] # "absent"
      BY <2>2
    <2> QED
      BY <2>2, <2>3
  <1>2. ASSUME NEW e \in Event, DeliverAgain(e)
         PROVE  StoresConsistent'
    BY <1>2 DEF DeliverAgain, Spend
  <1>3. ASSUME NEW w \in Worker, NEW e \in Event, StartTask(w, e) \/ StartProcess(w, e)
         PROVE  StoresConsistent'
    BY <1>3 DEF StartTask, StartProcess, Begin, Spend
  <1>4. ASSUME NEW w \in Worker, Claim(w)
         PROVE  StoresConsistent'
    BY <1>4 DEF Claim, Goto, Leave, Free, Overdue, Spend, Inbox!Take, Inbox!TakeAndGiveBack
  <1>5. ASSUME NEW w \in Worker, ClaimRefused(w)
         PROVE  StoresConsistent'
    BY <1>5 DEF ClaimRefused, Leave
  <1>6. ASSUME NEW w \in Worker, Reproject(w)
         PROVE  StoresConsistent'
    BY <1>6 DEF Reproject, Merge, Goto
  <1>7. ASSUME NEW w \in Worker, Project(w)
         PROVE  StoresConsistent'
    BY <1>7 DEF Project, Merge, Goto, Spend
  <1>8. ASSUME NEW w \in Worker, Finalize(w)
         PROVE  StoresConsistent'
    BY <1>8 DEF Finalize, Goto, Leave, Inbox!Close
  <1>9. ASSUME NEW w \in Worker, Gate(w)
         PROVE  StoresConsistent'
    BY <1>9 DEF Gate, Goto, Leave
  <1>10. ASSUME NEW w \in Worker, ReadInputs(w)
         PROVE  StoresConsistent'
    BY <1>10 DEF ReadInputs, Goto
  <1>11. ASSUME NEW w \in Worker, ReadFeatures(w)
         PROVE  StoresConsistent'
    BY <1>11 DEF ReadFeatures, Goto, HasHistory, Features
  <1>12. ASSUME NEW w \in Worker, FindCase(w)
         PROVE  StoresConsistent'
    BY <1>12 DEF FindCase, OpenCases
  <1>13. ASSUME NEW w \in Worker, Persist(w)
         PROVE  StoresConsistent'
    BY <1>13 DEF Persist, Goto
  <1>14. ASSUME NEW w \in Worker, PersistConflicts(w)
         PROVE  StoresConsistent'
    BY <1>14 DEF PersistConflicts, Goto
  <1>15. ASSUME NEW w \in Worker, ScoringFails(w)
         PROVE  StoresConsistent'
    BY <1>15 DEF ScoringFails, Goto, Spend
  <1>16. ASSUME NEW w \in Worker, Mark(w)
         PROVE  StoresConsistent'
    BY <1>16 DEF Mark, Leave
  <1>17. ASSUME NEW w \in Worker, Clear(w)
         PROVE  StoresConsistent'
    BY <1>17 DEF Clear, Leave
  <1>18. ASSUME NEW w \in Worker, SelectUnscored(w)
         PROVE  StoresConsistent'
    BY <1>18 DEF SelectUnscored, Unscored, Oldest
  <1>19. ASSUME NEW w \in Worker, NextItem(w)
         PROVE  StoresConsistent'
    BY <1>19 DEF NextItem, Begin
  <1>20. ASSUME NEW w \in Worker, NEW S \in SUBSET Event, StartCatchUp(w, S)
         PROVE  StoresConsistent'
    BY <1>20 DEF StartCatchUp, Oldest, Free, Overdue
  <1>21. ASSUME NEW c \in cases, CloseCase(c)
         PROVE  StoresConsistent'
    BY <1>21 DEF CloseCase, Spend
  <1>22. ASSUME NEW w \in Worker, Die(w)
         PROVE  StoresConsistent'
    BY <1>22 DEF Die, Drop, Spend, Inbox!Abandon
  <1>23. ASSUME Restart
         PROVE  StoresConsistent'
    BY <1>23 DEF Restart, Drop, Spend, Inbox!Abandon
  <1>24. CASE UNCHANGED vars
    BY <1>24 DEF vars
  <1> QED
    BY <1>1, <1>2, <1>3, <1>4, <1>5, <1>6, <1>7, <1>8, <1>9, <1>10, <1>11,
       <1>12, <1>13, <1>14, <1>15, <1>16, <1>17, <1>18, <1>19, <1>20, <1>21,
       <1>22, <1>23, <1>24 DEF Next, WorkerStep

(* What one thread has established no other takes away. *)
LEMMA ThreadsStep == PipelineInvariant /\ [Next]_vars => ThreadsConsistent'
  <1> SUFFICES ASSUME PipelineInvariant, [Next]_vars PROVE ThreadsConsistent'
    OBVIOUS
  <1> USE PipelineAssumption DEF PipelineInvariant, StoresTyped, ThreadsTyped,
          ThreadsConsistent, StoresConsistent, Known,
          inboxVars, graphVars, lineageVars, workerVars, PC
  <1>1. ASSUME NEW e \in Event, DeliverNew(e)
         PROVE  ThreadsConsistent'
    <2>1. Cardinality({d \in Event : receivedAt[d] > 0}) \in Nat
      BY FS_CardinalityType DEF FinitelyReceived
    <2> QED
      BY <1>1, <2>1 DEF DeliverNew, Inbox!Admit
  <1>2. ASSUME NEW e \in Event, DeliverAgain(e)
         PROVE  ThreadsConsistent'
    BY <1>2 DEF DeliverAgain, Spend
  <1>3. ASSUME NEW w \in Worker, NEW e \in Event, StartTask(w, e) \/ StartProcess(w, e)
         PROVE  ThreadsConsistent'
    BY <1>3 DEF StartTask, StartProcess, Begin, Spend
  <1>4. ASSUME NEW w \in Worker, Claim(w)
         PROVE  ThreadsConsistent'
    BY <1>4 DEF Claim, Goto, Leave, Free, Overdue, Spend, Inbox!Take, Inbox!TakeAndGiveBack
  <1>5. ASSUME NEW w \in Worker, ClaimRefused(w)
         PROVE  ThreadsConsistent'
    BY <1>5 DEF ClaimRefused, Leave
  <1>6. ASSUME NEW w \in Worker, Reproject(w)
         PROVE  ThreadsConsistent'
    BY <1>6 DEF Reproject, Merge, Goto
  <1>7. ASSUME NEW w \in Worker, Project(w)
         PROVE  ThreadsConsistent'
    BY <1>7 DEF Project, Merge, Goto, Spend
  <1>8. ASSUME NEW w \in Worker, Finalize(w)
         PROVE  ThreadsConsistent'
    BY <1>8 DEF Finalize, Goto, Leave, Inbox!Close
  <1>9. ASSUME NEW w \in Worker, Gate(w)
         PROVE  ThreadsConsistent'
    BY <1>9 DEF Gate, Goto, Leave
  <1>10. ASSUME NEW w \in Worker, ReadInputs(w)
         PROVE  ThreadsConsistent'
    BY <1>10 DEF ReadInputs, Goto
  <1>11. ASSUME NEW w \in Worker, ReadFeatures(w)
         PROVE  ThreadsConsistent'
    BY <1>11 DEF ReadFeatures, Goto, HasHistory, Features
  <1>12. ASSUME NEW w \in Worker, FindCase(w)
         PROVE  ThreadsConsistent'
    BY <1>12 DEF FindCase, OpenCases
  <1>13. ASSUME NEW w \in Worker, Persist(w)
         PROVE  ThreadsConsistent'
    BY <1>13 DEF Persist, Goto
  <1>14. ASSUME NEW w \in Worker, PersistConflicts(w)
         PROVE  ThreadsConsistent'
    BY <1>14 DEF PersistConflicts, Goto
  <1>15. ASSUME NEW w \in Worker, ScoringFails(w)
         PROVE  ThreadsConsistent'
    BY <1>15 DEF ScoringFails, Goto, Spend
  <1>16. ASSUME NEW w \in Worker, Mark(w)
         PROVE  ThreadsConsistent'
    BY <1>16 DEF Mark, Leave
  <1>17. ASSUME NEW w \in Worker, Clear(w)
         PROVE  ThreadsConsistent'
    BY <1>17 DEF Clear, Leave
  <1>18. ASSUME NEW w \in Worker, SelectUnscored(w)
         PROVE  ThreadsConsistent'
    BY <1>18 DEF SelectUnscored, Unscored, Oldest
  <1>19. ASSUME NEW w \in Worker, NextItem(w)
         PROVE  ThreadsConsistent'
    BY <1>19 DEF NextItem, Begin
  <1>20. ASSUME NEW w \in Worker, NEW S \in SUBSET Event, StartCatchUp(w, S)
         PROVE  ThreadsConsistent'
    BY <1>20 DEF StartCatchUp, Oldest, Free, Overdue
  <1>21. ASSUME NEW c \in cases, CloseCase(c)
         PROVE  ThreadsConsistent'
    BY <1>21 DEF CloseCase, Spend
  <1>22. ASSUME NEW w \in Worker, Die(w)
         PROVE  ThreadsConsistent'
    BY <1>22 DEF Die, Drop, Spend, Inbox!Abandon
  <1>23. ASSUME Restart
         PROVE  ThreadsConsistent'
    BY <1>23 DEF Restart, Drop, Spend, Inbox!Abandon
  <1>24. CASE UNCHANGED vars
    BY <1>24 DEF vars
  <1> QED
    BY <1>1, <1>2, <1>3, <1>4, <1>5, <1>6, <1>7, <1>8, <1>9, <1>10, <1>11,
       <1>12, <1>13, <1>14, <1>15, <1>16, <1>17, <1>18, <1>19, <1>20, <1>21,
       <1>22, <1>23, <1>24 DEF Next, WorkerStep

(* A case that was found stays a case: cases are closed, never removed. *)
LEMMA FoundStep == PipelineInvariant /\ [Next]_vars => FoundIsCase'
  <1> SUFFICES ASSUME PipelineInvariant, [Next]_vars PROVE FoundIsCase'
    OBVIOUS
  <1> USE PipelineAssumption DEF PipelineInvariant, ThreadsTyped, ThreadsConsistent,
          FoundIsCase, LineageTyped,
          inboxVars, graphVars, lineageVars, workerVars, PC
  <1>1. ASSUME NEW e \in Event, DeliverNew(e)
         PROVE  FoundIsCase'
    BY <1>1 DEF DeliverNew, Inbox!Admit
  <1>2. ASSUME NEW e \in Event, DeliverAgain(e)
         PROVE  FoundIsCase'
    BY <1>2 DEF DeliverAgain, Spend
  <1>3. ASSUME NEW w \in Worker, NEW e \in Event, StartTask(w, e) \/ StartProcess(w, e)
         PROVE  FoundIsCase'
    BY <1>3 DEF StartTask, StartProcess, Begin, Spend
  <1>4. ASSUME NEW w \in Worker, Claim(w)
         PROVE  FoundIsCase'
    BY <1>4 DEF Claim, Goto, Leave, Free, Overdue, Spend, Inbox!Take, Inbox!TakeAndGiveBack
  <1>5. ASSUME NEW w \in Worker, ClaimRefused(w)
         PROVE  FoundIsCase'
    BY <1>5 DEF ClaimRefused, Leave
  <1>6. ASSUME NEW w \in Worker, Reproject(w)
         PROVE  FoundIsCase'
    BY <1>6 DEF Reproject, Merge, Goto
  <1>7. ASSUME NEW w \in Worker, Project(w)
         PROVE  FoundIsCase'
    BY <1>7 DEF Project, Merge, Goto, Spend
  <1>8. ASSUME NEW w \in Worker, Finalize(w)
         PROVE  FoundIsCase'
    BY <1>8 DEF Finalize, Goto, Leave, Inbox!Close
  <1>9. ASSUME NEW w \in Worker, Gate(w)
         PROVE  FoundIsCase'
    BY <1>9 DEF Gate, Goto, Leave
  <1>10. ASSUME NEW w \in Worker, ReadInputs(w)
         PROVE  FoundIsCase'
    BY <1>10 DEF ReadInputs, Goto
  <1>11. ASSUME NEW w \in Worker, ReadFeatures(w)
         PROVE  FoundIsCase'
    BY <1>11 DEF ReadFeatures, Goto, HasHistory, Features
  <1>12. ASSUME NEW w \in Worker, FindCase(w)
         PROVE  FoundIsCase'
    BY <1>12 DEF FindCase, OpenCases
  <1>13. ASSUME NEW w \in Worker, Persist(w)
         PROVE  FoundIsCase'
    BY <1>13 DEF Persist, Goto
  <1>14. ASSUME NEW w \in Worker, PersistConflicts(w)
         PROVE  FoundIsCase'
    BY <1>14 DEF PersistConflicts, Goto
  <1>15. ASSUME NEW w \in Worker, ScoringFails(w)
         PROVE  FoundIsCase'
    BY <1>15 DEF ScoringFails, Goto, Spend
  <1>16. ASSUME NEW w \in Worker, Mark(w)
         PROVE  FoundIsCase'
    BY <1>16 DEF Mark, Leave
  <1>17. ASSUME NEW w \in Worker, Clear(w)
         PROVE  FoundIsCase'
    BY <1>17 DEF Clear, Leave
  <1>18. ASSUME NEW w \in Worker, SelectUnscored(w)
         PROVE  FoundIsCase'
    BY <1>18 DEF SelectUnscored, Unscored, Oldest
  <1>19. ASSUME NEW w \in Worker, NextItem(w)
         PROVE  FoundIsCase'
    BY <1>19 DEF NextItem, Begin
  <1>20. ASSUME NEW w \in Worker, NEW S \in SUBSET Event, StartCatchUp(w, S)
         PROVE  FoundIsCase'
    BY <1>20 DEF StartCatchUp, Oldest, Free, Overdue
  <1>21. ASSUME NEW c \in cases, CloseCase(c)
         PROVE  FoundIsCase'
    BY <1>21 DEF CloseCase, Spend
  <1>22. ASSUME NEW w \in Worker, Die(w)
         PROVE  FoundIsCase'
    BY <1>22 DEF Die, Drop, Spend, Inbox!Abandon
  <1>23. ASSUME Restart
         PROVE  FoundIsCase'
    BY <1>23 DEF Restart, Drop, Spend, Inbox!Abandon
  <1>24. CASE UNCHANGED vars
    BY <1>24 DEF vars
  <1> QED
    BY <1>1, <1>2, <1>3, <1>4, <1>5, <1>6, <1>7, <1>8, <1>9, <1>10, <1>11,
       <1>12, <1>13, <1>14, <1>15, <1>16, <1>17, <1>18, <1>19, <1>20, <1>21,
       <1>22, <1>23, <1>24 DEF Next, WorkerStep

(* What an evaluation was based on stays what was known at its cutoff. *)
LEMMA KnownStep == PipelineInvariant /\ [Next]_vars => ScoredOnWhatWasKnown'
  <1> SUFFICES ASSUME PipelineInvariant, [Next]_vars PROVE ScoredOnWhatWasKnown'
    OBVIOUS
  <1> USE PipelineAssumption DEF PipelineInvariant, StoresTyped, ThreadsTyped,
          ThreadsConsistent, StoresConsistent, LineageTyped, Known,
          ScoredOnWhatWasKnown, Scored,
          inboxVars, graphVars, lineageVars, workerVars, PC
  <1>1. ASSUME NEW e \in Event, DeliverNew(e)
         PROVE  ScoredOnWhatWasKnown'
    <2>1. Cardinality({d \in Event : receivedAt[d] > 0}) \in Nat
      BY FS_CardinalityType DEF FinitelyReceived
    <2> QED
      BY <1>1, <2>1 DEF DeliverNew, Inbox!Admit
  <1>2. ASSUME NEW e \in Event, DeliverAgain(e)
         PROVE  ScoredOnWhatWasKnown'
    BY <1>2 DEF DeliverAgain, Spend
  <1>3. ASSUME NEW w \in Worker, NEW e \in Event, StartTask(w, e) \/ StartProcess(w, e)
         PROVE  ScoredOnWhatWasKnown'
    BY <1>3 DEF StartTask, StartProcess, Begin, Spend
  <1>4. ASSUME NEW w \in Worker, Claim(w)
         PROVE  ScoredOnWhatWasKnown'
    BY <1>4 DEF Claim, Goto, Leave, Free, Overdue, Spend, Inbox!Take, Inbox!TakeAndGiveBack
  <1>5. ASSUME NEW w \in Worker, ClaimRefused(w)
         PROVE  ScoredOnWhatWasKnown'
    BY <1>5 DEF ClaimRefused, Leave
  <1>6. ASSUME NEW w \in Worker, Reproject(w)
         PROVE  ScoredOnWhatWasKnown'
    BY <1>6 DEF Reproject, Merge, Goto
  <1>7. ASSUME NEW w \in Worker, Project(w)
         PROVE  ScoredOnWhatWasKnown'
    BY <1>7 DEF Project, Merge, Goto, Spend
  <1>8. ASSUME NEW w \in Worker, Finalize(w)
         PROVE  ScoredOnWhatWasKnown'
    BY <1>8 DEF Finalize, Goto, Leave, Inbox!Close
  <1>9. ASSUME NEW w \in Worker, Gate(w)
         PROVE  ScoredOnWhatWasKnown'
    BY <1>9 DEF Gate, Goto, Leave
  <1>10. ASSUME NEW w \in Worker, ReadInputs(w)
         PROVE  ScoredOnWhatWasKnown'
    BY <1>10 DEF ReadInputs, Goto
  <1>11. ASSUME NEW w \in Worker, ReadFeatures(w)
         PROVE  ScoredOnWhatWasKnown'
    BY <1>11 DEF ReadFeatures, Goto, HasHistory, Features
  <1>12. ASSUME NEW w \in Worker, FindCase(w)
         PROVE  ScoredOnWhatWasKnown'
    BY <1>12 DEF FindCase, OpenCases
  <1>13. ASSUME NEW w \in Worker, Persist(w)
         PROVE  ScoredOnWhatWasKnown'
    <2>1. /\ item[w] \in Event /\ pc[w] = "persist"
          /\ evaluation' = [evaluation EXCEPT ![item[w]] =
                               [decision |-> DecisionOf(w), case |-> CaseOf(w)]]
      BY <1>13, PersistDescribed
    <2>2. evaluation'[item[w]].decision[2] = view[w]
      BY <2>1 DEF DecisionOf
    <2>3. phase' = phase /\ receivedAt' = receivedAt /\ graph' = graph
      BY <1>13 DEF Persist
    <2> QED
      BY <2>1, <2>2, <2>3
  <1>14. ASSUME NEW w \in Worker, PersistConflicts(w)
         PROVE  ScoredOnWhatWasKnown'
    BY <1>14 DEF PersistConflicts, Goto
  <1>15. ASSUME NEW w \in Worker, ScoringFails(w)
         PROVE  ScoredOnWhatWasKnown'
    BY <1>15 DEF ScoringFails, Goto, Spend
  <1>16. ASSUME NEW w \in Worker, Mark(w)
         PROVE  ScoredOnWhatWasKnown'
    BY <1>16 DEF Mark, Leave
  <1>17. ASSUME NEW w \in Worker, Clear(w)
         PROVE  ScoredOnWhatWasKnown'
    BY <1>17 DEF Clear, Leave
  <1>18. ASSUME NEW w \in Worker, SelectUnscored(w)
         PROVE  ScoredOnWhatWasKnown'
    BY <1>18 DEF SelectUnscored, Unscored, Oldest
  <1>19. ASSUME NEW w \in Worker, NextItem(w)
         PROVE  ScoredOnWhatWasKnown'
    BY <1>19 DEF NextItem, Begin
  <1>20. ASSUME NEW w \in Worker, NEW S \in SUBSET Event, StartCatchUp(w, S)
         PROVE  ScoredOnWhatWasKnown'
    BY <1>20 DEF StartCatchUp, Oldest, Free, Overdue
  <1>21. ASSUME NEW c \in cases, CloseCase(c)
         PROVE  ScoredOnWhatWasKnown'
    BY <1>21 DEF CloseCase, Spend
  <1>22. ASSUME NEW w \in Worker, Die(w)
         PROVE  ScoredOnWhatWasKnown'
    BY <1>22 DEF Die, Drop, Spend, Inbox!Abandon
  <1>23. ASSUME Restart
         PROVE  ScoredOnWhatWasKnown'
    BY <1>23 DEF Restart, Drop, Spend, Inbox!Abandon
  <1>24. CASE UNCHANGED vars
    BY <1>24 DEF vars
  <1> QED
    BY <1>1, <1>2, <1>3, <1>4, <1>5, <1>6, <1>7, <1>8, <1>9, <1>10, <1>11,
       <1>12, <1>13, <1>14, <1>15, <1>16, <1>17, <1>18, <1>19, <1>20, <1>21,
       <1>22, <1>23, <1>24 DEF Next, WorkerStep

-----------------------------------------------------------------------------

(* The invariant is inductive. *)
THEOREM InvariantHolds == Spec => []PipelineInvariant
  <1>1. PipelineInvariant /\ [Next]_vars => PipelineInvariant'
    BY StoresTypedStep, LineageTypedStep, ThreadsTypedStep, ReceivedStep, StoresStep,
       ThreadsStep, FoundStep, WholeStep, OpenStep, KnownStep
       DEF PipelineInvariant
  <1> QED
    BY InitInvariant, <1>1, PTL DEF Spec

(* However scorers overlap and fail, no lineage is partial. *)
THEOREM WholeHolds == Spec => []LineageIsWhole
  BY InvariantHolds, PTL DEF PipelineInvariant

(* Every score is that of a finished risk event, on what was known then. *)
THEOREM KnowledgeHolds == Spec => []ScoredOnWhatWasKnown
  BY InvariantHolds, PTL DEF PipelineInvariant

(* Concurrent scorers of one account leave it one open case. *)
THEOREM OneOpenCaseHolds == Spec => []OneOpenCase
  <1>1. PipelineInvariant => OneOpenCase
    <2> SUFFICES ASSUME PipelineInvariant, NEW a \in Account
                 PROVE  Cardinality(OpenCases(a)) <= 1
      BY DEF OneOpenCase
    <2>1. CASE OpenCases(a) = {}
      BY <2>1, FS_EmptySet
    <2>2. CASE OpenCases(a) # {}
      <3>1. PICK c : c \in OpenCases(a)
        BY <2>2
      <3>2. OpenCases(a) = {c}
        BY <3>1 DEF OpenCases, PipelineInvariant, OpenCaseIsUnique
      <3>3. Cardinality({c}) = 1
        BY FS_Singleton
      <3>4. Cardinality(OpenCases(a)) = 1
        BY <3>2, <3>3
      <3> QED
        BY <3>4
    <2> QED
      BY <2>1, <2>2
  <1> QED
    BY InvariantHolds, <1>1, PTL

(* Lineage is append-only: no retry, redelivery, takeover or crash revises it. *)
THEOREM FinalityHolds == Spec => LineageIsFinal
  <1>1. PipelineInvariant /\ [Next]_vars =>
          [/\ \A e \in Event : Scored(e) => evaluation'[e] = evaluation[e]
           /\ decisions \subseteq decisions' /\ attached \subseteq attached'
           /\ closed \subseteq closed']_vars
    <2> SUFFICES ASSUME PipelineInvariant, [Next]_vars
                 PROVE  /\ \A e \in Event : Scored(e) => evaluation'[e] = evaluation[e]
                        /\ decisions \subseteq decisions' /\ attached \subseteq attached'
                        /\ closed \subseteq closed'
      OBVIOUS
    <2>0. LineageTyped
      BY DEF PipelineInvariant
    <2>1. CASE UNCHANGED lineageVars
      BY <2>1 DEF lineageVars
    <2>2. ASSUME NEW w \in Worker, Persist(w)
          PROVE  /\ \A e \in Event : Scored(e) => evaluation'[e] = evaluation[e]
                 /\ decisions \subseteq decisions' /\ attached \subseteq attached'
                 /\ closed \subseteq closed'
      BY <2>0, <2>2, PersistDescribed DEF LineageTyped, Scored
    <2>3. ASSUME NEW c \in cases, CloseCase(c)
          PROVE  /\ \A e \in Event : Scored(e) => evaluation'[e] = evaluation[e]
                 /\ decisions \subseteq decisions' /\ attached \subseteq attached'
                 /\ closed \subseteq closed'
      BY <2>3 DEF CloseCase
    <2> QED
      BY <2>1, <2>2, <2>3, LineageSteps
  <1> QED
    BY InvariantHolds, <1>1, PTL DEF Spec, LineageIsFinal

-----------------------------------------------------------------------------
(* Type correctness of the rest, and the size of a batch. *)

(* The events that were received. *)
Received == {d \in Event : receivedAt[d] > 0}

(* Receipts are numbered one after another, so no two events share a number. *)
ReceiptsNumbered ==
    \A e \in Received :
        /\ phase[e] # "absent"
        /\ receivedAt[e] <= Cardinality(Received)
        /\ \A d \in Received : receivedAt[d] = receivedAt[e] => d = e

(* The variables of TypeOK that no other property needs. *)
RecordsTyped ==
    /\ holder \in [Event -> Worker \cup {None}]
    /\ closedBy \in [Event -> Worker \cup {None}]
    /\ markers \subseteq Event
    /\ retry \in [Worker -> BOOLEAN]
    /\ quota \in [Worker -> 0..Limit]
    /\ used \in [{"redelivery", "start", "crash", "fault", "expiry", "close"} -> Nat]

(* The first n of received events are no more than n. *)
LEMMA OldestAreFew ==
    ASSUME PipelineInvariant, ReceiptsNumbered, NEW S \in SUBSET Received, NEW n \in Nat
    PROVE  Oldest(S, n) \subseteq S /\ Cardinality(Oldest(S, n)) \in 0..n
  <1> DEFINE T == Oldest(S, n)
             Before(e) == {d \in S : receivedAt[d] < receivedAt[e]}
             rank == [e \in T |-> Cardinality(Before(e))]
  <1>1. IsFiniteSet(S) /\ receivedAt \in [Event -> Nat]
    BY FS_Subset DEF PipelineInvariant, FinitelyReceived, StoresTyped, Received
  <1>2. T \subseteq S /\ IsFiniteSet(T) /\ S \subseteq Event
    BY <1>1, FS_Subset DEF Oldest, Received
  <1>3. ASSUME NEW e \in S
        PROVE  Before(e) \in SUBSET S /\ IsFiniteSet(Before(e)) /\ Cardinality(Before(e)) \in Nat
    BY <1>1, FS_Subset, FS_CardinalityType
  <1>4. \A e \in T : e \in S /\ Cardinality(Before(e)) < n
    BY DEF Oldest
  <1>5. ASSUME NEW d \in S, NEW e \in S, receivedAt[d] < receivedAt[e]
        PROVE  Cardinality(Before(d)) # Cardinality(Before(e))
    <2>1. Before(d) \subseteq Before(e) /\ d \in Before(e) /\ d \notin Before(d)
      BY <1>1, <1>2, <1>5
    <2>2. IsFiniteSet(Before(e))
      BY <1>3
    <2> HIDE DEF Before
    <2> QED
      BY <2>1, <2>2, FS_Subset
  <1>6. ASSUME NEW d \in T, NEW e \in T, rank[d] = rank[e] PROVE d = e
    <2>1. Cardinality(Before(d)) = Cardinality(Before(e))
      BY <1>6
    <2>2. d \in S /\ e \in S /\ receivedAt[d] \in Nat /\ receivedAt[e] \in Nat
      BY <1>1, <1>2
    <2> HIDE DEF Before
    <2>3. receivedAt[d] = receivedAt[e]
      BY <1>5, <2>1, <2>2
    <2> QED
      BY <2>2, <2>3 DEF ReceiptsNumbered, Received
  <1>7. rank \in [T -> 0 .. n - 1]
    <2>1. ASSUME NEW e \in T PROVE Cardinality(Before(e)) \in 0 .. n - 1
      <3>1. Cardinality(Before(e)) \in Nat /\ Cardinality(Before(e)) < n
        BY <1>3, <1>4
      <3> HIDE DEF Before, T
      <3> QED
        BY <3>1
    <2> HIDE DEF Before, T
    <2> QED
      BY <2>1
  <1>8. rank \in Injection(T, 0 .. n - 1)
    <2> HIDE DEF rank, T
    <2> QED
      BY <1>6, <1>7 DEF Injection, IsInjective
  <1>9. IsFiniteSet(0 .. n - 1) /\ Cardinality(0 .. n - 1) = n
    BY FS_Interval
  <1> HIDE DEF rank, T
  <1>10. Cardinality(T) <= n
    BY <1>8, <1>9, FS_Injection
  <1>11. Cardinality(T) \in Nat
    BY <1>2, FS_CardinalityType
  <1> QED
    BY <1>2, <1>10, <1>11 DEF T

(* What is received stays in the inbox. *)
LEMMA AcceptedStays ==
    ASSUME PipelineInvariant, [Next]_vars, NEW e \in Event, phase[e] # "absent"
    PROVE  phase'[e] # "absent"
  <1> USE DEF PipelineInvariant, StoresTyped
  <1>1. CASE phase' = phase
    BY <1>1
  <1>2. ASSUME NEW d \in Event, phase' \in {[phase EXCEPT ![d] = p] : p \in {"open", "held", "done"}}
        PROVE  phase'[e] # "absent"
    BY <1>2
  <1>3. ASSUME NEW w \in Worker, Claim(w) \/ Finalize(w) PROVE phase'[e] # "absent"
    <2>1. item[w] \in Event
      BY <1>3 DEF Claim, Finalize, ThreadsConsistent
    <2>2. phase' = phase \/ phase' \in {[phase EXCEPT ![item[w]] = p] : p \in {"open", "held", "done"}}
      BY <1>3 DEF Claim, Finalize, Inbox!Take, Inbox!TakeAndGiveBack, Inbox!Close, inboxVars
    <2> QED
      BY <1>1, <1>2, <2>1, <2>2
  <1>4. ASSUME NEW d \in Event, DeliverNew(d) PROVE phase'[e] # "absent"
    BY <1>2, <1>4 DEF DeliverNew, Inbox!Admit
  <1>5. ASSUME NEW w \in Worker,
               \/ ClaimRefused(w) \/ Reproject(w) \/ Project(w) \/ Gate(w) \/ ReadInputs(w)
               \/ ReadFeatures(w) \/ FindCase(w) \/ Persist(w) \/ PersistConflicts(w)
        PROVE  phase' = phase
    BY <1>5 DEF ClaimRefused, Reproject, Project, Gate, ReadInputs, ReadFeatures, FindCase,
                Persist, PersistConflicts, inboxVars
  <1>6. ASSUME NEW w \in Worker,
               \/ ScoringFails(w) \/ Mark(w) \/ Clear(w) \/ SelectUnscored(w) \/ NextItem(w)
               \/ Die(w)
        PROVE  phase' = phase
    BY <1>6 DEF ScoringFails, Mark, Clear, SelectUnscored, NextItem, Die, Drop, Inbox!Abandon,
                inboxVars
  <1>7. ASSUME NEW w \in Worker, NEW S \in SUBSET Event, StartCatchUp(w, S)
        PROVE  phase' = phase
    BY <1>7 DEF StartCatchUp, inboxVars
  <1>8. ASSUME NEW w \in Worker, NEW d \in Event,
               StartTask(w, d) \/ StartProcess(w, d) \/ DeliverAgain(d)
        PROVE  phase' = phase
    BY <1>8 DEF StartTask, StartProcess, DeliverAgain, inboxVars
  <1>9. ASSUME NEW c \in cases, CloseCase(c) PROVE phase' = phase
    BY <1>9 DEF CloseCase, inboxVars
  <1>10. CASE Restart \/ UNCHANGED vars
    BY <1>10 DEF Restart, Drop, Inbox!Abandon, vars, inboxVars
  <1>11. ASSUME NEW d \in Event, DeliverAgain(d) PROVE phase' = phase
    BY <1>11 DEF DeliverAgain, inboxVars
  <1> HIDE DEF PipelineInvariant, StoresTyped
  <1> QED
    BY <1>1, <1>3, <1>4, <1>5, <1>6, <1>7, <1>8, <1>9, <1>10, <1>11 DEF Next, WorkerStep

(* A receipt takes the next number. *)
LEMMA NumberedStep ==
    PipelineInvariant /\ ReceiptsNumbered /\ [Next]_vars => ReceiptsNumbered'
  <1> SUFFICES ASSUME PipelineInvariant, ReceiptsNumbered, [Next]_vars
               PROVE  ReceiptsNumbered'
    OBVIOUS
  <1>0. IsFiniteSet(Received) /\ receivedAt \in [Event -> Nat]
    BY DEF PipelineInvariant, FinitelyReceived, StoresTyped, Received
  <1>1. ASSUME NEW e \in Event, DeliverNew(e) PROVE ReceiptsNumbered'
    <2> DEFINE n == Cardinality(Received)
    <2>1. n \in Nat
      BY <1>0, FS_CardinalityType
    <2>2. receivedAt' = [receivedAt EXCEPT ![e] = 1 + n]
      BY <1>1 DEF DeliverNew, Received
    <2>3. Received' = Received \cup {e}
      BY <1>0, <2>1, <2>2 DEF Received
    <2>4. Cardinality(Received') = IF e \in Received THEN n ELSE n + 1
      BY <1>0, <2>3, FS_AddElement
    <2>5. e \notin Received
      BY <1>1 DEF DeliverNew, Inbox!Admit, ReceiptsNumbered
    <2>6. /\ receivedAt'[e] = n + 1 /\ \A d \in Received : receivedAt'[d] = receivedAt[d]
          /\ \A d \in Received : receivedAt[d] \in Nat
      <3>1. \A d \in Received : d \in Event /\ d # e
        BY <2>5 DEF Received
      <3> HIDE DEF n
      <3> QED
        BY <1>0, <2>1, <2>2, <3>1
    <2>7. phase'[e] # "absent"
      BY <1>1 DEF DeliverNew, Inbox!Admit, PipelineInvariant, StoresTyped
    <2> HIDE DEF n
    <2>8. ASSUME NEW d \in Received
          PROVE  /\ receivedAt[d] <= n /\ phase'[d] # "absent"
                 /\ \A f \in Received : receivedAt[f] = receivedAt[d] => f = d
      BY AcceptedStays DEF ReceiptsNumbered, Received, n
    <2> QED
      BY <2>1, <2>3, <2>4, <2>5, <2>6, <2>7, <2>8 DEF ReceiptsNumbered
  <1>2. CASE receivedAt' = receivedAt
    <2>1. Received' = Received
      BY <1>2 DEF Received
    <2>2. \A e \in Received : phase'[e] # "absent"
      BY AcceptedStays DEF ReceiptsNumbered, Received
    <2> QED
      BY <1>2, <2>1, <2>2 DEF ReceiptsNumbered
  <1> QED
    BY <1>1, <1>2, ReceiptSteps

(* The records of the inbox, the markers, the threads and the bounds. *)
LEMMA RecordsStep ==
    PipelineInvariant /\ ReceiptsNumbered /\ RecordsTyped /\ [Next]_vars => RecordsTyped'
  <1> SUFFICES ASSUME PipelineInvariant, ReceiptsNumbered, RecordsTyped, [Next]_vars
               PROVE  RecordsTyped'
    OBVIOUS
  <1> USE DEF RecordsTyped, inboxVars, graphVars, lineageVars, workerVars
  <1>0. /\ Limit \in 1 .. 100 /\ None \notin Worker
        /\ \A w \in Worker : pc[w] \notin {"idle", "next", "select"} => item[w] \in Event
    BY PipelineAssumption DEF PipelineInvariant, ThreadsConsistent
  <1>1. ASSUME NEW e \in Event, DeliverNew(e)
        PROVE  RecordsTyped'
    BY <1>0, <1>1 DEF DeliverNew, Inbox!Admit
  <1>2. ASSUME NEW e \in Event, DeliverAgain(e)
        PROVE  RecordsTyped'
    BY <1>0, <1>2 DEF DeliverAgain, Spend
  <1>3. ASSUME NEW w \in Worker, NEW e \in Event, StartTask(w, e) \/ StartProcess(w, e)
        PROVE  RecordsTyped'
    <2>1. /\ retry' = [retry EXCEPT ![w] = TRUE] /\ quota' = quota
          /\ used' = used \/ Spend("start")
          /\ UNCHANGED <<holder, closedBy, markers>>
      BY <1>3 DEF StartTask, StartProcess
    <2> QED
      BY <2>1 DEF Spend
  <1>4. ASSUME NEW w \in Worker, Claim(w)
        PROVE  RecordsTyped'
    <2> DEFINE e == item[w]
    <2>1. e \in Event
      BY <1>0, <1>4 DEF Claim
    <2>2. \/ Inbox!Take(w, e) /\ Goto(w, "project")
          \/ Inbox!TakeAndGiveBack(w, e) /\ Leave(w)
      BY <1>4 DEF Claim
    <2>3. (used' = used \/ Spend("expiry")) /\ UNCHANGED markers
      BY <1>4 DEF Claim
    <2> HIDE DEF e
    <2>4. holder' \in [Event -> Worker \cup {None}] /\ closedBy' \in [Event -> Worker \cup {None}]
      BY <2>1, <2>2 DEF Inbox!Take, Inbox!TakeAndGiveBack
    <2>5. retry' \in [Worker -> BOOLEAN] /\ quota' = quota
      BY <2>2 DEF Goto, Leave
    <2> QED
      BY <2>3, <2>4, <2>5 DEF Spend
  <1>5. ASSUME NEW w \in Worker, ClaimRefused(w) \/ Reproject(w)
        PROVE  RecordsTyped'
    BY <1>0, <1>5 DEF ClaimRefused, Reproject, Leave, Goto
  <1>6. ASSUME NEW w \in Worker, Project(w)
        PROVE  RecordsTyped'
    BY <1>0, <1>6 DEF Project, Goto, Spend
  <1>7. ASSUME NEW w \in Worker, Finalize(w)
        PROVE  RecordsTyped'
    BY <1>0, <1>7 DEF Finalize, Goto, Leave, Inbox!Close
  <1>8. ASSUME NEW w \in Worker, Gate(w) \/ ReadInputs(w)
        PROVE  RecordsTyped'
    BY <1>0, <1>8 DEF Gate, ReadInputs, Goto, Leave
  <1>9. ASSUME NEW w \in Worker, ReadFeatures(w) \/ FindCase(w)
        PROVE  RecordsTyped'
    BY <1>0, <1>9 DEF ReadFeatures, FindCase, Goto
  <1>10. ASSUME NEW w \in Worker, Persist(w) \/ PersistConflicts(w)
        PROVE  RecordsTyped'
    BY <1>0, <1>10 DEF Persist, PersistConflicts, Goto
  <1>11. ASSUME NEW w \in Worker, ScoringFails(w)
        PROVE  RecordsTyped'
    BY <1>0, <1>11 DEF ScoringFails, Goto, Spend
  <1>12. ASSUME NEW w \in Worker, Mark(w) \/ Clear(w)
        PROVE  RecordsTyped'
    BY <1>0, <1>12 DEF Mark, Clear, Leave
  <1>13. ASSUME NEW w \in Worker, SelectUnscored(w)
        PROVE  RecordsTyped'
    BY <1>0, <1>13 DEF SelectUnscored
  <1>14. ASSUME NEW w \in Worker, NextItem(w)
        PROVE  RecordsTyped'
    BY <1>0, <1>14 DEF NextItem, Begin
  <1>15. ASSUME NEW w \in Worker, NEW S \in SUBSET Event, StartCatchUp(w, S)
        PROVE  RecordsTyped'
    <2> DEFINE S0 == {e \in Event : Free(e)} \cup S
               ready == Oldest(S0, Limit)
    <2>1. S # {} => \A e \in S : Overdue(w, e)
      BY <1>15 DEF StartCatchUp
    <2>2. S0 \in SUBSET Received
      BY <2>1 DEF Free, Overdue, Received, PipelineInvariant, StoresConsistent
    <2>3. quota' = [quota EXCEPT ![w] = Limit - Cardinality(ready)]
      BY <1>15 DEF StartCatchUp
    <2> HIDE DEF S0
    <2>4. Cardinality(ready) \in 0..Limit
      <3>1. Limit \in Nat
        BY <1>0
      <3> QED
        BY <2>2, <3>1, OldestAreFew
    <2> HIDE DEF ready
    <2>5. quota' \in [Worker -> 0..Limit]
      BY <1>0, <2>3, <2>4
    <2> QED
      BY <1>15, <2>5 DEF StartCatchUp
  <1>16. ASSUME NEW c \in cases, CloseCase(c)
        PROVE  RecordsTyped'
    BY <1>0, <1>16 DEF CloseCase, Spend
  <1>17. ASSUME NEW w \in Worker, Die(w)
        PROVE  RecordsTyped'
    BY <1>0, <1>17 DEF Die, Drop, Spend, Inbox!Abandon
  <1>18. ASSUME Restart
        PROVE  RecordsTyped'
    BY <1>0, <1>18 DEF Restart, Drop, Spend, Inbox!Abandon
  <1>19. CASE UNCHANGED vars
    BY <1>19 DEF vars
  <1> QED
    BY <1>1, <1>2, <1>3, <1>4, <1>5, <1>6, <1>7, <1>8, <1>9, <1>10, <1>11,
       <1>12, <1>13, <1>14, <1>15, <1>16, <1>17, <1>18, <1>19 DEF Next, WorkerStep

(* Every variable keeps its type; a batch leaves at most its limit for later. *)
THEOREM TypeCorrect == Spec => []TypeOK
  <1>1. Init => ReceiptsNumbered /\ RecordsTyped
    BY PipelineAssumption DEF Init, Inbox!Init, ReceiptsNumbered, RecordsTyped, Received
  <1>2. PipelineInvariant /\ RecordsTyped => TypeOK
    BY DEF PipelineInvariant, StoresTyped, LineageTyped, ThreadsTyped, RecordsTyped, TypeOK,
           Inbox!TypeOK, Inbox!Phase
  <1> QED
    BY <1>1, <1>2, InvariantHolds, NumberedStep, RecordsStep, PTL DEF Spec

===============================================================================
