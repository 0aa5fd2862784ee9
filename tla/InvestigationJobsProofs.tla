----------------------- MODULE InvestigationJobsProofs -----------------------
(***************************************************************************)
(* Machine-checked proofs about InvestigationJobs, for any sets of runs,   *)
(* triggers, reports and executors, any lease and any bounds.              *)
(***************************************************************************)
EXTENDS InvestigationJobs, TLAPS

(* What an executor knows when it stands between two transactions: it has a  *)
(* job that was triggered and a token, and a report before it persists one.  *)
ExecutorsAtWork ==
    \A w \in Worker :
        /\ pc[w] # "idle" =>
             item[w] \in Run /\ token[w] # 0 /\ status[item[w]] # "ABSENT"
        /\ pc[w] = "persist" => result[w] \in Content

(* Readings of the clock are in the past, distinct, and new to the jobs until *)
(* they are used for a claim.                                                *)
TokensConsistent ==
    /\ \A w \in Worker : pc[w] # "idle" => token[w] < clock
    /\ \A r \in Run : claimedAt[r] < clock
    /\ \A v, w \in Worker :
          pc[v] # "idle" /\ pc[w] # "idle" /\ token[v] = token[w] => v = w
    /\ \A w \in Worker : \A r \in Run : pc[w] = "claim" => claimedAt[r] # token[w]

(* Whoever carries the token of a job's last claim has it RUNNING. *)
OwnerRuns == \A w \in Worker : \A r \in Run : Owns(w, r) => status[r] = "RUNNING"

(* The inductive invariant. *)
JobsInvariant == TypeOK /\ ExecutorsAtWork /\ TokensConsistent /\ OwnerRuns /\ JobsAreWhole

(* Nothing is triggered and nobody works at first. *)
LEMMA InitInvariant == Init => JobsInvariant
  BY JobsAssumption
     DEF Init, JobsInvariant, TypeOK, ExecutorsAtWork, TokensConsistent, OwnerRuns,
         Owns, JobsAreWhole, Status, PC, Holding

(* Every step keeps jobs, runs and executors well-typed. *)
LEMMA TypeStep == JobsInvariant /\ [Next]_vars => TypeOK'
  <1> SUFFICES ASSUME JobsInvariant, [Next]_vars PROVE TypeOK'
    OBVIOUS
  <1> USE JobsAssumption DEF JobsInvariant, TypeOK, ExecutorsAtWork, Status, PC, Holding,
          jobVars, runVars, workerVars
  <1>1. ASSUME NEW r \in Run, NEW k \in Trigger, Enqueue(r, k)
         PROVE  TypeOK'
    BY <1>1 DEF Enqueue, Spend
  <1>2. ASSUME NEW k \in Trigger, EnqueueAgain(k)
         PROVE  TypeOK'
    BY <1>2 DEF EnqueueAgain, Spend
  <1>3. ASSUME NEW w \in Worker, Claim(w)
         PROVE  TypeOK'
    BY <1>3 DEF Claim, Claimable
  <1>4. ASSUME NEW w \in Worker, ClaimRefused(w)
         PROVE  TypeOK'
    BY <1>4 DEF ClaimRefused, Leave
  <1>5. ASSUME NEW w \in Worker, Execute(w)
         PROVE  TypeOK'
    BY <1>5 DEF Execute
  <1>6. ASSUME NEW w \in Worker, ExecuteFails(w)
         PROVE  TypeOK'
    BY <1>6 DEF ExecuteFails, Spend
  <1>7. ASSUME NEW w \in Worker, Complete(w)
         PROVE  TypeOK'
    BY <1>7 DEF Complete, OwnsJob, Leave
  <1>8. ASSUME NEW w \in Worker, CompleteFails(w)
         PROVE  TypeOK'
    BY <1>8 DEF CompleteFails, Spend
  <1>9. ASSUME NEW w \in Worker, Fail(w)
         PROVE  TypeOK'
    BY <1>9 DEF Fail, OwnsJob, Leave
  <1>10. ASSUME NEW w \in Worker, Die(w)
         PROVE  TypeOK'
    BY <1>10 DEF Die, Leave, Spend
  <1>11. ASSUME NEW w \in Worker, NEW r \in Run, StartTask(w, r) \/ StartProcess(w, r)
         PROVE  TypeOK'
    BY <1>11 DEF StartTask, StartProcess, Begin, Spend
  <1>12. ASSUME Tick
         PROVE  TypeOK'
    BY <1>12 DEF Tick, Spend
  <1>13. ASSUME Restart
         PROVE  TypeOK'
    BY <1>13 DEF Restart, Spend
  <1>14. CASE UNCHANGED vars
    BY <1>14 DEF vars
  <1> QED
    BY <1>1, <1>2, <1>3, <1>4, <1>5, <1>6, <1>7, <1>8, <1>9, <1>10, <1>11,
       <1>12, <1>13, <1>14 DEF Next, WorkerStep

(* A step leaves the other executors at work on triggered jobs. *)
LEMMA ExecutorStep == JobsInvariant /\ [Next]_vars => ExecutorsAtWork'
  <1> SUFFICES ASSUME JobsInvariant, [Next]_vars PROVE ExecutorsAtWork'
    OBVIOUS
  <1> USE JobsAssumption DEF JobsInvariant, TypeOK, ExecutorsAtWork, Status, PC, Holding,
          jobVars, runVars, workerVars
  <1>1. ASSUME NEW r \in Run, NEW k \in Trigger, Enqueue(r, k)
         PROVE  ExecutorsAtWork'
    BY <1>1 DEF Enqueue, Spend
  <1>2. ASSUME NEW k \in Trigger, EnqueueAgain(k)
         PROVE  ExecutorsAtWork'
    BY <1>2 DEF EnqueueAgain, Spend
  <1>3. ASSUME NEW w \in Worker, Claim(w)
         PROVE  ExecutorsAtWork'
    BY <1>3 DEF Claim, Claimable
  <1>4. ASSUME NEW w \in Worker, ClaimRefused(w)
         PROVE  ExecutorsAtWork'
    BY <1>4 DEF ClaimRefused, Leave
  <1>5. ASSUME NEW w \in Worker, Execute(w)
         PROVE  ExecutorsAtWork'
    BY <1>5 DEF Execute
  <1>6. ASSUME NEW w \in Worker, ExecuteFails(w)
         PROVE  ExecutorsAtWork'
    BY <1>6 DEF ExecuteFails, Spend
  <1>7. ASSUME NEW w \in Worker, Complete(w)
         PROVE  ExecutorsAtWork'
    BY <1>7 DEF Complete, OwnsJob, Leave
  <1>8. ASSUME NEW w \in Worker, CompleteFails(w)
         PROVE  ExecutorsAtWork'
    BY <1>8 DEF CompleteFails, Spend
  <1>9. ASSUME NEW w \in Worker, Fail(w)
         PROVE  ExecutorsAtWork'
    BY <1>9 DEF Fail, OwnsJob, Leave
  <1>10. ASSUME NEW w \in Worker, Die(w)
         PROVE  ExecutorsAtWork'
    BY <1>10 DEF Die, Leave, Spend
  <1>11. ASSUME NEW w \in Worker, NEW r \in Run, StartTask(w, r) \/ StartProcess(w, r)
         PROVE  ExecutorsAtWork'
    BY <1>11 DEF StartTask, StartProcess, Begin, Spend
  <1>12. ASSUME Tick
         PROVE  ExecutorsAtWork'
    BY <1>12 DEF Tick, Spend
  <1>13. ASSUME Restart
         PROVE  ExecutorsAtWork'
    BY <1>13 DEF Restart, Spend
  <1>14. CASE UNCHANGED vars
    BY <1>14 DEF vars
  <1> QED
    BY <1>1, <1>2, <1>3, <1>4, <1>5, <1>6, <1>7, <1>8, <1>9, <1>10, <1>11,
       <1>12, <1>13, <1>14 DEF Next, WorkerStep

(* Every reading of the clock is later than those before it. *)
LEMMA TokensStep == JobsInvariant /\ [Next]_vars => TokensConsistent'
  <1> SUFFICES ASSUME JobsInvariant, [Next]_vars PROVE TokensConsistent'
    OBVIOUS
  <1> USE JobsAssumption DEF JobsInvariant, TypeOK, ExecutorsAtWork, Status, PC, Holding,
          jobVars, runVars, workerVars, TokensConsistent
  <1>1. ASSUME NEW r \in Run, NEW k \in Trigger, Enqueue(r, k)
         PROVE  TokensConsistent'
    BY <1>1 DEF Enqueue, Spend
  <1>2. ASSUME NEW k \in Trigger, EnqueueAgain(k)
         PROVE  TokensConsistent'
    BY <1>2 DEF EnqueueAgain, Spend
  <1>3. ASSUME NEW w \in Worker, Claim(w)
         PROVE  TokensConsistent'
    BY <1>3 DEF Claim, Claimable
  <1>4. ASSUME NEW w \in Worker, ClaimRefused(w)
         PROVE  TokensConsistent'
    BY <1>4 DEF ClaimRefused, Leave
  <1>5. ASSUME NEW w \in Worker, Execute(w)
         PROVE  TokensConsistent'
    BY <1>5 DEF Execute
  <1>6. ASSUME NEW w \in Worker, ExecuteFails(w)
         PROVE  TokensConsistent'
    BY <1>6 DEF ExecuteFails, Spend
  <1>7. ASSUME NEW w \in Worker, Complete(w)
         PROVE  TokensConsistent'
    BY <1>7 DEF Complete, OwnsJob, Leave
  <1>8. ASSUME NEW w \in Worker, CompleteFails(w)
         PROVE  TokensConsistent'
    BY <1>8 DEF CompleteFails, Spend
  <1>9. ASSUME NEW w \in Worker, Fail(w)
         PROVE  TokensConsistent'
    BY <1>9 DEF Fail, OwnsJob, Leave
  <1>10. ASSUME NEW w \in Worker, Die(w)
         PROVE  TokensConsistent'
    BY <1>10 DEF Die, Leave, Spend
  <1>11. ASSUME NEW w \in Worker, NEW r \in Run, StartTask(w, r) \/ StartProcess(w, r)
         PROVE  TokensConsistent'
    BY <1>11 DEF StartTask, StartProcess, Begin, Spend
  <1>12. ASSUME Tick
         PROVE  TokensConsistent'
    BY <1>12 DEF Tick, Spend
  <1>13. ASSUME Restart
         PROVE  TokensConsistent'
    BY <1>13 DEF Restart, Spend
  <1>14. CASE UNCHANGED vars
    BY <1>14 DEF vars
  <1> QED
    BY <1>1, <1>2, <1>3, <1>4, <1>5, <1>6, <1>7, <1>8, <1>9, <1>10, <1>11,
       <1>12, <1>13, <1>14 DEF Next, WorkerStep

(* Whoever closes or reclaims a job takes it from every other executor. *)
LEMMA OwnerStep == JobsInvariant /\ [Next]_vars => OwnerRuns'
  <1> SUFFICES ASSUME JobsInvariant, [Next]_vars PROVE OwnerRuns'
    OBVIOUS
  <1> USE JobsAssumption DEF JobsInvariant, TypeOK, ExecutorsAtWork, Status, PC, Holding,
          jobVars, runVars, workerVars, TokensConsistent, OwnerRuns, Owns
  <1>1. ASSUME NEW r \in Run, NEW k \in Trigger, Enqueue(r, k)
         PROVE  OwnerRuns'
    BY <1>1 DEF Enqueue, Spend
  <1>2. ASSUME NEW k \in Trigger, EnqueueAgain(k)
         PROVE  OwnerRuns'
    BY <1>2 DEF EnqueueAgain, Spend
  <1>3. ASSUME NEW w \in Worker, Claim(w)
         PROVE  OwnerRuns'
    BY <1>3 DEF Claim, Claimable
  <1>4. ASSUME NEW w \in Worker, ClaimRefused(w)
         PROVE  OwnerRuns'
    BY <1>4 DEF ClaimRefused, Leave
  <1>5. ASSUME NEW w \in Worker, Execute(w)
         PROVE  OwnerRuns'
    BY <1>5 DEF Execute
  <1>6. ASSUME NEW w \in Worker, ExecuteFails(w)
         PROVE  OwnerRuns'
    BY <1>6 DEF ExecuteFails, Spend
  <1>7. ASSUME NEW w \in Worker, Complete(w)
         PROVE  OwnerRuns'
    BY <1>7 DEF Complete, OwnsJob, Leave
  <1>8. ASSUME NEW w \in Worker, CompleteFails(w)
         PROVE  OwnerRuns'
    BY <1>8 DEF CompleteFails, Spend
  <1>9. ASSUME NEW w \in Worker, Fail(w)
         PROVE  OwnerRuns'
    BY <1>9 DEF Fail, OwnsJob, Leave
  <1>10. ASSUME NEW w \in Worker, Die(w)
         PROVE  OwnerRuns'
    BY <1>10 DEF Die, Leave, Spend
  <1>11. ASSUME NEW w \in Worker, NEW r \in Run, StartTask(w, r) \/ StartProcess(w, r)
         PROVE  OwnerRuns'
    BY <1>11 DEF StartTask, StartProcess, Begin, Spend
  <1>12. ASSUME Tick
         PROVE  OwnerRuns'
    BY <1>12 DEF Tick, Spend
  <1>13. ASSUME Restart
         PROVE  OwnerRuns'
    BY <1>13 DEF Restart, Spend
  <1>14. CASE UNCHANGED vars
    BY <1>14 DEF vars
  <1> QED
    BY <1>1, <1>2, <1>3, <1>4, <1>5, <1>6, <1>7, <1>8, <1>9, <1>10, <1>11,
       <1>12, <1>13, <1>14 DEF Next, WorkerStep

(* Only a fenced completion stores a run, and it stores all of it. *)
LEMMA WholeStep == JobsInvariant /\ [Next]_vars => JobsAreWhole'
  <1> SUFFICES ASSUME JobsInvariant, [Next]_vars PROVE JobsAreWhole'
    OBVIOUS
  <1> USE JobsAssumption DEF JobsInvariant, TypeOK, ExecutorsAtWork, Status, PC, Holding,
          jobVars, runVars, workerVars, JobsAreWhole
  <1>1. ASSUME NEW r \in Run, NEW k \in Trigger, Enqueue(r, k)
         PROVE  JobsAreWhole'
    BY <1>1 DEF Enqueue, Spend
  <1>2. ASSUME NEW k \in Trigger, EnqueueAgain(k)
         PROVE  JobsAreWhole'
    BY <1>2 DEF EnqueueAgain, Spend
  <1>3. ASSUME NEW w \in Worker, Claim(w)
         PROVE  JobsAreWhole'
    BY <1>3 DEF Claim, Claimable
  <1>4. ASSUME NEW w \in Worker, ClaimRefused(w)
         PROVE  JobsAreWhole'
    BY <1>4 DEF ClaimRefused, Leave
  <1>5. ASSUME NEW w \in Worker, Execute(w)
         PROVE  JobsAreWhole'
    BY <1>5 DEF Execute
  <1>6. ASSUME NEW w \in Worker, ExecuteFails(w)
         PROVE  JobsAreWhole'
    BY <1>6 DEF ExecuteFails, Spend
  <1>7. ASSUME NEW w \in Worker, Complete(w)
         PROVE  JobsAreWhole'
    BY <1>7 DEF Complete, OwnsJob, Leave
  <1>8. ASSUME NEW w \in Worker, CompleteFails(w)
         PROVE  JobsAreWhole'
    BY <1>8 DEF CompleteFails, Spend
  <1>9. ASSUME NEW w \in Worker, Fail(w)
         PROVE  JobsAreWhole'
    BY <1>9 DEF Fail, OwnsJob, Leave
  <1>10. ASSUME NEW w \in Worker, Die(w)
         PROVE  JobsAreWhole'
    BY <1>10 DEF Die, Leave, Spend
  <1>11. ASSUME NEW w \in Worker, NEW r \in Run, StartTask(w, r) \/ StartProcess(w, r)
         PROVE  JobsAreWhole'
    BY <1>11 DEF StartTask, StartProcess, Begin, Spend
  <1>12. ASSUME Tick
         PROVE  JobsAreWhole'
    BY <1>12 DEF Tick, Spend
  <1>13. ASSUME Restart
         PROVE  JobsAreWhole'
    BY <1>13 DEF Restart, Spend
  <1>14. CASE UNCHANGED vars
    BY <1>14 DEF vars
  <1> QED
    BY <1>1, <1>2, <1>3, <1>4, <1>5, <1>6, <1>7, <1>8, <1>9, <1>10, <1>11,
       <1>12, <1>13, <1>14 DEF Next, WorkerStep

-----------------------------------------------------------------------------

(* The invariant is inductive. *)
THEOREM InvariantHolds == Spec => []JobsInvariant
  <1>1. JobsInvariant /\ [Next]_vars => JobsInvariant'
    BY TypeStep, ExecutorStep, TokensStep, OwnerStep, WholeStep DEF JobsInvariant
  <1> QED
    BY InitInvariant, <1>1, PTL DEF Spec

(* The job table and its executors stay well-typed, whatever fails. *)
THEOREM TypeCorrect == Spec => []TypeOK
  BY InvariantHolds, PTL DEF JobsInvariant

(* A claim token has one carrier, so that it can serve as a fence. *)
LEMMA OwnerIsUnique ==
    JobsInvariant =>
        \A r \in Run : \A v, w \in Worker : Owns(v, r) /\ Owns(w, r) => v = w
  BY DEF JobsInvariant, TokensConsistent, Owns, Holding

(* A key has one job, and COMPLETED, run and report are stored together, by  *)
(* the executor of the last claim.                                           *)
THEOREM WholeHolds == Spec => []JobsAreWhole
  BY InvariantHolds, PTL DEF JobsInvariant

----------------------------------------------------------------------------
(***************************************************************************)
(* The investigation job table implements LeasedWork: proof of the         *)
(* refinement that TLC checks on a small instance as ImplementsLeasedWork. *)
(***************************************************************************)
(* No two executors carry the token of one job's last claim. *)
OneExecutor == \A r \in Run : \A v, w \in Worker : Owns(v, r) /\ Owns(w, r) => v = w

(* A token has one carrier. *)
LEMMA OneExecutorHolds ==
    ASSUME JobsInvariant, JobsInvariant' PROVE OneExecutor /\ OneExecutor'
  <1>1. JobsInvariant => OneExecutor
    BY OwnerIsUnique DEF OneExecutor
  <1>2. (JobsInvariant => OneExecutor)'
    BY <1>1, OwnerIsUnique, PTL DEF OneExecutor
  <1> QED
    BY <1>1, <1>2

(* The mapped holder of r is h, in terms of ownership. *)
Holds(r, h) ==
    \/ h \in Worker /\ Owns(h, r)
    \/ h = None /\ \A w \in Worker : ~Owns(w, r)

(* Every mapped holder is the job's one owner. *)
HolderIsOwner ==
    \A r \in Run : Holds(r, Job_Holder[r]) /\ \A h : Holds(r, h) => h = Job_Holder[r]

(* With one carrier of a token, the CHOOSE of the mapping has no choice. *)
LEMMA HolderDescribed == OneExecutor => HolderIsOwner
  <1> SUFFICES ASSUME OneExecutor, NEW r \in Run
               PROVE  Holds(r, Job_Holder[r]) /\ \A h : Holds(r, h) => h = Job_Holder[r]
    BY DEF HolderIsOwner
  <1>1. CASE \E w \in Worker : Owns(w, r)
    <2> DEFINE c == CHOOSE w \in Worker : Owns(w, r)
    <2>1. c \in Worker /\ Owns(c, r) /\ Job_Holder[r] = c
      BY <1>1 DEF Job_Holder
    <2> HIDE DEF c
    <2> QED
      BY <1>1, <2>1 DEF Holds, OneExecutor
  <1>2. CASE \A w \in Worker : ~Owns(w, r)
    <2>1. Job_Holder[r] = None
      BY <1>2 DEF Job_Holder
    <2>2. Holds(r, None)
      BY <1>2 DEF Holds
    <2>3. ASSUME NEW h, Holds(r, h) PROVE h = None
      BY <1>2, <2>3 DEF Holds
    <2> QED
      BY <2>1, <2>2, <2>3
  <1> QED
    BY <1>1, <1>2

(* The same of the next state. *)
LEMMA NextHolderDescribed ==
    ASSUME OneExecutor', NEW r \in Run
    PROVE  Holds(r, Job_Holder[r])' /\ \A h : Holds(r, h)' => h = Job_Holder'[r]
  <1>1. (OneExecutor => HolderIsOwner)'
    BY HolderDescribed, PTL
  <1> QED
    BY <1>1 DEF HolderIsOwner

(* A job whose owners do not change keeps its holder. *)
LEMMA SameHolder ==
    ASSUME OneExecutor, OneExecutor', NEW r \in Run,
           \A w \in Worker : Owns(w, r)' <=> Owns(w, r)
    PROVE  Job_Holder'[r] = Job_Holder[r]
  <1>1. Holds(r, Job_Holder[r])
    BY HolderDescribed DEF HolderIsOwner
  <1>2. Holds(r, Job_Holder[r]) => \A h : h = Job_Holder[r] => Holds(r, h)'
    BY DEF Holds
  <1> QED
    BY <1>1, <1>2, NextHolderDescribed

(* A job that gains an owner has it as its holder; one without has none. *)
LEMMA NewHolder ==
    ASSUME OneExecutor', NEW r \in Run
    PROVE  /\ \A w \in Worker : Owns(w, r)' => Job_Holder'[r] = w
           /\ (\A w \in Worker : ~Owns(w, r)') => Job_Holder'[r] = None
  BY NextHolderDescribed DEF Holds, HolderIsOwner

(* Nobody owns a job that was never triggered. *)
LEMMA InitRefines == Init => Leased!Init
  <1> SUFFICES ASSUME Init PROVE Leased!Init
    OBVIOUS
  <1>1. \A w \in Worker : \A r \in Run : ~Owns(w, r)
    BY DEF Init, Owns, Holding
  <1> QED
    BY <1>1 DEF Init, Leased!Init, Job_Phase, Job_Holder

(* A step that changes neither statuses, owners nor closers is a stutter. *)
LEMMA QuietStep ==
    ASSUME OneExecutor, OneExecutor', status' = status, closedBy' = closedBy,
           \A r \in Run : \A w \in Worker : Owns(w, r)' <=> Owns(w, r)
    PROVE  UNCHANGED Leased!vars
  <1>1. \A r \in Run : Job_Holder'[r] = Job_Holder[r]
    BY SameHolder
  <1>2. Job_Holder' = Job_Holder
    BY <1>1 DEF Job_Holder
  <1> QED
    BY <1>2 DEF Leased!vars, Job_Phase

(* Steps that touch no claim: starts, the agent, rolled-back transactions, and *)
(* whatever an executor does that has lost its job.                           *)
Quiet(w) ==
    \/ ClaimRefused(w) \/ Execute(w) \/ ExecuteFails(w) \/ CompleteFails(w)
    \/ Fail(w) /\ ~OwnsJob(w)
    \/ \E r \in Run : StartTask(w, r) \/ StartProcess(w, r)

(* Such a step is a stutter of LeasedWork. *)
LEMMA QuietRefines ==
    ASSUME JobsInvariant, JobsInvariant', NEW w \in Worker, Quiet(w)
    PROVE  UNCHANGED Leased!vars
  <1> USE DEF JobsInvariant, TypeOK, Holding, PC, Owns, jobVars, runVars, workerVars
  <1>1. status' = status /\ closedBy' = closedBy /\ claimedAt' = claimedAt
    BY DEF Quiet, ClaimRefused, Execute, ExecuteFails, CompleteFails, Fail,
           StartTask, StartProcess, Begin
  <1>2. ASSUME NEW r \in Run, NEW v \in Worker, v # w
        PROVE  Owns(v, r)' <=> Owns(v, r)
    BY <1>1, <1>2
       DEF Quiet, ClaimRefused, Execute, ExecuteFails, CompleteFails, Fail,
           StartTask, StartProcess, Begin, Leave
  <1>3. ASSUME NEW r \in Run
        PROVE  Owns(w, r)' <=> Owns(w, r)
    <2>1. CASE ClaimRefused(w) \/ \E q \in Run : StartTask(w, q) \/ StartProcess(w, q)
      BY <2>1 DEF ClaimRefused, StartTask, StartProcess, Begin, Leave
    <2>2. CASE Execute(w) \/ ExecuteFails(w) \/ CompleteFails(w)
      BY <1>1, <2>2 DEF Execute, ExecuteFails, CompleteFails
    <2>3. CASE Fail(w) /\ ~OwnsJob(w)
      BY <2>3 DEF Fail, OwnsJob, OwnerRuns, Leave
    <2> QED
      BY <2>1, <2>2, <2>3 DEF Quiet
  <1>4. \A r \in Run : \A v \in Worker : Owns(v, r)' <=> Owns(v, r)
    BY <1>2, <1>3
  <1> HIDE DEF JobsInvariant, TypeOK, Owns
  <1> QED
    BY <1>1, <1>4, OneExecutorHolds, QuietStep

(* A claim is an abstract Take by the claiming executor. *)
LEMMA ClaimRefines ==
    ASSUME JobsInvariant, JobsInvariant', NEW w \in Worker, Claim(w)
    PROVE  Leased!Take(w, item[w]) /\ item[w] \in Run
  <1> USE DEF JobsInvariant, TypeOK, Holding, PC, Owns, jobVars, runVars, workerVars
  <1>0. status \in [Run -> Status]
    OBVIOUS
  <1>1. PICK r \in Run : r = item[w]
    BY DEF Claim, ExecutorsAtWork
  <1>2. /\ status[r] \in {"QUEUED", "FAILED", "RUNNING"}
        /\ status' = [status EXCEPT ![r] = "RUNNING"]
        /\ closedBy' = closedBy
        /\ ~Owns(w, r)
        /\ Owns(w, r)'
    BY <1>1 DEF Claim, Claimable
  <1>3. ASSUME NEW q \in Run, q # r, NEW v \in Worker
        PROVE  Owns(v, q)' <=> Owns(v, q)
    BY <1>1, <1>3 DEF Claim
  <1> HIDE DEF JobsInvariant, TypeOK, Owns
  <1>4. \A q \in Run : q # r => Job_Holder'[q] = Job_Holder[q]
    BY <1>3, OneExecutorHolds, SameHolder
  <1>5. Job_Holder'[r] = w
    BY <1>2, OneExecutorHolds, NewHolder
  <1>6. Job_Holder[r] # w
    BY <1>2, OneExecutorHolds, HolderDescribed, JobsAssumption DEF Holds, HolderIsOwner
  <1>7. Job_Holder' = [Job_Holder EXCEPT ![r] = w]
    BY <1>4, <1>5 DEF Job_Holder
  <1>8. Job_Phase' = [Job_Phase EXCEPT ![r] = "held"] /\ Job_Phase[r] \in {"open", "held"}
    BY <1>0, <1>2 DEF Job_Phase, Status
  <1> QED
    BY <1>1, <1>2, <1>6, <1>7, <1>8 DEF Leased!Take

(* Completing or failing a job is an abstract Close by its holder. *)
LEMMA CloseRefines ==
    ASSUME JobsInvariant, JobsInvariant', NEW w \in Worker,
           Complete(w) \/ (Fail(w) /\ OwnsJob(w))
    PROVE  item[w] \in Run /\ \E p \in {"open", "done"} : Leased!Close(item[w], p)
  <1> USE DEF JobsInvariant, TypeOK, Holding, PC, Owns, jobVars, runVars, workerVars
  <1>0. status \in [Run -> Status]
    OBVIOUS
  <1>1. PICK r \in Run : r = item[w]
    BY DEF Complete, Fail, ExecutorsAtWork
  <1>2. PICK st \in {"COMPLETED", "FAILED"} : status' = [status EXCEPT ![r] = st]
    BY <1>1 DEF Complete, Fail
  <1>3. /\ status[r] = "RUNNING"
        /\ closedBy' = [closedBy EXCEPT ![r] = w]
        /\ Owns(w, r)
    BY <1>1 DEF Complete, Fail, OwnsJob
  <1>4. ASSUME NEW q \in Run, q # r, NEW v \in Worker
        PROVE  Owns(v, q)' <=> Owns(v, q)
    BY <1>1, <1>4 DEF Complete, Fail, Leave
  <1>5. ASSUME NEW v \in Worker
        PROVE  ~Owns(v, r)'
    BY <1>1, <1>3 DEF Complete, Fail, Leave, TokensConsistent
  <1> HIDE DEF JobsInvariant, TypeOK, Owns
  <1>6. \A q \in Run : q # r => Job_Holder'[q] = Job_Holder[q]
    BY <1>4, OneExecutorHolds, SameHolder
  <1>7. Job_Holder'[r] = None
    BY <1>5, OneExecutorHolds, NewHolder
  <1>8. Job_Holder[r] = w
    BY <1>3, OneExecutorHolds, HolderDescribed DEF Holds, HolderIsOwner
  <1>9. Job_Holder' = [Job_Holder EXCEPT ![r] = None]
    BY <1>6, <1>7 DEF Job_Holder
  <1>10. Job_Phase[r] = "held"
    BY <1>0, <1>3 DEF Job_Phase, Status
  <1>11. PICK p \in {"open", "done"} : Job_Phase' = [Job_Phase EXCEPT ![r] = p]
    <2>1. CASE st = "COMPLETED"
      BY <1>0, <1>2, <2>1 DEF Job_Phase, Status
    <2>2. CASE st = "FAILED"
      BY <1>0, <1>2, <2>2 DEF Job_Phase, Status
    <2> QED
      BY <2>1, <2>2
  <1> QED
    BY <1>1, <1>3, <1>8, <1>9, <1>10, <1>11 DEF Leased!Close

(* Dying executors abandon exactly the jobs they own. *)
LEMMA CrashRefines ==
    ASSUME JobsInvariant, JobsInvariant', Restart \/ \E w \in Worker : Die(w)
    PROVE  \E S \in SUBSET Run : Leased!Abandon(S)
  <1> USE DEF JobsInvariant, TypeOK, Holding, PC, Owns, jobVars, runVars, workerVars
  <1>0. status \in [Run -> Status]
    OBVIOUS
  <1> DEFINE S == {r \in Run : \E w \in Worker : Owns(w, r) /\ ~Owns(w, r)'}
  <1>1. status' = status /\ closedBy' = closedBy
    BY DEF Restart, Die
  <1>2. \A r \in Run : \A v \in Worker : Owns(v, r)' => Owns(v, r)
    BY DEF Restart, Die, Leave
  <1>3. \A r \in S : status[r] = "RUNNING"
    BY DEF OwnerRuns
  <1> HIDE DEF JobsInvariant, TypeOK, Owns
  <1>4. \A r \in S : Job_Holder'[r] = None /\ Job_Holder[r] \in Worker
    <2> SUFFICES ASSUME NEW r \in Run, NEW w \in Worker, Owns(w, r), ~Owns(w, r)'
                 PROVE  Job_Holder'[r] = None /\ Job_Holder[r] \in Worker
      OBVIOUS
    <2>1. \A v \in Worker : ~Owns(v, r)'
      BY <1>2, OneExecutorHolds DEF OneExecutor
    <2>2. Job_Holder[r] = w
      BY OneExecutorHolds, HolderDescribed DEF Holds, HolderIsOwner
    <2> QED
      BY <2>1, <2>2, OneExecutorHolds, NewHolder
  <1>5. \A r \in Run \ S : Job_Holder'[r] = Job_Holder[r]
    BY <1>2, OneExecutorHolds, SameHolder
  <1>6. Job_Holder' = [r \in Run |-> IF r \in S THEN None ELSE Job_Holder[r]]
    BY <1>4, <1>5 DEF Job_Holder
  <1>7. Job_Phase' = Job_Phase /\ \A r \in S : Job_Phase[r] = "held"
    BY <1>0, <1>1, <1>3 DEF Job_Phase, Status
  <1> QED
    BY <1>1, <1>4, <1>6, <1>7 DEF Leased!Abandon

(* The first trigger of a key admits its job. *)
LEMMA EnqueueRefines ==
    ASSUME JobsInvariant, JobsInvariant', NEW r \in Run, NEW k \in Trigger, Enqueue(r, k)
    PROVE  Leased!Admit(r)
  <1> USE DEF JobsInvariant, TypeOK, Owns, jobVars, runVars, workerVars
  <1>0. status \in [Run -> Status]
    OBVIOUS
  <1>1. /\ status[r] = "ABSENT"
        /\ status' = [status EXCEPT ![r] = "QUEUED"]
        /\ closedBy' = closedBy
        /\ \A q \in Run : \A v \in Worker : Owns(v, q)' <=> Owns(v, q)
    BY DEF Enqueue
  <1> HIDE DEF JobsInvariant, TypeOK, Owns
  <1>2. \A q \in Run : Job_Holder'[q] = Job_Holder[q]
    BY <1>1, OneExecutorHolds, SameHolder
  <1>3. Job_Holder' = Job_Holder
    BY <1>2 DEF Job_Holder
  <1>4. Job_Phase' = [Job_Phase EXCEPT ![r] = "open"] /\ Job_Phase[r] = "absent"
    BY <1>0, <1>1 DEF Job_Phase, Status
  <1> QED
    BY <1>1, <1>3, <1>4 DEF Leased!Admit

(* Repeated keys, the passing of time and stuttering touch no job. *)
LEMMA IdleRefines ==
    ASSUME JobsInvariant, JobsInvariant',
           (\E k \in Trigger : EnqueueAgain(k)) \/ Tick \/ UNCHANGED vars
    PROVE  UNCHANGED Leased!vars
  <1>1. /\ status' = status /\ closedBy' = closedBy
        /\ \A r \in Run : \A w \in Worker : Owns(w, r)' <=> Owns(w, r)
    BY DEF EnqueueAgain, Tick, vars, jobVars, runVars, workerVars, Owns
  <1> QED
    BY <1>1, OneExecutorHolds, QuietStep

(* Every step of the job table is a step of LeasedWork or a stutter. *)
LEMMA StepRefines ==
    JobsInvariant /\ JobsInvariant' /\ [Next]_vars => [Leased!Next]_(Leased!vars)
  <1> SUFFICES ASSUME JobsInvariant, JobsInvariant', [Next]_vars
               PROVE  [Leased!Next]_(Leased!vars)
    OBVIOUS
  <1>1. ASSUME NEW w \in Worker, Quiet(w) PROVE UNCHANGED Leased!vars
    BY <1>1, QuietRefines
  <1>2. ASSUME NEW w \in Worker, Claim(w) PROVE Leased!Next
    BY <1>2, ClaimRefines DEF Leased!Next
  <1>3. ASSUME NEW w \in Worker, Complete(w) \/ (Fail(w) /\ OwnsJob(w)) PROVE Leased!Next
    BY <1>3, CloseRefines DEF Leased!Next
  <1>4. ASSUME Restart \/ \E w \in Worker : Die(w) PROVE Leased!Next
    BY <1>4, CrashRefines DEF Leased!Next
  <1>5. ASSUME NEW r \in Run, NEW k \in Trigger, Enqueue(r, k) PROVE Leased!Next
    BY <1>5, EnqueueRefines DEF Leased!Next
  <1>6. ASSUME (\E k \in Trigger : EnqueueAgain(k)) \/ Tick \/ UNCHANGED vars
        PROVE  UNCHANGED Leased!vars
    BY <1>6, IdleRefines
  <1> QED
    BY <1>1, <1>2, <1>3, <1>4, <1>5, <1>6 DEF Next, WorkerStep, Quiet

(* The job table implements the abstract table of leased work: only its      *)
(* current executor closes a job, and a COMPLETED job is never claimed again. *)
THEOREM JobsRefineLeasedWork == Spec => ImplementsLeasedWork
  <1>1. Spec => Leased!Init
    BY InitRefines DEF Spec
  <1>2. Spec => [][Leased!Next]_(Leased!vars)
    BY InvariantHolds, StepRefines, PTL DEF Spec
  <1> QED
    BY <1>1, <1>2, PTL DEF ImplementsLeasedWork, Leased!Spec
================================================================================
