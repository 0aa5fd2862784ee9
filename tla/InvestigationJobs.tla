--------------------------- MODULE InvestigationJobs ---------------------------
(***************************************************************************)
(* User-triggered investigations (Stage 12E).                              *)
(*                                                                         *)
(* A trigger commits one job row per (case, decision, idempotency key) and *)
(* then schedules a best-effort background task.  An executor leases the   *)
(* job, runs the agent outside any transaction, and stores the run, its    *)
(* report and the job's completion in one transaction fenced by the claim; *)
(* whatever goes wrong before is recorded by a fenced failure, and the job *)
(* may be executed again.                                                  *)
(*                                                                         *)
(* A trigger whose case, decision or lineage does not exist is answered    *)
(* with an error and changes nothing: Trigger holds the valid ones.  The   *)
(* agent is a choice among the reports it can end with.                    *)
(***************************************************************************)
EXTENDS Naturals, FiniteSets

CONSTANTS
    Run,            \* run IDs, fresh UUIDs
    Trigger,        \* the triples of case, decision and idempotency key
    DecisionOf,     \* [Trigger -> decisions]
    Content,        \* what a report can say of a decision
    Worker,         \* threads that execute jobs: background tasks and the CLI
    None,
    Lease,          \* lease_timeout
    Bound           \* record of the bounds on the environment's steps

ASSUME JobsAssumption ==
    /\ DOMAIN DecisionOf = Trigger
    /\ None \notin Worker \cup Run \cup Trigger \cup Content
    /\ Lease \in Nat \ {0}
    /\ Bound \in [trigger : Nat, start : Nat, fault : Nat, crash : Nat, tick : Nat]

VARIABLES
    status,         \* investigation_jobs.status; "ABSENT" when there is no row
    trigger,        \* the job's case_id, decision_id and idempotency_key
    claimedAt,      \* its claimed_at and last_attempt_at, 0 when NULL
    startedAt,      \* investigation_runs.started_at, 0 when there is no row
    report,         \* investigation_reports: content by run_id, or None
    tasks,          \* jobs whose background task is scheduled and not started
    clock,          \* the wall clock: the next reading
    pc,             \* where each worker is
    item,           \* the run ID it executes
    token,          \* its reading of the clock ("now"): the claim token
    result,         \* the report its agent ended with
    closedBy,       \* history: the worker that closed the last claim
    used            \* history: environment steps taken, for Bound

jobVars == <<status, trigger, claimedAt>>
runVars == <<startedAt, report>>
workerVars == <<pc, item, token, result>>
vars == <<jobVars, runVars, tasks, clock, workerVars, closedBy, used>>

Status == {"ABSENT", "QUEUED", "RUNNING", "COMPLETED", "FAILED"}

Holding == {"execute", "persist", "fail"}

PC == Holding \cup {"idle", "claim"}

Init ==
    /\ status = [r \in Run |-> "ABSENT"]
    /\ trigger = [r \in Run |-> None]
    /\ claimedAt = [r \in Run |-> 0]
    /\ startedAt = [r \in Run |-> 0]
    /\ report = [r \in Run |-> None]
    /\ tasks = {}
    /\ clock = 1
    /\ pc = [w \in Worker |-> "idle"]
    /\ item = [w \in Worker |-> None]
    /\ token = [w \in Worker |-> 0]
    /\ result = [w \in Worker |-> None]
    /\ closedBy = [r \in Run |-> None]
    /\ used = [trigger |-> 0, start |-> 0, fault |-> 0, crash |-> 0, tick |-> 0]

-----------------------------------------------------------------------------
(* Helpers *)

Spend(kind) ==
    /\ used[kind] < Bound[kind]
    /\ used' = [used EXCEPT ![kind] = @ + 1]

(* The WHERE clause of claim, for an executor that read the clock at t. *)
Claimable(r, t) ==
    \/ status[r] \in {"QUEUED", "FAILED"}
    \/ (status[r] = "RUNNING" /\ claimedAt[r] + Lease < t)

(* Mutant: completion and failure check the status only. *)
OwnsJobUnfenced(w) == status[item[w]] = "RUNNING"

(* The WHERE clause of the fenced completion and failure. *)
OwnsJob(w) ==
    /\ status[item[w]] = "RUNNING"
    /\ claimedAt[item[w]] = token[w]

(* The report ID hashes the decision's provenance and the report, not the run. *)
ReportId(r, content) == <<DecisionOf[trigger[r]], content>>

(* Another run has already stored a report with this ID. *)
ReportTaken(r, content) ==
    \E q \in Run \ {r} : report[q] # None /\ ReportId(q, report[q]) = ReportId(r, content)

Leave(w) ==
    /\ pc' = [pc EXCEPT ![w] = "idle"]
    /\ item' = [item EXCEPT ![w] = None]
    /\ token' = [token EXCEPT ![w] = 0]
    /\ result' = [result EXCEPT ![w] = None]

-----------------------------------------------------------------------------
(* POST /cases/{case_id}/investigations *)

(* Mutant: every trigger inserts a job of its own. *)
EnqueueUnconditionally(r, k) ==
    /\ Spend("trigger")
    /\ status[r] = "ABSENT"
    /\ status' = [status EXCEPT ![r] = "QUEUED"]
    /\ trigger' = [trigger EXCEPT ![r] = k]
    /\ tasks' = tasks \cup {r}
    /\ UNCHANGED <<claimedAt, runVars, clock, workerVars, closedBy>>

(* The first trigger with this key: a QUEUED row, then a background task. *)
Enqueue(r, k) ==
    /\ Spend("trigger")
    /\ status[r] = "ABSENT"
    /\ \A q \in Run : trigger[q] # k
    /\ status' = [status EXCEPT ![r] = "QUEUED"]
    /\ trigger' = [trigger EXCEPT ![r] = k]
    /\ tasks' = tasks \cup {r}
    /\ UNCHANGED <<claimedAt, runVars, clock, workerVars, closedBy>>

(* Mutant: a repeated trigger puts its job back in the queue. *)
EnqueueRequeues(k) ==
    /\ Spend("trigger")
    /\ \E q \in Run :
          /\ trigger[q] = k
          /\ status' = [status EXCEPT ![q] = "QUEUED"]
          /\ tasks' = tasks \cup {q}
    /\ UNCHANGED <<trigger, claimedAt, runVars, clock, workerVars, closedBy>>

(* A repeated key: the answer names the original job, nothing is scheduled. *)
EnqueueAgain(k) ==
    /\ Spend("trigger")
    /\ \E q \in Run : trigger[q] = k
    /\ UNCHANGED <<jobVars, runVars, tasks, clock, workerVars, closedBy>>

-----------------------------------------------------------------------------
(* InvestigationExecutionService.process *)

(* "now" is read before the transaction that claims. *)
Begin(w, r) ==
    /\ pc[w] = "idle"
    /\ status[r] # "ABSENT"
    /\ pc' = [pc EXCEPT ![w] = "claim"]
    /\ item' = [item EXCEPT ![w] = r]
    /\ token' = [token EXCEPT ![w] = clock]
    /\ clock' = clock + 1
    /\ UNCHANGED <<jobVars, runVars, result, closedBy>>

StartTask(w, r) ==
    /\ r \in tasks
    /\ tasks' = tasks \ {r}
    /\ Begin(w, r)
    /\ UNCHANGED used

StartProcess(w, r) ==
    /\ Spend("start")
    /\ Begin(w, r)
    /\ UNCHANGED tasks

Claim(w) ==
    LET r == item[w] IN
    /\ pc[w] = "claim"
    /\ Claimable(r, token[w])
    /\ status' = [status EXCEPT ![r] = "RUNNING"]
    /\ claimedAt' = [claimedAt EXCEPT ![r] = token[w]]
    /\ pc' = [pc EXCEPT ![w] = "execute"]
    /\ UNCHANGED <<trigger, runVars, tasks, clock, item, token, result, closedBy, used>>

(* The job is COMPLETED or leased to another executor: its status is reused. *)
ClaimRefused(w) ==
    /\ pc[w] = "claim"
    /\ ~Claimable(item[w], token[w])
    /\ Leave(w)
    /\ UNCHANGED <<jobVars, runVars, tasks, clock, closedBy, used>>

(* The agent ends with a report: grounded, rejected or out of budget. *)
Execute(w) ==
    /\ pc[w] = "execute"
    /\ \E content \in Content : result' = [result EXCEPT ![w] = content]
    /\ pc' = [pc EXCEPT ![w] = "persist"]
    /\ UNCHANGED <<jobVars, runVars, tasks, clock, item, token, closedBy, used>>

(* The lineage, the graph read or the model provider raises. *)
ExecuteFails(w) ==
    /\ Spend("fault")
    /\ pc[w] = "execute"
    /\ pc' = [pc EXCEPT ![w] = "fail"]
    /\ UNCHANGED <<jobVars, runVars, tasks, clock, item, token, result, closedBy>>

(* Mutant: the run and its report are committed before the job's completion. *)
CompleteInTwoSteps(w) ==
    LET r == item[w] IN
    /\ pc[w] = "persist"
    /\ startedAt[r] = 0 /\ ~ReportTaken(r, result[w])
    /\ startedAt' = [startedAt EXCEPT ![r] = token[w]]
    /\ report' = [report EXCEPT ![r] = result[w]]
    /\ IF OwnsJob(w)
       THEN /\ status' = [status EXCEPT ![r] = "COMPLETED"]
            /\ closedBy' = [closedBy EXCEPT ![r] = w]
       ELSE UNCHANGED <<status, closedBy>>
    /\ Leave(w)
    /\ UNCHANGED <<trigger, claimedAt, tasks, clock, used>>

(* One transaction: run, report, fenced completion. *)
Complete(w) ==
    LET r == item[w] IN
    /\ pc[w] = "persist"
    /\ startedAt[r] = 0
    /\ ~ReportTaken(r, result[w])
    /\ OwnsJob(w)
    /\ startedAt' = [startedAt EXCEPT ![r] = token[w]]
    /\ report' = [report EXCEPT ![r] = result[w]]
    /\ status' = [status EXCEPT ![r] = "COMPLETED"]
    /\ closedBy' = [closedBy EXCEPT ![r] = w]
    /\ Leave(w)
    /\ UNCHANGED <<trigger, claimedAt, tasks, clock, used>>

(* The transaction is rolled back: the run or the report ID is taken, the    *)
(* claim is lost, or the database fails.                                     *)
CompleteFails(w) ==
    LET r == item[w] IN
    /\ pc[w] = "persist"
    /\ \/ (startedAt[r] # 0 \/ ReportTaken(r, result[w]) \/ ~OwnsJob(w)) /\ UNCHANGED used
       \/ Spend("fault")
    /\ pc' = [pc EXCEPT ![w] = "fail"]
    /\ UNCHANGED <<jobVars, runVars, tasks, clock, item, token, result, closedBy>>

(* Mutant: the failure is not recorded. *)
FailSilently(w) ==
    /\ pc[w] = "fail"
    /\ Leave(w)
    /\ UNCHANGED <<jobVars, runVars, tasks, clock, closedBy, used>>

(* Mutant: the failure is recorded under a status the code does not know. *)
FailUnknown(w) ==
    LET r == item[w] IN
    /\ pc[w] = "fail"
    /\ status' = [status EXCEPT ![r] = IF OwnsJob(w) THEN "ERROR" ELSE @]
    /\ Leave(w)
    /\ UNCHANGED <<trigger, claimedAt, runVars, tasks, clock, closedBy, used>>

(* The failure is recorded if the claim is still owned, else suppressed. *)
Fail(w) ==
    LET r == item[w] IN
    /\ pc[w] = "fail"
    /\ IF OwnsJob(w)
       THEN /\ status' = [status EXCEPT ![r] = "FAILED"]
            /\ closedBy' = [closedBy EXCEPT ![r] = w]
       ELSE UNCHANGED <<status, closedBy>>
    /\ Leave(w)
    /\ UNCHANGED <<trigger, claimedAt, runVars, tasks, clock, used>>

-----------------------------------------------------------------------------
(* The environment *)

Tick ==
    /\ Spend("tick")
    /\ clock' = clock + 1
    /\ UNCHANGED <<jobVars, runVars, tasks, workerVars, closedBy>>

Die(w) ==
    /\ Spend("crash")
    /\ pc[w] # "idle"
    /\ Leave(w)
    /\ UNCHANGED <<jobVars, runVars, tasks, clock, closedBy>>

(* The backend restarts: scheduled tasks are lost with every thread. *)
Restart ==
    /\ Spend("crash")
    /\ tasks' = {}
    /\ pc' = [w \in Worker |-> "idle"]
    /\ item' = [w \in Worker |-> None]
    /\ token' = [w \in Worker |-> 0]
    /\ result' = [w \in Worker |-> None]
    /\ UNCHANGED <<jobVars, runVars, clock, closedBy>>

-----------------------------------------------------------------------------

WorkerStep(w) ==
    \/ Claim(w) \/ ClaimRefused(w)
    \/ Execute(w) \/ ExecuteFails(w)
    \/ Complete(w) \/ CompleteFails(w) \/ Fail(w)

Next ==
    \/ \E r \in Run, k \in Trigger : Enqueue(r, k)
    \/ \E k \in Trigger : EnqueueAgain(k)
    \/ \E w \in Worker : WorkerStep(w) \/ Die(w)
    \/ \E w \in Worker, r \in Run : StartTask(w, r) \/ StartProcess(w, r)
    \/ Tick
    \/ Restart

Spec == Init /\ [][Next]_vars

(* Scheduled tasks start, and a started execution runs on: the agent's model *)
(* and tool calls are bounded.                                               *)
Fairness ==
    /\ \A w \in Worker : WF_vars(WorkerStep(w))
    /\ \A r \in Run : WF_vars(\E w \in Worker : StartTask(w, r))

FairSpec == Spec /\ Fairness

-----------------------------------------------------------------------------
(* Properties *)

TypeOK ==
    /\ status \in [Run -> Status]
    /\ trigger \in [Run -> Trigger \cup {None}]
    /\ claimedAt \in [Run -> Nat]
    /\ startedAt \in [Run -> Nat]
    /\ report \in [Run -> Content \cup {None}]
    /\ tasks \subseteq Run
    /\ clock \in Nat \ {0}
    /\ pc \in [Worker -> PC]
    /\ item \in [Worker -> Run \cup {None}]
    /\ token \in [Worker -> Nat]
    /\ result \in [Worker -> Content \cup {None}]
    /\ closedBy \in [Run -> Worker \cup {None}]
    /\ used \in [{"trigger", "start", "fault", "crash", "tick"} -> Nat]

(* w has claimed r, is not finished with it, and no later claim replaced its own. *)
Owns(w, r) ==
    /\ pc[w] \in Holding
    /\ item[w] = r
    /\ token[w] = claimedAt[r]

(* No two jobs share case, decision and idempotency key, and a job is        *)
(* COMPLETED exactly if its run and its report are stored, and they are those *)
(* of its last claim: a client that repeats its key, concurrently or after a  *)
(* failure, gets one job; an executor that lost its lease leaves no run, and  *)
(* none of a job that is queued, running or failed is visible.                *)
JobsAreWhole ==
    /\ \A q, r \in Run : trigger[q] # None /\ trigger[q] = trigger[r] => q = r
    /\ \A r \in Run :
        IF status[r] = "COMPLETED"
        THEN startedAt[r] = claimedAt[r] /\ startedAt[r] # 0 /\ report[r] # None
        ELSE startedAt[r] = 0 /\ report[r] = None

(* The job table as leased work. *)
Job_Phase ==
    [r \in Run |-> IF status[r] = "ABSENT" THEN "absent"
                   ELSE IF status[r] = "RUNNING" THEN "held"
                   ELSE IF status[r] = "COMPLETED" THEN "done"
                   ELSE "open"]

Job_Holder ==
    [r \in Run |-> IF \E w \in Worker : Owns(w, r)
                       THEN CHOOSE w \in Worker : Owns(w, r)
                       ELSE None]

Leased == INSTANCE LeasedWork WITH
    Work <- Run, Holder <- Worker, NoHolder <- None,
    phase <- Job_Phase, holder <- Job_Holder

(* Claims, takeovers, completions and failures of jobs follow the lease      *)
(* protocol of the webhook inbox.                                            *)
ImplementsLeasedWork == Leased!Spec

(* A second investigation of a decision, under a key of its own, can store   *)
(* what it ended with: its report ID is not that of another run.             *)
SeparateRunsKeepTheirReports ==
    \A w \in Worker :
        pc[w] = "persist" /\ OwnsJob(w) => ~ReportTaken(item[w], result[w])

(* A triggered job reaches COMPLETED or FAILED unless a thread dies or the   *)
(* backend restarts: nothing but an explicit call executes it then.          *)
JobsSettle ==
    \A r \in Run :
        status[r] \in {"QUEUED", "RUNNING"}
            ~> status[r] \in {"COMPLETED", "FAILED"} \/ used.crash > 0
===============================================================================
