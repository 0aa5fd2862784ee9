-------------------------- MODULE MCInvestigationJobs --------------------------
(* Small instances of InvestigationJobs for TLC. *)
EXTENDS InvestigationJobs, TLC

CONSTANTS r1, r2, k1, k2, w1, w2, decision

(* Two keys for one decision. *)
MCDecisionOf == [k \in Trigger |-> decision]

(* Two executors, one retry, lost leases, a failure and a crash. *)
FencingBound == [trigger |-> 2, start |-> 1, fault |-> 1, crash |-> 1, tick |-> 1]

(* Two keys of one decision, no crash and no clock jump. *)
ReportsBound == [trigger |-> 2, start |-> 1, fault |-> 0, crash |-> 0, tick |-> 0]
===============================================================================
