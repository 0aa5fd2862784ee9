------------------------------ MODULE LeasedWork ------------------------------
(***************************************************************************)
(* What a leased, fenced work table promises, whatever the work is.  A     *)
(* piece of work is admitted once, is taken by one holder at a time, may   *)
(* be taken over from a holder that stalled or died, and is closed         *)
(* (finished, or given back for a retry) only by its current holder.       *)
(* Finished work is never taken again.                                     *)
(*                                                                         *)
(* The webhook inbox (WebhookInbox) and the investigation job table        *)
(* (InvestigationJobs) both implement this specification.                  *)
(***************************************************************************)
CONSTANTS Work, Holder, NoHolder

VARIABLES
    phase,      \* phase[i]: "absent", "open", "held" or "done"
    holder,     \* holder[i]: the live holder of i, or NoHolder
    closedBy    \* closedBy[i]: who last closed i, or NoHolder

vars == <<phase, holder, closedBy>>

Phase == {"absent", "open", "held", "done"}

TypeOK ==
    /\ phase \in [Work -> Phase]
    /\ holder \in [Work -> Holder \cup {NoHolder}]
    /\ closedBy \in [Work -> Holder \cup {NoHolder}]

Init ==
    /\ phase = [i \in Work |-> "absent"]
    /\ holder = [i \in Work |-> NoHolder]
    /\ closedBy = [i \in Work |-> NoHolder]

-----------------------------------------------------------------------------

Admit(i) ==
    /\ phase[i] = "absent"
    /\ phase' = [phase EXCEPT ![i] = "open"]
    /\ UNCHANGED <<holder, closedBy>>

(* h takes open work, or takes over work whose holder stalled or died. *)
Take(h, i) ==
    /\ phase[i] \in {"open", "held"}
    /\ holder[i] # h
    /\ phase' = [phase EXCEPT ![i] = "held"]
    /\ holder' = [holder EXCEPT ![i] = h]
    /\ UNCHANGED closedBy

(* The current holder closes its work as "open" (a retry is due) or "done". *)
Close(i, p) ==
    /\ phase[i] = "held"
    /\ holder[i] \in Holder
    /\ phase' = [phase EXCEPT ![i] = p]
    /\ closedBy' = [closedBy EXCEPT ![i] = holder[i]]
    /\ holder' = [holder EXCEPT ![i] = NoHolder]

(* h takes the work and gives it back in one step. *)
TakeAndGiveBack(h, i) ==
    /\ phase[i] \in {"open", "held"}
    /\ phase' = [phase EXCEPT ![i] = "open"]
    /\ holder' = [holder EXCEPT ![i] = NoHolder]
    /\ closedBy' = [closedBy EXCEPT ![i] = h]

(* The holders of the work in S die or drop it; the work stays taken. *)
Abandon(S) ==
    /\ \A i \in S : phase[i] = "held" /\ holder[i] \in Holder
    /\ holder' = [i \in Work |-> IF i \in S THEN NoHolder ELSE holder[i]]
    /\ UNCHANGED <<phase, closedBy>>

Next ==
    \/ \E i \in Work :
        \/ Admit(i)
        \/ \E p \in {"open", "done"} : Close(i, p)
        \/ \E h \in Holder : Take(h, i) \/ TakeAndGiveBack(h, i)
    \/ \E S \in SUBSET Work : Abandon(S)

Spec == Init /\ [][Next]_vars
===============================================================================
