---------------------------- MODULE MCWebhookInbox ----------------------------
(* Small instances of WebhookInbox for TLC. *)
EXTENDS WebhookInbox, TLC

CONSTANTS e1, e2, b1, b2, w1, w2, w3

(* b2 is dated ahead of early receipts, which then never normalize. *)
MCProviderTime == [b \in Body |-> IF b = b2 THEN 2 ELSE 0]

(* One row, three workers: leases that run out, stale workers, a crash. *)
FencingBound == [delivery |-> 2, start |-> 2, crash |-> 1, tick |-> 3]

(* Two rows, two workers: batches against direct attempts, and no worker *)
(* dies, so every scheduled task runs to its end.                        *)
BatchBound == [delivery |-> 2, start |-> 1, crash |-> 0, tick |-> 2]

Symmetry == Permutations(Worker)
===============================================================================
