-------------------------- MODULE WebhookInboxProofs --------------------------
(***************************************************************************)
(* Machine-checked proofs about WebhookInbox, for any sets of deliveries,  *)
(* bodies and workers, any lease and any bounds on the environment.        *)
(***************************************************************************)
EXTENDS WebhookInbox, TLAPS

(* The empty inbox satisfies the inductive invariant. *)
LEMMA InitInvariant == Init => InboxInvariant
  BY InboxAssumption
     DEF Init, InboxInvariant, TypeOK, Status, PC, Holding, Reading, Owns,
         RowsConsistent, WorkersConsistent, TokensConsistent, OneOwner, OwnerHoldsClaim,
         StaleOnlyAfterLease, ProcessedIsProjected, GraphIsCanonical

(* Every step keeps rows, stores and workers well-typed. *)
LEMMA TypeStep == InboxInvariant /\ [Next]_vars => TypeOK'
  <1> SUFFICES ASSUME InboxInvariant, [Next]_vars PROVE TypeOK'
    OBVIOUS
  <1> USE InboxAssumption DEF InboxInvariant, TypeOK, rowVars, storeVars, workerVars, Holding,
          Status, PC, RowsConsistent, WorkersConsistent
  <1>1. ASSUME NEW e \in Event, NEW b \in Body, DeliverNew(e, b)
         PROVE  TypeOK'
    BY <1>1 DEF DeliverNew, Spend
  <1>2. ASSUME NEW e \in Event, NEW b \in Body, DeliverAgain(e, b)
         PROVE  TypeOK'
    BY <1>2 DEF DeliverAgain, Spend
  <1>3. ASSUME NEW w \in Worker, NEW e \in Event, StartTask(w, e) \/ StartProcess(w, e)
         PROVE  TypeOK'
    BY <1>3, SMTT(30) DEF StartTask, StartProcess, Begin, ReadClock, Spend
  <1>4. ASSUME NEW w \in Worker, ClaimRefused(w)
         PROVE  TypeOK'
    BY <1>4 DEF ClaimRefused, Leave
  <1>5. ASSUME NEW w \in Worker, ClaimAndNormalize(w)
         PROVE  TypeOK'
    BY <1>5, ZenonT(40) DEF ClaimAndNormalize, Reuse, Normalizes, Claimable
  <1>6. ASSUME NEW w \in Worker, ClaimAndReject(w)
         PROVE  TypeOK'
    BY <1>6, ZenonT(40) DEF ClaimAndReject, Reuse, Leave, Claimable
  <1>7. ASSUME NEW w \in Worker, StartBatch(w)
         PROVE  TypeOK'
    BY <1>7 DEF StartBatch, Spend
  <1>8. ASSUME NEW w \in Worker, Iterate(w)
         PROVE  TypeOK'
    <2>1. left[w] \in 0..BatchLimit /\ left[w] > 0 /\ BatchLimit \in Nat
      BY <1>8 DEF Iterate
    <2>2. left[w] - 1 \in 0..BatchLimit
      BY <2>1
    <2> QED
      BY <2>2, <1>8 DEF Iterate, ReadClock
  <1>9. ASSUME NEW w \in Worker, NEW e \in Event, ClaimNext(w, e)
         PROVE  TypeOK'
    BY <1>9 DEF ClaimNext, Reuse, Claimable
  <1>10. ASSUME NEW w \in Worker, NothingToClaim(w)
         PROVE  TypeOK'
    BY <1>10 DEF NothingToClaim
  <1>11. ASSUME NEW w \in Worker, ClaimLost(w)
         PROVE  TypeOK'
    BY <1>11 DEF ClaimLost, Leave
  <1>12. ASSUME NEW w \in Worker, NormalizeClaimed(w)
         PROVE  TypeOK'
    BY <1>12 DEF NormalizeClaimed, Normalizes, OwnsRow
  <1>13. ASSUME NEW w \in Worker, RejectClaimed(w)
         PROVE  TypeOK'
    BY <1>13 DEF RejectClaimed, OwnsRow, Leave
  <1>14. ASSUME NEW w \in Worker, ProjectOk(w)
         PROVE  TypeOK'
    <2>1. item[w] \in Event /\ fact[w] \in Body
      BY <1>14 DEF ProjectOk
    <2>2. graph' \subseteq Event \X Body
      BY <2>1, <1>14 DEF ProjectOk, Project
    <2> QED
      BY <2>2, <1>14 DEF ProjectOk, Goto, Leave
  <1>15. ASSUME NEW w \in Worker, ProjectFails(w)
         PROVE  TypeOK'
    <2>1. item[w] \in Event /\ fact[w] \in Body
      BY <1>15 DEF ProjectFails
    <2>2. graph' \subseteq Event \X Body
      BY <2>1, <1>15 DEF ProjectFails, Project
    <2> QED
      BY <2>2, <1>15 DEF ProjectFails, Goto, Leave
  <1>16. ASSUME NEW w \in Worker, Reproject(w)
         PROVE  TypeOK'
    <2>1. item[w] \in Event /\ fact[w] \in Body
      BY <1>16 DEF Reproject
    <2>2. graph' \subseteq Event \X Body
      BY <2>1, <1>16 DEF Reproject, Project
    <2> QED
      BY <2>2, <1>16 DEF Reproject, Goto, Leave
  <1>17. ASSUME NEW w \in Worker, Finalize(w)
         PROVE  TypeOK'
    BY <1>17 DEF Finalize, OwnsRow, Leave
  <1>18. ASSUME NEW w \in Worker, FinalizeRefused(w)
         PROVE  TypeOK'
    BY <1>18 DEF FinalizeRefused, Leave
  <1>19. ASSUME Tick
         PROVE  TypeOK'
    BY <1>19 DEF Tick, Spend
  <1>20. ASSUME NEW w \in Worker, Die(w)
         PROVE  TypeOK'
    BY <1>20 DEF Die, Spend
  <1>21. ASSUME Restart
         PROVE  TypeOK'
    BY <1>21 DEF Restart, Spend
  <1>22. CASE UNCHANGED vars
    BY <1>22 DEF vars
  <1> QED
    BY <1>1, <1>2, <1>3, <1>4, <1>5, <1>6, <1>7, <1>8, <1>9, <1>10, <1>11, <1>12, <1>13, <1>14, <1>15, <1>16, <1>17, <1>18, <1>19, <1>20, <1>21, <1>22
       DEF Next, WorkerStep, Environment

(* Every step keeps a row's bytes and its canonical event in agreement. *)
LEMMA RowsStep == InboxInvariant /\ [Next]_vars => RowsConsistent'
  <1> SUFFICES ASSUME InboxInvariant, [Next]_vars PROVE RowsConsistent'
    OBVIOUS
  <1> USE InboxAssumption DEF InboxInvariant, TypeOK, rowVars, storeVars, workerVars, Holding, RowsConsistent,
          WorkersConsistent
  <1>1. ASSUME NEW e \in Event, NEW b \in Body, DeliverNew(e, b)
         PROVE  RowsConsistent'
    BY <1>1 DEF DeliverNew, Spend
  <1>2. ASSUME NEW e \in Event, NEW b \in Body, DeliverAgain(e, b)
         PROVE  RowsConsistent'
    BY <1>2 DEF DeliverAgain, Spend
  <1>3. ASSUME NEW w \in Worker, NEW e \in Event, StartTask(w, e) \/ StartProcess(w, e)
         PROVE  RowsConsistent'
    BY <1>3 DEF StartTask, StartProcess, Begin, ReadClock, Spend
  <1>4. ASSUME NEW w \in Worker, ClaimRefused(w)
         PROVE  RowsConsistent'
    BY <1>4 DEF ClaimRefused, Leave
  <1>5. ASSUME NEW w \in Worker, ClaimAndNormalize(w)
         PROVE  RowsConsistent'
    BY <1>5 DEF ClaimAndNormalize, Normalizes, Claimable
  <1>6. ASSUME NEW w \in Worker, ClaimAndReject(w)
         PROVE  RowsConsistent'
    BY <1>6 DEF ClaimAndReject, Leave, Claimable
  <1>7. ASSUME NEW w \in Worker, StartBatch(w)
         PROVE  RowsConsistent'
    BY <1>7 DEF StartBatch, Spend
  <1>8. ASSUME NEW w \in Worker, Iterate(w)
         PROVE  RowsConsistent'
    BY <1>8 DEF Iterate, ReadClock
  <1>9. ASSUME NEW w \in Worker, NEW e \in Event, ClaimNext(w, e)
         PROVE  RowsConsistent'
    BY <1>9 DEF ClaimNext, Claimable
  <1>10. ASSUME NEW w \in Worker, NothingToClaim(w)
         PROVE  RowsConsistent'
    BY <1>10 DEF NothingToClaim
  <1>11. ASSUME NEW w \in Worker, ClaimLost(w)
         PROVE  RowsConsistent'
    BY <1>11 DEF ClaimLost, Leave
  <1>12. ASSUME NEW w \in Worker, NormalizeClaimed(w)
         PROVE  RowsConsistent'
    BY <1>12 DEF NormalizeClaimed, Normalizes, OwnsRow
  <1>13. ASSUME NEW w \in Worker, RejectClaimed(w)
         PROVE  RowsConsistent'
    BY <1>13 DEF RejectClaimed, OwnsRow, Leave
  <1>14. ASSUME NEW w \in Worker, ProjectOk(w)
         PROVE  RowsConsistent'
    BY <1>14 DEF ProjectOk, Project, Goto
  <1>15. ASSUME NEW w \in Worker, ProjectFails(w)
         PROVE  RowsConsistent'
    BY <1>15 DEF ProjectFails, Project, Goto
  <1>16. ASSUME NEW w \in Worker, Reproject(w)
         PROVE  RowsConsistent'
    BY <1>16 DEF Reproject, Project, Leave
  <1>17. ASSUME NEW w \in Worker, Finalize(w)
         PROVE  RowsConsistent'
    BY <1>17 DEF Finalize, OwnsRow, Leave
  <1>18. ASSUME NEW w \in Worker, FinalizeRefused(w)
         PROVE  RowsConsistent'
    BY <1>18 DEF FinalizeRefused, Leave
  <1>19. ASSUME Tick
         PROVE  RowsConsistent'
    BY <1>19 DEF Tick, Spend
  <1>20. ASSUME NEW w \in Worker, Die(w)
         PROVE  RowsConsistent'
    BY <1>20 DEF Die, Spend
  <1>21. ASSUME Restart
         PROVE  RowsConsistent'
    BY <1>21 DEF Restart, Spend
  <1>22. CASE UNCHANGED vars
    BY <1>22 DEF vars
  <1> QED
    BY <1>1, <1>2, <1>3, <1>4, <1>5, <1>6, <1>7, <1>8, <1>9, <1>10, <1>11, <1>12, <1>13, <1>14, <1>15, <1>16, <1>17, <1>18, <1>19, <1>20, <1>21, <1>22
       DEF Next, WorkerStep, Environment

(* Every step keeps what a worker has established true until it leaves:     *)
(* other workers only add to the stores and never change a row's bytes.      *)
LEMMA WorkersStep == InboxInvariant /\ [Next]_vars => WorkersConsistent'
  <1> SUFFICES ASSUME InboxInvariant, [Next]_vars PROVE WorkersConsistent'
    OBVIOUS
  <1> USE InboxAssumption DEF InboxInvariant, TypeOK, rowVars, storeVars, workerVars, Holding, PC, RowsConsistent,
          WorkersConsistent, ProcessedIsProjected
  <1>1. ASSUME NEW e \in Event, NEW b \in Body, DeliverNew(e, b)
         PROVE  WorkersConsistent'
    BY <1>1 DEF DeliverNew, Spend
  <1>2. ASSUME NEW e \in Event, NEW b \in Body, DeliverAgain(e, b)
         PROVE  WorkersConsistent'
    BY <1>2 DEF DeliverAgain, Spend
  <1>3. ASSUME NEW w \in Worker, NEW e \in Event, StartTask(w, e) \/ StartProcess(w, e)
         PROVE  WorkersConsistent'
    BY <1>3 DEF StartTask, StartProcess, Begin, ReadClock, Spend
  <1>4. ASSUME NEW w \in Worker, ClaimRefused(w)
         PROVE  WorkersConsistent'
    BY <1>4 DEF ClaimRefused, Leave
  <1>5. ASSUME NEW w \in Worker, ClaimAndNormalize(w)
         PROVE  WorkersConsistent'
    BY <1>5 DEF ClaimAndNormalize, Normalizes, Claimable
  <1>6. ASSUME NEW w \in Worker, ClaimAndReject(w)
         PROVE  WorkersConsistent'
    BY <1>6 DEF ClaimAndReject, Leave, Claimable
  <1>7. ASSUME NEW w \in Worker, StartBatch(w)
         PROVE  WorkersConsistent'
    BY <1>7 DEF StartBatch, Spend
  <1>8. ASSUME NEW w \in Worker, Iterate(w)
         PROVE  WorkersConsistent'
    BY <1>8 DEF Iterate, ReadClock
  <1>9. ASSUME NEW w \in Worker, NEW e \in Event, ClaimNext(w, e)
         PROVE  WorkersConsistent'
    BY <1>9 DEF ClaimNext, Claimable
  <1>10. ASSUME NEW w \in Worker, NothingToClaim(w)
         PROVE  WorkersConsistent'
    BY <1>10 DEF NothingToClaim
  <1>11. ASSUME NEW w \in Worker, ClaimLost(w)
         PROVE  WorkersConsistent'
    BY <1>11 DEF ClaimLost, Leave
  <1>12. ASSUME NEW w \in Worker, NormalizeClaimed(w)
         PROVE  WorkersConsistent'
    BY <1>12 DEF NormalizeClaimed, Normalizes, OwnsRow
  <1>13. ASSUME NEW w \in Worker, RejectClaimed(w)
         PROVE  WorkersConsistent'
    BY <1>13 DEF RejectClaimed, OwnsRow, Leave
  <1>14. ASSUME NEW w \in Worker, ProjectOk(w)
         PROVE  WorkersConsistent'
    BY <1>14 DEF ProjectOk, Project, Goto
  <1>15. ASSUME NEW w \in Worker, ProjectFails(w)
         PROVE  WorkersConsistent'
    BY <1>15 DEF ProjectFails, Project, Goto
  <1>16. ASSUME NEW w \in Worker, Reproject(w)
         PROVE  WorkersConsistent'
    BY <1>16 DEF Reproject, Project, Leave
  <1>17. ASSUME NEW w \in Worker, Finalize(w)
         PROVE  WorkersConsistent'
    BY <1>17 DEF Finalize, OwnsRow, Leave
  <1>18. ASSUME NEW w \in Worker, FinalizeRefused(w)
         PROVE  WorkersConsistent'
    BY <1>18 DEF FinalizeRefused, Leave
  <1>19. ASSUME Tick
         PROVE  WorkersConsistent'
    BY <1>19 DEF Tick, Spend
  <1>20. ASSUME NEW w \in Worker, Die(w)
         PROVE  WorkersConsistent'
    BY <1>20 DEF Die, Spend
  <1>21. ASSUME Restart
         PROVE  WorkersConsistent'
    BY <1>21 DEF Restart, Spend
  <1>22. CASE UNCHANGED vars
    BY <1>22 DEF vars
  <1> QED
    BY <1>1, <1>2, <1>3, <1>4, <1>5, <1>6, <1>7, <1>8, <1>9, <1>10, <1>11, <1>12, <1>13, <1>14, <1>15, <1>16, <1>17, <1>18, <1>19, <1>20, <1>21, <1>22
       DEF Next, WorkerStep, Environment

(* No step takes a token from the future. *)
LEMMA TokensStep == InboxInvariant /\ [Next]_vars => TokensConsistent'
  <1> SUFFICES ASSUME InboxInvariant, [Next]_vars PROVE TokensConsistent'
    OBVIOUS
  <1> USE InboxAssumption DEF InboxInvariant, TypeOK, rowVars, storeVars, workerVars, Holding, Reading, PC,
          WorkersConsistent, TokensConsistent
  <1>1. ASSUME NEW e \in Event, NEW b \in Body, DeliverNew(e, b)
         PROVE  TokensConsistent'
    BY <1>1 DEF DeliverNew, Spend
  <1>2. ASSUME NEW e \in Event, NEW b \in Body, DeliverAgain(e, b)
         PROVE  TokensConsistent'
    BY <1>2 DEF DeliverAgain, Spend
  <1>3. ASSUME NEW w \in Worker, NEW e \in Event, StartTask(w, e) \/ StartProcess(w, e)
         PROVE  TokensConsistent'
    BY <1>3 DEF StartTask, StartProcess, Begin, ReadClock, Spend
  <1>4. ASSUME NEW w \in Worker, ClaimRefused(w)
         PROVE  TokensConsistent'
    BY <1>4 DEF ClaimRefused, Leave
  <1>5. ASSUME NEW w \in Worker, ClaimAndNormalize(w)
         PROVE  TokensConsistent'
    BY <1>5 DEF ClaimAndNormalize, Normalizes, Claimable
  <1>6. ASSUME NEW w \in Worker, ClaimAndReject(w)
         PROVE  TokensConsistent'
    BY <1>6 DEF ClaimAndReject, Leave, Claimable
  <1>7. ASSUME NEW w \in Worker, StartBatch(w)
         PROVE  TokensConsistent'
    BY <1>7 DEF StartBatch, Spend
  <1>8. ASSUME NEW w \in Worker, Iterate(w)
         PROVE  TokensConsistent'
    BY <1>8 DEF Iterate, ReadClock
  <1>9. ASSUME NEW w \in Worker, NEW e \in Event, ClaimNext(w, e)
         PROVE  TokensConsistent'
    BY <1>9 DEF ClaimNext, Claimable
  <1>10. ASSUME NEW w \in Worker, NothingToClaim(w)
         PROVE  TokensConsistent'
    BY <1>10 DEF NothingToClaim
  <1>11. ASSUME NEW w \in Worker, ClaimLost(w)
         PROVE  TokensConsistent'
    BY <1>11 DEF ClaimLost, Leave
  <1>12. ASSUME NEW w \in Worker, NormalizeClaimed(w)
         PROVE  TokensConsistent'
    BY <1>12 DEF NormalizeClaimed, Normalizes, OwnsRow
  <1>13. ASSUME NEW w \in Worker, RejectClaimed(w)
         PROVE  TokensConsistent'
    BY <1>13 DEF RejectClaimed, OwnsRow, Leave
  <1>14. ASSUME NEW w \in Worker, ProjectOk(w)
         PROVE  TokensConsistent'
    BY <1>14 DEF ProjectOk, Project, Goto
  <1>15. ASSUME NEW w \in Worker, ProjectFails(w)
         PROVE  TokensConsistent'
    BY <1>15 DEF ProjectFails, Project, Goto
  <1>16. ASSUME NEW w \in Worker, Reproject(w)
         PROVE  TokensConsistent'
    BY <1>16 DEF Reproject, Project, Leave
  <1>17. ASSUME NEW w \in Worker, Finalize(w)
         PROVE  TokensConsistent'
    BY <1>17 DEF Finalize, OwnsRow, Leave
  <1>18. ASSUME NEW w \in Worker, FinalizeRefused(w)
         PROVE  TokensConsistent'
    BY <1>18 DEF FinalizeRefused, Leave
  <1>19. ASSUME Tick
         PROVE  TokensConsistent'
    BY <1>19 DEF Tick, Spend
  <1>20. ASSUME NEW w \in Worker, Die(w)
         PROVE  TokensConsistent'
    BY <1>20 DEF Die, Spend
  <1>21. ASSUME Restart
         PROVE  TokensConsistent'
    BY <1>21 DEF Restart, Spend
  <1>22. CASE UNCHANGED vars
    BY <1>22 DEF vars
  <1> QED
    BY <1>1, <1>2, <1>3, <1>4, <1>5, <1>6, <1>7, <1>8, <1>9, <1>10, <1>11, <1>12, <1>13, <1>14, <1>15, <1>16, <1>17, <1>18, <1>19, <1>20, <1>21, <1>22
       DEF Next, WorkerStep, Environment

(* A claim leaves a token twice at work only past its lease, and takes a row *)
(* from another worker only past that worker's.                              *)
LEMMA ClaimStep ==
    ASSUME InboxInvariant, NEW w \in Worker, NEW e \in Event,
           \/ ClaimNext(w, e)
           \/ (ClaimAndNormalize(w) \/ ClaimAndReject(w)) /\ e = item[w]
    PROVE  OneOwner' /\ OwnerHoldsClaim' /\ StaleOnlyAfterLease'
  <1> USE InboxAssumption DEF InboxInvariant, TypeOK, rowVars, storeVars, workerVars, Holding,
          Reading, PC, Status, Owns
  <1>1. /\ Claimable(e, token[w]) /\ Reuse(w, e) /\ pc[w] \in {"claim", "pick"}
        /\ claimedAt' = [claimedAt EXCEPT ![e] = token[w]] /\ clock' = clock
        /\ \A v \in Worker \ {w} : pc'[v] = pc[v] /\ item'[v] = item[v] /\ token'[v] = token[v]
        /\ \A d \in Event : d # e => status'[d] = status[d]
        /\ pc'[w] \in Holding =>
               item'[w] = e /\ token'[w] = token[w] /\ status'[e] = "PROCESSING"
    BY DEF ClaimNext, ClaimAndNormalize, ClaimAndReject, Leave
  <1>2. /\ token[w] \in Nat /\ token[w] <= clock /\ clock \in Nat /\ Lease \in Nat
        /\ claimedAt \in [Event -> Nat] /\ token \in [Worker -> Nat]
    BY <1>1 DEF TokensConsistent
  <1>3. ASSUME NEW v \in Worker, pc[v] \in Holding, item[v] = e
        PROVE  token[v] + Lease < clock
    <2>1. CASE Owns(v, e)
      <3>1. status[e] = "PROCESSING" \/ claimedAt[e] + Lease < clock
        BY <2>1 DEF OwnerHoldsClaim
      <3>2. status[e] = "PROCESSING" => claimedAt[e] + Lease < token[w]
        BY <1>1 DEF Claimable
      <3> QED
        BY <1>2, <2>1, <3>1, <3>2
    <2>2. CASE ~Owns(v, e)
      BY <1>3, <2>2 DEF StaleOnlyAfterLease
    <2> QED
      BY <2>1, <2>2
  <1>4. /\ reused \subseteq reused'
        /\ \A v \in Worker \ {w} :
              pc[v] \in Holding /\ item[v] = e /\ token[v] = token[w] => e \in reused'
    BY <1>1 DEF Reuse
  <1>5. ASSUME NEW v \in Worker, NEW d \in Event
        PROVE  /\ d # e => (Owns(v, d)' => v # w /\ Owns(v, d))
               /\ v # w /\ Owns(v, e)' =>
                      /\ pc[v] \in Holding /\ item[v] = e /\ token[v] = token[w]
               /\ v # w /\ d # e => (Owns(v, d) => Owns(v, d)')
    BY <1>1, <1>2
  <1>6. \A d \in Event : d # e => claimedAt'[d] = claimedAt[d]
    BY <1>1, <1>2
  <1>7. claimedAt'[e] = token[w]
    BY <1>1, <1>2
  <1>8. ASSUME NEW v \in Worker, v # w, Owns(v, e)'
        PROVE  e \in reused' /\ claimedAt'[e] + Lease < clock'
    BY <1>1, <1>3, <1>4, <1>5, <1>7, <1>8
  <1>9. OneOwner'
    <2> SUFFICES ASSUME NEW u \in Worker, NEW v \in Worker, NEW d \in Event,
                        Owns(u, d)', Owns(v, d)', u # v
                 PROVE  d \in reused' /\ claimedAt'[d] + Lease < clock'
      BY DEF OneOwner
    <2>1. CASE d = e
      BY <1>8, <2>1
    <2>2. CASE d # e
      BY <1>1, <1>4, <1>5, <1>6, <2>2 DEF OneOwner
    <2> QED
      BY <2>1, <2>2
  <1>10. OwnerHoldsClaim'
    <2> SUFFICES ASSUME NEW v \in Worker, NEW d \in Event, Owns(v, d)'
                 PROVE  \/ status'[d] = "PROCESSING"
                        \/ d \in reused' /\ claimedAt'[d] + Lease < clock'
      BY DEF OwnerHoldsClaim
    <2>1. CASE d = e /\ v = w
      BY <1>1, <2>1
    <2>2. CASE d = e /\ v # w
      BY <1>8, <2>2
    <2>3. CASE d # e
      BY <1>1, <1>4, <1>5, <1>6, <2>3 DEF OwnerHoldsClaim
    <2> QED
      BY <2>1, <2>2, <2>3
  <1>11. StaleOnlyAfterLease'
    <2> SUFFICES ASSUME NEW v \in Worker, NEW d \in Event,
                        pc'[v] \in Holding, item'[v] = d, ~Owns(v, d)'
                 PROVE  token'[v] + Lease < clock'
      BY DEF StaleOnlyAfterLease
    <2>1. v # w
      BY <1>1, <1>7
    <2>2. CASE d = e
      BY <1>1, <1>3, <2>1, <2>2
    <2>3. CASE d # e
      BY <1>1, <1>5, <2>1, <2>3 DEF StaleOnlyAfterLease
    <2> QED
      BY <2>2, <2>3
  <1> QED
    BY <1>9, <1>10, <1>11

(* No step gives a second worker the token of a row within its lease. *)
LEMMA OneOwnerStep == InboxInvariant /\ [Next]_vars => OneOwner'
  <1> SUFFICES ASSUME InboxInvariant, [Next]_vars PROVE OneOwner'
    OBVIOUS
  <1> USE InboxAssumption DEF InboxInvariant, TypeOK, rowVars, storeVars, workerVars, Holding, Reading, PC, Status, Owns,
          WorkersConsistent, TokensConsistent, OneOwner, OwnerHoldsClaim
  <1>1. ASSUME NEW e \in Event, NEW b \in Body, DeliverNew(e, b)
         PROVE  OneOwner'
    BY <1>1 DEF DeliverNew, Spend
  <1>2. ASSUME NEW e \in Event, NEW b \in Body, DeliverAgain(e, b)
         PROVE  OneOwner'
    BY <1>2 DEF DeliverAgain, Spend
  <1>3. ASSUME NEW w \in Worker, NEW e \in Event, StartTask(w, e) \/ StartProcess(w, e)
         PROVE  OneOwner'
    BY <1>3 DEF StartTask, StartProcess, Begin, ReadClock, Spend
  <1>4. ASSUME NEW w \in Worker, ClaimRefused(w)
         PROVE  OneOwner'
    BY <1>4 DEF ClaimRefused, Leave
  <1>5. ASSUME NEW w \in Worker, ClaimAndNormalize(w)
         PROVE  OneOwner'
    <2>1. item[w] \in Event
      BY <1>5 DEF ClaimAndNormalize
    <2> HIDE DEF InboxInvariant
    <2> QED
      BY <1>5, <2>1, ClaimStep
  <1>6. ASSUME NEW w \in Worker, ClaimAndReject(w)
         PROVE  OneOwner'
    <2>1. item[w] \in Event
      BY <1>6 DEF ClaimAndReject
    <2> HIDE DEF InboxInvariant
    <2> QED
      BY <1>6, <2>1, ClaimStep
  <1>7. ASSUME NEW w \in Worker, StartBatch(w)
         PROVE  OneOwner'
    BY <1>7 DEF StartBatch, Spend
  <1>8. ASSUME NEW w \in Worker, Iterate(w)
         PROVE  OneOwner'
    BY <1>8 DEF Iterate, ReadClock
  <1>9. ASSUME NEW w \in Worker, NEW e \in Event, ClaimNext(w, e)
         PROVE  OneOwner'
    <2> HIDE DEF InboxInvariant
    <2> QED
      BY <1>9, ClaimStep
  <1>10. ASSUME NEW w \in Worker, NothingToClaim(w)
         PROVE  OneOwner'
    BY <1>10 DEF NothingToClaim
  <1>11. ASSUME NEW w \in Worker, ClaimLost(w)
         PROVE  OneOwner'
    BY <1>11 DEF ClaimLost, Leave
  <1>12. ASSUME NEW w \in Worker, NormalizeClaimed(w)
         PROVE  OneOwner'
    BY <1>12 DEF NormalizeClaimed, Normalizes, OwnsRow
  <1>13. ASSUME NEW w \in Worker, RejectClaimed(w)
         PROVE  OneOwner'
    BY <1>13 DEF RejectClaimed, OwnsRow, Leave
  <1>14. ASSUME NEW w \in Worker, ProjectOk(w)
         PROVE  OneOwner'
    BY <1>14 DEF ProjectOk, Project, Goto
  <1>15. ASSUME NEW w \in Worker, ProjectFails(w)
         PROVE  OneOwner'
    BY <1>15 DEF ProjectFails, Project, Goto
  <1>16. ASSUME NEW w \in Worker, Reproject(w)
         PROVE  OneOwner'
    BY <1>16 DEF Reproject, Project, Leave
  <1>17. ASSUME NEW w \in Worker, Finalize(w)
         PROVE  OneOwner'
    BY <1>17 DEF Finalize, OwnsRow, Leave
  <1>18. ASSUME NEW w \in Worker, FinalizeRefused(w)
         PROVE  OneOwner'
    BY <1>18 DEF FinalizeRefused, Leave
  <1>19. ASSUME Tick
         PROVE  OneOwner'
    BY <1>19 DEF Tick, Spend
  <1>20. ASSUME NEW w \in Worker, Die(w)
         PROVE  OneOwner'
    BY <1>20 DEF Die, Spend
  <1>21. ASSUME Restart
         PROVE  OneOwner'
    BY <1>21 DEF Restart, Spend
  <1>22. CASE UNCHANGED vars
    BY <1>22 DEF vars
  <1> QED
    BY <1>1, <1>2, <1>3, <1>4, <1>5, <1>6, <1>7, <1>8, <1>9, <1>10, <1>11, <1>12, <1>13, <1>14, <1>15, <1>16, <1>17, <1>18, <1>19, <1>20, <1>21, <1>22
       DEF Next, WorkerStep, Environment

(* Only the owner's own step takes its row out of PROCESSING. *)
LEMMA OwnerStep == InboxInvariant /\ [Next]_vars => OwnerHoldsClaim'
  <1> SUFFICES ASSUME InboxInvariant, [Next]_vars PROVE OwnerHoldsClaim'
    OBVIOUS
  <1> USE InboxAssumption DEF InboxInvariant, TypeOK, rowVars, storeVars, workerVars, Holding, Reading, PC, Status, Owns,
          WorkersConsistent, TokensConsistent, OneOwner, OwnerHoldsClaim
  <1>1. ASSUME NEW e \in Event, NEW b \in Body, DeliverNew(e, b)
         PROVE  OwnerHoldsClaim'
    BY <1>1 DEF DeliverNew, Spend
  <1>2. ASSUME NEW e \in Event, NEW b \in Body, DeliverAgain(e, b)
         PROVE  OwnerHoldsClaim'
    BY <1>2 DEF DeliverAgain, Spend
  <1>3. ASSUME NEW w \in Worker, NEW e \in Event, StartTask(w, e) \/ StartProcess(w, e)
         PROVE  OwnerHoldsClaim'
    BY <1>3 DEF StartTask, StartProcess, Begin, ReadClock, Spend
  <1>4. ASSUME NEW w \in Worker, ClaimRefused(w)
         PROVE  OwnerHoldsClaim'
    BY <1>4 DEF ClaimRefused, Leave
  <1>5. ASSUME NEW w \in Worker, ClaimAndNormalize(w)
         PROVE  OwnerHoldsClaim'
    <2>1. item[w] \in Event
      BY <1>5 DEF ClaimAndNormalize
    <2> HIDE DEF InboxInvariant
    <2> QED
      BY <1>5, <2>1, ClaimStep
  <1>6. ASSUME NEW w \in Worker, ClaimAndReject(w)
         PROVE  OwnerHoldsClaim'
    <2>1. item[w] \in Event
      BY <1>6 DEF ClaimAndReject
    <2> HIDE DEF InboxInvariant
    <2> QED
      BY <1>6, <2>1, ClaimStep
  <1>7. ASSUME NEW w \in Worker, StartBatch(w)
         PROVE  OwnerHoldsClaim'
    BY <1>7 DEF StartBatch, Spend
  <1>8. ASSUME NEW w \in Worker, Iterate(w)
         PROVE  OwnerHoldsClaim'
    BY <1>8 DEF Iterate, ReadClock
  <1>9. ASSUME NEW w \in Worker, NEW e \in Event, ClaimNext(w, e)
         PROVE  OwnerHoldsClaim'
    <2> HIDE DEF InboxInvariant
    <2> QED
      BY <1>9, ClaimStep
  <1>10. ASSUME NEW w \in Worker, NothingToClaim(w)
         PROVE  OwnerHoldsClaim'
    BY <1>10 DEF NothingToClaim
  <1>11. ASSUME NEW w \in Worker, ClaimLost(w)
         PROVE  OwnerHoldsClaim'
    BY <1>11 DEF ClaimLost, Leave
  <1>12. ASSUME NEW w \in Worker, NormalizeClaimed(w)
         PROVE  OwnerHoldsClaim'
    BY <1>12 DEF NormalizeClaimed, Normalizes, OwnsRow
  <1>13. ASSUME NEW w \in Worker, RejectClaimed(w)
         PROVE  OwnerHoldsClaim'
    BY <1>13 DEF RejectClaimed, OwnsRow, Leave
  <1>14. ASSUME NEW w \in Worker, ProjectOk(w)
         PROVE  OwnerHoldsClaim'
    BY <1>14 DEF ProjectOk, Project, Goto
  <1>15. ASSUME NEW w \in Worker, ProjectFails(w)
         PROVE  OwnerHoldsClaim'
    BY <1>15 DEF ProjectFails, Project, Goto
  <1>16. ASSUME NEW w \in Worker, Reproject(w)
         PROVE  OwnerHoldsClaim'
    BY <1>16 DEF Reproject, Project, Leave
  <1>17. ASSUME NEW w \in Worker, Finalize(w)
         PROVE  OwnerHoldsClaim'
    BY <1>17 DEF Finalize, OwnsRow, Leave
  <1>18. ASSUME NEW w \in Worker, FinalizeRefused(w)
         PROVE  OwnerHoldsClaim'
    BY <1>18 DEF FinalizeRefused, Leave
  <1>19. ASSUME Tick
         PROVE  OwnerHoldsClaim'
    BY <1>19 DEF Tick, Spend
  <1>20. ASSUME NEW w \in Worker, Die(w)
         PROVE  OwnerHoldsClaim'
    BY <1>20 DEF Die, Spend
  <1>21. ASSUME Restart
         PROVE  OwnerHoldsClaim'
    BY <1>21 DEF Restart, Spend
  <1>22. CASE UNCHANGED vars
    BY <1>22 DEF vars
  <1> QED
    BY <1>1, <1>2, <1>3, <1>4, <1>5, <1>6, <1>7, <1>8, <1>9, <1>10, <1>11, <1>12, <1>13, <1>14, <1>15, <1>16, <1>17, <1>18, <1>19, <1>20, <1>21, <1>22
       DEF Next, WorkerStep, Environment

(* A worker loses its row to another claim only past its lease. *)
LEMMA StaleStep == InboxInvariant /\ [Next]_vars => StaleOnlyAfterLease'
  <1> SUFFICES ASSUME InboxInvariant, [Next]_vars PROVE StaleOnlyAfterLease'
    OBVIOUS
  <1> USE InboxAssumption DEF InboxInvariant, TypeOK, rowVars, storeVars, workerVars, Holding, Reading, PC, Status, Owns,
          WorkersConsistent, TokensConsistent, OwnerHoldsClaim, StaleOnlyAfterLease
  <1>1. ASSUME NEW e \in Event, NEW b \in Body, DeliverNew(e, b)
         PROVE  StaleOnlyAfterLease'
    BY <1>1 DEF DeliverNew, Spend
  <1>2. ASSUME NEW e \in Event, NEW b \in Body, DeliverAgain(e, b)
         PROVE  StaleOnlyAfterLease'
    BY <1>2 DEF DeliverAgain, Spend
  <1>3. ASSUME NEW w \in Worker, NEW e \in Event, StartTask(w, e) \/ StartProcess(w, e)
         PROVE  StaleOnlyAfterLease'
    BY <1>3 DEF StartTask, StartProcess, Begin, ReadClock, Spend
  <1>4. ASSUME NEW w \in Worker, ClaimRefused(w)
         PROVE  StaleOnlyAfterLease'
    BY <1>4 DEF ClaimRefused, Leave
  <1>5. ASSUME NEW w \in Worker, ClaimAndNormalize(w)
         PROVE  StaleOnlyAfterLease'
    <2>1. item[w] \in Event
      BY <1>5 DEF ClaimAndNormalize
    <2> HIDE DEF InboxInvariant
    <2> QED
      BY <1>5, <2>1, ClaimStep
  <1>6. ASSUME NEW w \in Worker, ClaimAndReject(w)
         PROVE  StaleOnlyAfterLease'
    <2>1. item[w] \in Event
      BY <1>6 DEF ClaimAndReject
    <2> HIDE DEF InboxInvariant
    <2> QED
      BY <1>6, <2>1, ClaimStep
  <1>7. ASSUME NEW w \in Worker, StartBatch(w)
         PROVE  StaleOnlyAfterLease'
    BY <1>7 DEF StartBatch, Spend
  <1>8. ASSUME NEW w \in Worker, Iterate(w)
         PROVE  StaleOnlyAfterLease'
    BY <1>8 DEF Iterate, ReadClock
  <1>9. ASSUME NEW w \in Worker, NEW e \in Event, ClaimNext(w, e)
         PROVE  StaleOnlyAfterLease'
    <2> HIDE DEF InboxInvariant
    <2> QED
      BY <1>9, ClaimStep
  <1>10. ASSUME NEW w \in Worker, NothingToClaim(w)
         PROVE  StaleOnlyAfterLease'
    BY <1>10 DEF NothingToClaim
  <1>11. ASSUME NEW w \in Worker, ClaimLost(w)
         PROVE  StaleOnlyAfterLease'
    BY <1>11 DEF ClaimLost, Leave
  <1>12. ASSUME NEW w \in Worker, NormalizeClaimed(w)
         PROVE  StaleOnlyAfterLease'
    BY <1>12 DEF NormalizeClaimed, Normalizes, OwnsRow
  <1>13. ASSUME NEW w \in Worker, RejectClaimed(w)
         PROVE  StaleOnlyAfterLease'
    BY <1>13 DEF RejectClaimed, OwnsRow, Leave
  <1>14. ASSUME NEW w \in Worker, ProjectOk(w)
         PROVE  StaleOnlyAfterLease'
    BY <1>14 DEF ProjectOk, Project, Goto
  <1>15. ASSUME NEW w \in Worker, ProjectFails(w)
         PROVE  StaleOnlyAfterLease'
    BY <1>15 DEF ProjectFails, Project, Goto
  <1>16. ASSUME NEW w \in Worker, Reproject(w)
         PROVE  StaleOnlyAfterLease'
    BY <1>16 DEF Reproject, Project, Leave
  <1>17. ASSUME NEW w \in Worker, Finalize(w)
         PROVE  StaleOnlyAfterLease'
    BY <1>17 DEF Finalize, OwnsRow, Leave
  <1>18. ASSUME NEW w \in Worker, FinalizeRefused(w)
         PROVE  StaleOnlyAfterLease'
    BY <1>18 DEF FinalizeRefused, Leave
  <1>19. ASSUME Tick
         PROVE  StaleOnlyAfterLease'
    BY <1>19 DEF Tick, Spend
  <1>20. ASSUME NEW w \in Worker, Die(w)
         PROVE  StaleOnlyAfterLease'
    BY <1>20 DEF Die, Spend
  <1>21. ASSUME Restart
         PROVE  StaleOnlyAfterLease'
    BY <1>21 DEF Restart, Spend
  <1>22. CASE UNCHANGED vars
    BY <1>22 DEF vars
  <1> QED
    BY <1>1, <1>2, <1>3, <1>4, <1>5, <1>6, <1>7, <1>8, <1>9, <1>10, <1>11, <1>12, <1>13, <1>14, <1>15, <1>16, <1>17, <1>18, <1>19, <1>20, <1>21, <1>22
       DEF Next, WorkerStep, Environment

(* A row becomes PROCESSED after its projection, and projections stay. *)
LEMMA ProcessedStep == InboxInvariant /\ [Next]_vars => ProcessedIsProjected'
  <1> SUFFICES ASSUME InboxInvariant, [Next]_vars PROVE ProcessedIsProjected'
    OBVIOUS
  <1> USE InboxAssumption DEF InboxInvariant, TypeOK, rowVars, storeVars, workerVars, Holding, Status, RowsConsistent,
          WorkersConsistent, ProcessedIsProjected
  <1>1. ASSUME NEW e \in Event, NEW b \in Body, DeliverNew(e, b)
         PROVE  ProcessedIsProjected'
    BY <1>1 DEF DeliverNew, Spend
  <1>2. ASSUME NEW e \in Event, NEW b \in Body, DeliverAgain(e, b)
         PROVE  ProcessedIsProjected'
    BY <1>2 DEF DeliverAgain, Spend
  <1>3. ASSUME NEW w \in Worker, NEW e \in Event, StartTask(w, e) \/ StartProcess(w, e)
         PROVE  ProcessedIsProjected'
    BY <1>3 DEF StartTask, StartProcess, Begin, ReadClock, Spend
  <1>4. ASSUME NEW w \in Worker, ClaimRefused(w)
         PROVE  ProcessedIsProjected'
    BY <1>4 DEF ClaimRefused, Leave
  <1>5. ASSUME NEW w \in Worker, ClaimAndNormalize(w)
         PROVE  ProcessedIsProjected'
    BY <1>5 DEF ClaimAndNormalize, Normalizes, Claimable
  <1>6. ASSUME NEW w \in Worker, ClaimAndReject(w)
         PROVE  ProcessedIsProjected'
    BY <1>6 DEF ClaimAndReject, Leave, Claimable
  <1>7. ASSUME NEW w \in Worker, StartBatch(w)
         PROVE  ProcessedIsProjected'
    BY <1>7 DEF StartBatch, Spend
  <1>8. ASSUME NEW w \in Worker, Iterate(w)
         PROVE  ProcessedIsProjected'
    BY <1>8 DEF Iterate, ReadClock
  <1>9. ASSUME NEW w \in Worker, NEW e \in Event, ClaimNext(w, e)
         PROVE  ProcessedIsProjected'
    BY <1>9 DEF ClaimNext, Claimable
  <1>10. ASSUME NEW w \in Worker, NothingToClaim(w)
         PROVE  ProcessedIsProjected'
    BY <1>10 DEF NothingToClaim
  <1>11. ASSUME NEW w \in Worker, ClaimLost(w)
         PROVE  ProcessedIsProjected'
    BY <1>11 DEF ClaimLost, Leave
  <1>12. ASSUME NEW w \in Worker, NormalizeClaimed(w)
         PROVE  ProcessedIsProjected'
    BY <1>12 DEF NormalizeClaimed, Normalizes, OwnsRow
  <1>13. ASSUME NEW w \in Worker, RejectClaimed(w)
         PROVE  ProcessedIsProjected'
    BY <1>13 DEF RejectClaimed, OwnsRow, Leave
  <1>14. ASSUME NEW w \in Worker, ProjectOk(w)
         PROVE  ProcessedIsProjected'
    BY <1>14 DEF ProjectOk, Project, Goto
  <1>15. ASSUME NEW w \in Worker, ProjectFails(w)
         PROVE  ProcessedIsProjected'
    BY <1>15 DEF ProjectFails, Project, Goto
  <1>16. ASSUME NEW w \in Worker, Reproject(w)
         PROVE  ProcessedIsProjected'
    BY <1>16 DEF Reproject, Project, Leave
  <1>17. ASSUME NEW w \in Worker, Finalize(w)
         PROVE  ProcessedIsProjected'
    BY <1>17 DEF Finalize, OwnsRow, Leave
  <1>18. ASSUME NEW w \in Worker, FinalizeRefused(w)
         PROVE  ProcessedIsProjected'
    BY <1>18 DEF FinalizeRefused, Leave
  <1>19. ASSUME Tick
         PROVE  ProcessedIsProjected'
    BY <1>19 DEF Tick, Spend
  <1>20. ASSUME NEW w \in Worker, Die(w)
         PROVE  ProcessedIsProjected'
    BY <1>20 DEF Die, Spend
  <1>21. ASSUME Restart
         PROVE  ProcessedIsProjected'
    BY <1>21 DEF Restart, Spend
  <1>22. CASE UNCHANGED vars
    BY <1>22 DEF vars
  <1> QED
    BY <1>1, <1>2, <1>3, <1>4, <1>5, <1>6, <1>7, <1>8, <1>9, <1>10, <1>11, <1>12, <1>13, <1>14, <1>15, <1>16, <1>17, <1>18, <1>19, <1>20, <1>21, <1>22
       DEF Next, WorkerStep, Environment

(* Only canonical events are merged, and canonical events never change. *)
LEMMA GraphStep == InboxInvariant /\ [Next]_vars => GraphIsCanonical'
  <1> SUFFICES ASSUME InboxInvariant, [Next]_vars PROVE GraphIsCanonical'
    OBVIOUS
  <1> USE InboxAssumption DEF InboxInvariant, TypeOK, rowVars, storeVars, workerVars, Holding, RowsConsistent,
          WorkersConsistent, GraphIsCanonical
  <1>1. ASSUME NEW e \in Event, NEW b \in Body, DeliverNew(e, b)
         PROVE  GraphIsCanonical'
    BY <1>1 DEF DeliverNew, Spend
  <1>2. ASSUME NEW e \in Event, NEW b \in Body, DeliverAgain(e, b)
         PROVE  GraphIsCanonical'
    BY <1>2 DEF DeliverAgain, Spend
  <1>3. ASSUME NEW w \in Worker, NEW e \in Event, StartTask(w, e) \/ StartProcess(w, e)
         PROVE  GraphIsCanonical'
    BY <1>3 DEF StartTask, StartProcess, Begin, ReadClock, Spend
  <1>4. ASSUME NEW w \in Worker, ClaimRefused(w)
         PROVE  GraphIsCanonical'
    BY <1>4 DEF ClaimRefused, Leave
  <1>5. ASSUME NEW w \in Worker, ClaimAndNormalize(w)
         PROVE  GraphIsCanonical'
    BY <1>5 DEF ClaimAndNormalize, Normalizes, Claimable
  <1>6. ASSUME NEW w \in Worker, ClaimAndReject(w)
         PROVE  GraphIsCanonical'
    BY <1>6 DEF ClaimAndReject, Leave, Claimable
  <1>7. ASSUME NEW w \in Worker, StartBatch(w)
         PROVE  GraphIsCanonical'
    BY <1>7 DEF StartBatch, Spend
  <1>8. ASSUME NEW w \in Worker, Iterate(w)
         PROVE  GraphIsCanonical'
    BY <1>8 DEF Iterate, ReadClock
  <1>9. ASSUME NEW w \in Worker, NEW e \in Event, ClaimNext(w, e)
         PROVE  GraphIsCanonical'
    BY <1>9 DEF ClaimNext, Claimable
  <1>10. ASSUME NEW w \in Worker, NothingToClaim(w)
         PROVE  GraphIsCanonical'
    BY <1>10 DEF NothingToClaim
  <1>11. ASSUME NEW w \in Worker, ClaimLost(w)
         PROVE  GraphIsCanonical'
    BY <1>11 DEF ClaimLost, Leave
  <1>12. ASSUME NEW w \in Worker, NormalizeClaimed(w)
         PROVE  GraphIsCanonical'
    BY <1>12 DEF NormalizeClaimed, Normalizes, OwnsRow
  <1>13. ASSUME NEW w \in Worker, RejectClaimed(w)
         PROVE  GraphIsCanonical'
    BY <1>13 DEF RejectClaimed, OwnsRow, Leave
  <1>14. ASSUME NEW w \in Worker, ProjectOk(w)
         PROVE  GraphIsCanonical'
    BY <1>14 DEF ProjectOk, Project, Goto
  <1>15. ASSUME NEW w \in Worker, ProjectFails(w)
         PROVE  GraphIsCanonical'
    <2>1. normalized' = normalized
      BY <1>15 DEF ProjectFails
    <2>2. normalized[item[w]] = fact[w]
      BY <1>15 DEF ProjectFails
    <2>3. graph' = graph \/ graph' = graph \cup {<<item[w], fact[w]>>}
      BY <1>15 DEF ProjectFails, Project
    <2>4. ASSUME NEW e \in Event, NEW b \in Body, <<e, b>> \in graph'
           PROVE  normalized[e] = b
      BY <2>2, <2>3, <2>4
    <2> QED
      BY <2>1, <2>4
  <1>16. ASSUME NEW w \in Worker, Reproject(w)
         PROVE  GraphIsCanonical'
    <2>1. normalized' = normalized
      BY <1>16 DEF Reproject
    <2>2. normalized[item[w]] = fact[w]
      BY <1>16 DEF Reproject
    <2>3. graph' = graph \/ graph' = graph \cup {<<item[w], fact[w]>>}
      BY <1>16 DEF Reproject, Project
    <2>4. ASSUME NEW e \in Event, NEW b \in Body, <<e, b>> \in graph'
           PROVE  normalized[e] = b
      BY <2>2, <2>3, <2>4
    <2> QED
      BY <2>1, <2>4
  <1>17. ASSUME NEW w \in Worker, Finalize(w)
         PROVE  GraphIsCanonical'
    BY <1>17 DEF Finalize, OwnsRow, Leave
  <1>18. ASSUME NEW w \in Worker, FinalizeRefused(w)
         PROVE  GraphIsCanonical'
    BY <1>18 DEF FinalizeRefused, Leave
  <1>19. ASSUME Tick
         PROVE  GraphIsCanonical'
    BY <1>19 DEF Tick, Spend
  <1>20. ASSUME NEW w \in Worker, Die(w)
         PROVE  GraphIsCanonical'
    BY <1>20 DEF Die, Spend
  <1>21. ASSUME Restart
         PROVE  GraphIsCanonical'
    BY <1>21 DEF Restart, Spend
  <1>22. CASE UNCHANGED vars
    BY <1>22 DEF vars
  <1> QED
    BY <1>1, <1>2, <1>3, <1>4, <1>5, <1>6, <1>7, <1>8, <1>9, <1>10, <1>11, <1>12, <1>13, <1>14, <1>15, <1>16, <1>17, <1>18, <1>19, <1>20, <1>21, <1>22
       DEF Next, WorkerStep, Environment

(* One row's promise to the sender: what it holds stays. *)
Durable ==
    \A e \in Event :
        /\ status[e] # "ABSENT" =>
               /\ status'[e] # "ABSENT"
               /\ body'[e] = body[e] /\ receivedAt'[e] = receivedAt[e]
        /\ status[e] = "PROCESSED" => status'[e] = "PROCESSED"

(* No step of a processor or of the endpoint takes back an accepted row. *)
LEMMA DurableStep == InboxInvariant /\ [Next]_vars => Durable
  <1> SUFFICES ASSUME InboxInvariant, [Next]_vars PROVE Durable
    OBVIOUS
  <1> USE InboxAssumption DEF InboxInvariant, TypeOK, rowVars, storeVars, workerVars, Holding, Status, Durable,
          WorkersConsistent, OwnerHoldsClaim
  <1>1. ASSUME NEW e \in Event, NEW b \in Body, DeliverNew(e, b)
         PROVE  Durable
    BY <1>1 DEF DeliverNew, Spend
  <1>2. ASSUME NEW e \in Event, NEW b \in Body, DeliverAgain(e, b)
         PROVE  Durable
    BY <1>2 DEF DeliverAgain, Spend
  <1>3. ASSUME NEW w \in Worker, NEW e \in Event, StartTask(w, e) \/ StartProcess(w, e)
         PROVE  Durable
    BY <1>3 DEF StartTask, StartProcess, Begin, ReadClock, Spend
  <1>4. ASSUME NEW w \in Worker, ClaimRefused(w)
         PROVE  Durable
    BY <1>4 DEF ClaimRefused, Leave
  <1>5. ASSUME NEW w \in Worker, ClaimAndNormalize(w)
         PROVE  Durable
    BY <1>5 DEF ClaimAndNormalize, Normalizes, Claimable
  <1>6. ASSUME NEW w \in Worker, ClaimAndReject(w)
         PROVE  Durable
    BY <1>6 DEF ClaimAndReject, Leave, Claimable
  <1>7. ASSUME NEW w \in Worker, StartBatch(w)
         PROVE  Durable
    BY <1>7 DEF StartBatch, Spend
  <1>8. ASSUME NEW w \in Worker, Iterate(w)
         PROVE  Durable
    BY <1>8 DEF Iterate, ReadClock
  <1>9. ASSUME NEW w \in Worker, NEW e \in Event, ClaimNext(w, e)
         PROVE  Durable
    BY <1>9 DEF ClaimNext, Claimable
  <1>10. ASSUME NEW w \in Worker, NothingToClaim(w)
         PROVE  Durable
    BY <1>10 DEF NothingToClaim
  <1>11. ASSUME NEW w \in Worker, ClaimLost(w)
         PROVE  Durable
    BY <1>11 DEF ClaimLost, Leave
  <1>12. ASSUME NEW w \in Worker, NormalizeClaimed(w)
         PROVE  Durable
    BY <1>12 DEF NormalizeClaimed, Normalizes, OwnsRow
  <1>13. ASSUME NEW w \in Worker, RejectClaimed(w)
         PROVE  Durable
    BY <1>13 DEF RejectClaimed, OwnsRow, Leave
  <1>14. ASSUME NEW w \in Worker, ProjectOk(w)
         PROVE  Durable
    BY <1>14 DEF ProjectOk, Project, Goto
  <1>15. ASSUME NEW w \in Worker, ProjectFails(w)
         PROVE  Durable
    BY <1>15 DEF ProjectFails, Project, Goto
  <1>16. ASSUME NEW w \in Worker, Reproject(w)
         PROVE  Durable
    BY <1>16 DEF Reproject, Project, Leave
  <1>17. ASSUME NEW w \in Worker, Finalize(w)
         PROVE  Durable
    BY <1>17 DEF Finalize, OwnsRow, Leave
  <1>18. ASSUME NEW w \in Worker, FinalizeRefused(w)
         PROVE  Durable
    BY <1>18 DEF FinalizeRefused, Leave
  <1>19. ASSUME Tick
         PROVE  Durable
    BY <1>19 DEF Tick, Spend
  <1>20. ASSUME NEW w \in Worker, Die(w)
         PROVE  Durable
    BY <1>20 DEF Die, Spend
  <1>21. ASSUME Restart
         PROVE  Durable
    BY <1>21 DEF Restart, Spend
  <1>22. CASE UNCHANGED vars
    BY <1>22 DEF vars
  <1> QED
    BY <1>1, <1>2, <1>3, <1>4, <1>5, <1>6, <1>7, <1>8, <1>9, <1>10, <1>11, <1>12, <1>13, <1>14, <1>15, <1>16, <1>17, <1>18, <1>19, <1>20, <1>21, <1>22
       DEF Next, WorkerStep, Environment

-----------------------------------------------------------------------------

(* The invariant is inductive. *)
THEOREM InvariantHolds == Spec => []InboxInvariant
  <1>1. InboxInvariant /\ [Next]_vars => InboxInvariant'
    BY TypeStep, RowsStep, WorkersStep, TokensStep, OneOwnerStep, OwnerStep, StaleStep,
       ProcessedStep, GraphStep
       DEF InboxInvariant
  <1> QED
    BY InitInvariant, <1>1, PTL DEF Spec

(* The state of the inbox stays well-typed, whatever fails or overlaps. *)
THEOREM TypeCorrect == Spec => []TypeOK
  BY InvariantHolds, PTL DEF InboxInvariant

(* claimed_at identifies one processor, until the lease of a claim with a    *)
(* reading that another holder claimed with has run out.                     *)
THEOREM OneOwnerHolds == Spec => []OneOwner
  BY InvariantHolds, PTL DEF InboxInvariant

(* The fence works: the row of a processor that still carries the current    *)
(* token is PROCESSING, so no stale worker has failed or finished it, unless *)
(* its token was used twice and its lease has run out.                       *)
THEOREM FenceHolds == Spec => []OwnerHoldsClaim
  BY InvariantHolds, PTL DEF InboxInvariant

(* A row changes hands only past the lease of the worker that loses it. *)
THEOREM LeaseHolds == Spec => []StaleOnlyAfterLease
  BY InvariantHolds, PTL DEF InboxInvariant

(* A PROCESSED row has its canonical event and its projection. *)
THEOREM ProcessedHolds == Spec => []ProcessedIsProjected
  BY InvariantHolds, PTL DEF InboxInvariant

(* Neo4j holds projections of canonical events only. *)
THEOREM CanonicalHolds == Spec => []GraphIsCanonical
  BY InvariantHolds, PTL DEF InboxInvariant

(* Accepted deliveries are durable and PROCESSED is final. *)
THEOREM DurabilityHolds == Spec => RowsAreDurable
  <1>1. InboxInvariant /\ [Next]_vars =>
            [\A e \in Event :
                /\ status[e] # "ABSENT" =>
                       /\ status'[e] # "ABSENT"
                       /\ body'[e] = body[e] /\ receivedAt'[e] = receivedAt[e]
                /\ status[e] = "PROCESSED" => status'[e] = "PROCESSED"]_vars
    BY DurableStep DEF Durable
  <1> QED
    BY InvariantHolds, <1>1, PTL DEF Spec, RowsAreDurable

----------------------------------------------------------------------------
(***************************************************************************)
(* The webhook inbox implements LeasedWork: proof of the refinement that   *)
(* TLC checks on small instances as ImplementsLeasedWork.                  *)
(***************************************************************************)
(* The current token is carried by at most one worker. *)
Sole == \A v, w \in Worker : \A e \in Event : Owns(v, e) /\ Owns(w, e) => v = w

(* So it is while no token has been used twice. *)
LEMMA OwnerIsUnique == InboxInvariant /\ reused = {} => Sole
  BY DEF InboxInvariant, OneOwner, Sole

(* The history of reused tokens is not forgotten. *)
LEMMA ReusedStays == [Next]_vars => reused \subseteq reused'
  <1> USE DEF rowVars, storeVars, workerVars
  <1>1. ASSUME NEW w \in Worker, WorkerStep(w) PROVE reused \subseteq reused'
    BY <1>1 DEF WorkerStep, ClaimRefused, ClaimAndNormalize, ClaimAndReject, Iterate,
                NothingToClaim, ClaimNext, ClaimLost, NormalizeClaimed, RejectClaimed,
                ProjectOk, ProjectFails, Reproject, Finalize, FinalizeRefused, Reuse
  <1>2. ASSUME NEW w \in Worker, NEW e \in Event, StartTask(w, e)
        PROVE  reused \subseteq reused'
    BY <1>2 DEF StartTask, Begin
  <1>3. ASSUME Environment PROVE reused \subseteq reused'
    BY <1>3 DEF Environment, DeliverNew, DeliverAgain, StartBatch, Die, StartProcess, Begin,
                Tick, Restart
  <1>4. CASE UNCHANGED vars
    BY <1>4 DEF vars
  <1> QED
    BY <1>1, <1>2, <1>3, <1>4 DEF Next

(* The abstract holder of e, described without CHOOSE. *)
HolderIs(e, h) ==
    \/ h \in Worker /\ Owns(h, e)
    \/ h = None /\ \A w \in Worker : ~Owns(w, e)

(* The mapped holder is the owner, or None when the row has no owner. *)
LEMMA HolderDescribed ==
    Sole => \A e \in Event : \A h : HolderIs(e, h) <=> h = Lease_Holder[e]
  <1> SUFFICES ASSUME Sole, NEW e \in Event, NEW h
               PROVE  HolderIs(e, h) <=> h = Lease_Holder[e]
    OBVIOUS
  <1> None \notin Worker
    BY InboxAssumption
  <1>1. CASE \E w \in Worker : Owns(w, e)
    <2> DEFINE c == CHOOSE w \in Worker : Owns(w, e)
    <2>1. c \in Worker /\ Owns(c, e)
      BY <1>1
    <2>2. Lease_Holder[e] = c
      BY <1>1 DEF Lease_Holder
    <2>3. ASSUME NEW w \in Worker, Owns(w, e) PROVE w = c
      BY <2>1, <2>3 DEF Sole
    <2> HIDE DEF c
    <2> QED
      BY <1>1, <2>1, <2>2, <2>3 DEF HolderIs
  <1>2. CASE \A w \in Worker : ~Owns(w, e)
    <2>1. Lease_Holder[e] = None
      BY <1>2 DEF Lease_Holder
    <2> QED
      BY <1>2, <2>1 DEF HolderIs
  <1> QED
    BY <1>1, <1>2

LEMMA InitRefines == Init => Leased!Init
  <1> SUFFICES ASSUME Init PROVE Leased!Init
    OBVIOUS
  <1>1. \A w \in Worker : \A e \in Event : ~Owns(w, e)
    BY DEF Init, Owns, Holding
  <1> QED
    BY <1>1 DEF Init, Leased!Init, Lease_Phase, Lease_Holder

(* Ownership of d that does not change leaves the abstract holder of d alone. *)
LEMMA SameHolder ==
    ASSUME Sole, Sole', NEW d \in Event,
           \A w \in Worker : Owns(w, d)' <=> Owns(w, d)
    PROVE  Lease_Holder'[d] = Lease_Holder[d]
  <1>1. \A h : HolderIs(d, h) <=> h = Lease_Holder[d]
    BY HolderDescribed
  <1>2. \A h : HolderIs(d, h)' <=> h = Lease_Holder'[d]
    <2>1. (Sole => \A e \in Event : \A h : HolderIs(e, h) <=> h = Lease_Holder[e])'
      BY HolderDescribed, PTL
    <2> QED
      BY <2>1
  <1>3. \A h : HolderIs(d, h)' <=> HolderIs(d, h)
    BY DEF HolderIs
  <1> QED
    BY <1>1, <1>2, <1>3

(* The owner after a step is the abstract holder after it. *)
LEMMA NextHolder ==
    ASSUME Sole', NEW d \in Event
    PROVE  /\ \A w \in Worker : Owns(w, d)' => Lease_Holder'[d] = w
           /\ (\A w \in Worker : ~Owns(w, d)') => Lease_Holder'[d] = None
  <1>1. (Sole => \A e \in Event : \A h : HolderIs(e, h) <=> h = Lease_Holder[e])'
    BY HolderDescribed, PTL
  <1> QED
    BY <1>1 DEF HolderIs

(* A step that changes neither statuses, owners nor closers is a stutter. *)
LEMMA QuietStep ==
    ASSUME Sole, Sole', status' = status, closedBy' = closedBy,
           \A d \in Event : \A w \in Worker : Owns(w, d)' <=> Owns(w, d)
    PROVE  UNCHANGED Leased!vars
  <1>1. \A d \in Event : Lease_Holder'[d] = Lease_Holder[d]
    BY SameHolder
  <1>2. Lease_Holder' = Lease_Holder
    BY <1>1 DEF Lease_Holder
  <1>3. Lease_Phase' = Lease_Phase
    BY DEF Lease_Phase
  <1> QED
    BY <1>2, <1>3 DEF Leased!vars

(* Steps that touch no claim: requests, starts, clock readings, the merge    *)
(* into Neo4j, and whatever a worker does that has lost its row.             *)
Quiet(w) ==
    \/ ClaimRefused(w) \/ Iterate(w) \/ NothingToClaim(w) \/ ClaimLost(w)
    \/ NormalizeClaimed(w) \/ ProjectOk(w) \/ ProjectFails(w) \/ Reproject(w)
    \/ FinalizeRefused(w) \/ StartBatch(w)
    \/ \E e \in Event : StartTask(w, e) \/ StartProcess(w, e)

LEMMA QuietRefines ==
    ASSUME InboxInvariant, InboxInvariant', reused = {}, reused' = {}, NEW w \in Worker, Quiet(w)
    PROVE  UNCHANGED Leased!vars
  <1> USE DEF InboxInvariant, TypeOK, Holding, PC, Owns, rowVars, storeVars, workerVars
  <1>1. Sole /\ Sole'
    <2>1. (InboxInvariant /\ reused = {} => Sole)'
      BY OwnerIsUnique, PTL
    <2> QED
      BY <2>1, OwnerIsUnique
  <1>2. status' = status /\ closedBy' = closedBy /\ claimedAt' = claimedAt
    BY DEF Quiet, ClaimRefused, Iterate, NothingToClaim, ClaimLost, NormalizeClaimed,
           ProjectOk, ProjectFails, Reproject, FinalizeRefused, StartBatch,
           StartTask, StartProcess, Begin, ReadClock, Leave, Goto
  <1>3. ASSUME NEW d \in Event, NEW v \in Worker, v # w
        PROVE  Owns(v, d)' <=> Owns(v, d)
    BY <1>2, <1>3
       DEF Quiet, ClaimRefused, Iterate, NothingToClaim, ClaimLost, NormalizeClaimed,
           ProjectOk, ProjectFails, Reproject, FinalizeRefused, StartBatch,
           StartTask, StartProcess, Begin, ReadClock, Leave, Goto
  <1>4. ASSUME NEW d \in Event
        PROVE  Owns(w, d)' <=> Owns(w, d)
    <2>1. CASE ClaimRefused(w) \/ Iterate(w) \/ NothingToClaim(w) \/ Reproject(w)
               \/ StartBatch(w) \/ \E e \in Event : StartTask(w, e) \/ StartProcess(w, e)
      BY <2>1 DEF ClaimRefused, Iterate, NothingToClaim, Reproject, StartBatch,
                  StartTask, StartProcess, Begin, ReadClock, Leave
    <2>2. CASE ClaimLost(w) \/ FinalizeRefused(w)
      BY <2>2 DEF ClaimLost, FinalizeRefused, OwnsRow, OwnerHoldsClaim, Leave
    <2>3. CASE NormalizeClaimed(w) \/ ProjectOk(w) \/ ProjectFails(w)
      BY <2>3 DEF NormalizeClaimed, ProjectOk, ProjectFails, Goto
    <2> QED
      BY <2>1, <2>2, <2>3 DEF Quiet
  <1>5. \A d \in Event : \A v \in Worker : Owns(v, d)' <=> Owns(v, d)
    BY <1>3, <1>4
  <1> HIDE DEF InboxInvariant, TypeOK, Owns
  <1> QED
    BY <1>1, <1>2, <1>5, QuietStep

(* A claim is an abstract Take by the claiming worker. *)
LEMMA ClaimRefines ==
    ASSUME InboxInvariant, InboxInvariant', reused = {}, reused' = {},
           NEW w \in Worker, NEW e \in Event,
           ClaimNext(w, e) \/ (ClaimAndNormalize(w) /\ e = item[w])
    PROVE  Leased!Take(w, e)
  <1> USE DEF InboxInvariant, TypeOK, Holding, PC, Owns, rowVars, storeVars, workerVars
  <1>0. status \in [Event -> Status]
    BY DEF InboxInvariant, TypeOK
  <1>1. Sole /\ Sole'
    <2>1. (InboxInvariant /\ reused = {} => Sole)'
      BY OwnerIsUnique, PTL
    <2> QED
      BY <2>1, OwnerIsUnique
  <1>2. /\ status[e] \in {"RECEIVED", "FAILED", "PROCESSING"}
        /\ status' = [status EXCEPT ![e] = "PROCESSING"]
        /\ closedBy' = closedBy
        /\ ~Owns(w, e)
        /\ Owns(w, e)'
    BY DEF ClaimNext, ClaimAndNormalize, Claimable
  <1>3. ASSUME NEW d \in Event, d # e, NEW v \in Worker
        PROVE  Owns(v, d)' <=> Owns(v, d)
    BY <1>3 DEF ClaimNext, ClaimAndNormalize
  <1> HIDE DEF InboxInvariant, Owns
  <1>4. \A d \in Event : d # e => Lease_Holder'[d] = Lease_Holder[d]
    BY <1>1, <1>3, SameHolder
  <1>5. Lease_Holder'[e] = w /\ Lease_Holder[e] # w
    <2>1. Lease_Holder'[e] = w
      BY <1>1, <1>2, NextHolder
    <2>2. w # None
      BY InboxAssumption
    <2>3. ~HolderIs(e, w)
      BY <1>2, <2>2 DEF HolderIs
    <2> QED
      BY <1>1, <2>1, <2>3, HolderDescribed
  <1>6. Lease_Holder' = [Lease_Holder EXCEPT ![e] = w]
    BY <1>4, <1>5, ZenonT(40) DEF Lease_Holder
  <1>7. Lease_Phase' = [Lease_Phase EXCEPT ![e] = "held"]
        /\ Lease_Phase[e] \in {"open", "held"}
    BY <1>0, <1>2 DEF Lease_Phase, Status
  <1> QED
    BY <1>2, <1>5, <1>6, <1>7 DEF Leased!Take

(* Closing a row is an abstract Close by the owner, who was the holder. *)
LEMMA FinalizeRefines ==
    ASSUME InboxInvariant, InboxInvariant', reused = {}, reused' = {}, NEW w \in Worker,
           Finalize(w) \/ RejectClaimed(w)
    PROVE  \E p \in {"open", "done"} : Leased!Close(item[w], p)
  <1> USE DEF InboxInvariant, TypeOK, Holding, PC, Owns, rowVars, storeVars, workerVars
  <1>0. status \in [Event -> Status]
    BY DEF InboxInvariant, TypeOK
  <1>1. Sole /\ Sole'
    <2>1. (InboxInvariant /\ reused = {} => Sole)'
      BY OwnerIsUnique, PTL
    <2> QED
      BY <2>1, OwnerIsUnique
  <1>2. PICK e \in Event : e = item[w]
    BY DEF Finalize, RejectClaimed, WorkersConsistent
  <1>3. PICK st \in {"PROCESSED", "FAILED"} : status' = [status EXCEPT ![e] = st]
    BY <1>2 DEF Finalize, RejectClaimed
  <1>4. /\ status[e] = "PROCESSING"
        /\ closedBy' = [closedBy EXCEPT ![e] = w]
        /\ Owns(w, e)
    BY <1>2 DEF Finalize, RejectClaimed, OwnsRow
  <1>5. ASSUME NEW d \in Event, d # e, NEW v \in Worker
        PROVE  Owns(v, d)' <=> Owns(v, d)
    BY <1>2, <1>5 DEF Finalize, RejectClaimed, Leave
  <1>6. ASSUME NEW v \in Worker
        PROVE  ~Owns(v, e)'
    BY <1>1, <1>2, <1>4 DEF Finalize, RejectClaimed, Leave, Sole
  <1> HIDE DEF InboxInvariant, Owns
  <1>7. \A d \in Event : d # e => Lease_Holder'[d] = Lease_Holder[d]
    BY <1>1, <1>5, SameHolder
  <1>8. Lease_Holder'[e] = None
    BY <1>1, <1>6, NextHolder
  <1>9. Lease_Holder[e] = w
    BY <1>1, <1>4, HolderDescribed DEF HolderIs
  <1>10. Lease_Holder' = [Lease_Holder EXCEPT ![e] = None]
    BY <1>7, <1>8 DEF Lease_Holder
  <1>11. Lease_Phase[e] = "held"
    BY <1>0, <1>4 DEF Lease_Phase, Status
  <1>12. PICK p \in {"open", "done"} : Lease_Phase' = [Lease_Phase EXCEPT ![e] = p]
    <2>1. CASE st = "PROCESSED"
      BY <1>0, <1>3, <2>1 DEF Lease_Phase, Status
    <2>2. CASE st = "FAILED"
      BY <1>0, <1>3, <2>2 DEF Lease_Phase, Status
    <2> QED
      BY <2>1, <2>2
  <1> QED
    BY <1>2, <1>4, <1>9, <1>10, <1>11, <1>12 DEF Leased!Close

(* A claim whose row does not normalize is taken and given back at once. *)
LEMMA RejectRefines ==
    ASSUME InboxInvariant, InboxInvariant', reused = {}, reused' = {}, NEW w \in Worker, ClaimAndReject(w)
    PROVE  Leased!TakeAndGiveBack(w, item[w])
  <1> USE DEF InboxInvariant, TypeOK, Holding, PC, Owns, rowVars, storeVars, workerVars
  <1>0. status \in [Event -> Status]
    BY DEF InboxInvariant, TypeOK
  <1>1. Sole /\ Sole'
    <2>1. (InboxInvariant /\ reused = {} => Sole)'
      BY OwnerIsUnique, PTL
    <2> QED
      BY <2>1, OwnerIsUnique
  <1>2. PICK e \in Event : e = item[w]
    BY DEF ClaimAndReject, WorkersConsistent
  <1>3. /\ status[e] \in {"RECEIVED", "FAILED", "PROCESSING"}
        /\ status' = [status EXCEPT ![e] = "FAILED"]
        /\ closedBy' = [closedBy EXCEPT ![e] = w]
    BY <1>2 DEF ClaimAndReject, Claimable
  <1>4. ASSUME NEW d \in Event, d # e, NEW v \in Worker
        PROVE  Owns(v, d)' <=> Owns(v, d)
    BY <1>2, <1>4 DEF ClaimAndReject, Leave
  <1>5. ASSUME NEW v \in Worker
        PROVE  ~Owns(v, e)'
    <2>1. status'[e] # "PROCESSING"
      BY <1>0, <1>2, <1>3
    <2>2. Owns(v, e)' => status'[e] = "PROCESSING"
      BY <1>2 DEF OwnerHoldsClaim
    <2> QED
      BY <2>1, <2>2
  <1> HIDE DEF InboxInvariant, Owns
  <1>6. \A d \in Event : d # e => Lease_Holder'[d] = Lease_Holder[d]
    BY <1>1, <1>4, SameHolder
  <1>7. Lease_Holder'[e] = None
    BY <1>1, <1>5, NextHolder
  <1>8. Lease_Holder' = [Lease_Holder EXCEPT ![e] = None]
    BY <1>6, <1>7 DEF Lease_Holder
  <1>9. Lease_Phase' = [Lease_Phase EXCEPT ![e] = "open"]
        /\ Lease_Phase[e] \in {"open", "held"}
    BY <1>0, <1>3 DEF Lease_Phase, Status
  <1> QED
    BY <1>2, <1>3, <1>8, <1>9 DEF Leased!TakeAndGiveBack

(* Dying workers abandon exactly the rows they own. *)
LEMMA CrashRefines ==
    ASSUME InboxInvariant, InboxInvariant', reused = {}, reused' = {}, Restart \/ \E w \in Worker : Die(w)
    PROVE  \E S \in SUBSET Event : Leased!Abandon(S)
  <1> USE DEF InboxInvariant, TypeOK, Holding, PC, Owns, rowVars, storeVars, workerVars
  <1>0. status \in [Event -> Status]
    BY DEF InboxInvariant, TypeOK
  <1>1. Sole /\ Sole'
    <2>1. (InboxInvariant /\ reused = {} => Sole)'
      BY OwnerIsUnique, PTL
    <2> QED
      BY <2>1, OwnerIsUnique
  <1> DEFINE S == {d \in Event : \E w \in Worker : Owns(w, d) /\ ~Owns(w, d)'}
  <1>2. status' = status /\ closedBy' = closedBy
    BY DEF Restart, Die
  <1>3. \A d \in Event : \A v \in Worker : Owns(v, d)' => Owns(v, d)
    BY DEF Restart, Die
  <1>4. \A d \in S : status[d] = "PROCESSING"
    BY DEF OwnerHoldsClaim
  <1> HIDE DEF InboxInvariant, Owns
  <1>5. \A d \in S : Lease_Holder'[d] = None /\ Lease_Holder[d] \in Worker
    <2> SUFFICES ASSUME NEW d \in Event, NEW w \in Worker, Owns(w, d), ~Owns(w, d)'
                 PROVE  Lease_Holder'[d] = None /\ Lease_Holder[d] \in Worker
      OBVIOUS
    <2>1. \A v \in Worker : ~Owns(v, d)'
      BY <1>1, <1>3 DEF Sole
    <2>2. Lease_Holder[d] = w
      BY <1>1, HolderDescribed DEF HolderIs
    <2> QED
      BY <1>1, <2>1, <2>2, NextHolder
  <1>6. \A d \in Event \ S : Lease_Holder'[d] = Lease_Holder[d]
    BY <1>1, <1>3, SameHolder
  <1>7. Lease_Holder' = [d \in Event |-> IF d \in S THEN None ELSE Lease_Holder[d]]
    BY <1>5, <1>6 DEF Lease_Holder
  <1>8. Lease_Phase' = Lease_Phase /\ \A d \in S : Lease_Phase[d] = "held"
    BY <1>0, <1>2, <1>4 DEF Lease_Phase, Status
  <1> QED
    BY <1>2, <1>5, <1>7, <1>8 DEF Leased!Abandon

LEMMA DeliverRefines ==
    ASSUME InboxInvariant, InboxInvariant', reused = {}, reused' = {}, NEW e \in Event, NEW b \in Body,
           DeliverNew(e, b)
    PROVE  Leased!Admit(e)
  <1> USE DEF InboxInvariant, TypeOK, Owns, rowVars, storeVars, workerVars
  <1>0. status \in [Event -> Status]
    BY DEF InboxInvariant, TypeOK
  <1>1. Sole /\ Sole'
    <2>1. (InboxInvariant /\ reused = {} => Sole)'
      BY OwnerIsUnique, PTL
    <2> QED
      BY <2>1, OwnerIsUnique
  <1>2. /\ status[e] = "ABSENT"
        /\ status' = [status EXCEPT ![e] = "RECEIVED"]
        /\ closedBy' = closedBy
        /\ \A d \in Event : \A v \in Worker : Owns(v, d)' <=> Owns(v, d)
    BY DEF DeliverNew
  <1> HIDE DEF InboxInvariant, Owns
  <1>3. \A d \in Event : Lease_Holder'[d] = Lease_Holder[d]
    BY <1>1, <1>2, SameHolder
  <1>4. Lease_Holder' = Lease_Holder
    BY <1>3 DEF Lease_Holder
  <1>5. Lease_Phase' = [Lease_Phase EXCEPT ![e] = "open"] /\ Lease_Phase[e] = "absent"
    BY <1>0, <1>2 DEF Lease_Phase, Status
  <1> QED
    BY <1>2, <1>4, <1>5 DEF Leased!Admit

(* Redeliveries, the passing of time and stuttering touch no row. *)
LEMMA IdleRefines ==
    ASSUME InboxInvariant, InboxInvariant', reused = {}, reused' = {},
           \/ \E e \in Event, b \in Body : DeliverAgain(e, b)
           \/ Tick
           \/ UNCHANGED vars
    PROVE  UNCHANGED Leased!vars
  <1>1. Sole /\ Sole'
    <2>1. (InboxInvariant /\ reused = {} => Sole)'
      BY OwnerIsUnique, PTL
    <2> QED
      BY <2>1, OwnerIsUnique
  <1>2. /\ status' = status /\ closedBy' = closedBy
        /\ \A d \in Event : \A v \in Worker : Owns(v, d)' <=> Owns(v, d)
    BY DEF DeliverAgain, Tick, vars, rowVars, storeVars, workerVars, Owns
  <1> QED
    BY <1>1, <1>2, QuietStep

(* Every step of the inbox is a step of LeasedWork or leaves it unchanged,   *)
(* while no token has been used twice.                                       *)
LEMMA StepRefines ==
    InboxInvariant /\ InboxInvariant' /\ [Next]_vars
        => [Leased!Next \/ reused' # {}]_(Leased!vars)
  <1> SUFFICES ASSUME InboxInvariant, InboxInvariant', [Next]_vars, reused' = {}
               PROVE  [Leased!Next]_(Leased!vars)
    OBVIOUS
  <1>0. reused = {}
    BY ReusedStays
  <1>1. ASSUME NEW w \in Worker, Quiet(w) PROVE UNCHANGED Leased!vars
    BY <1>0, <1>1, QuietRefines
  <1>2. ASSUME NEW w \in Worker, NEW e \in Event,
               ClaimNext(w, e) \/ (ClaimAndNormalize(w) /\ e = item[w])
        PROVE  Leased!Next
    BY <1>0, <1>2, ClaimRefines DEF Leased!Next
  <1>3. ASSUME NEW w \in Worker, ClaimAndNormalize(w) PROVE Leased!Next
    <2>1. item[w] \in Event
      BY <1>3 DEF ClaimAndNormalize, InboxInvariant, WorkersConsistent
    <2> QED
      BY <1>2, <1>3, <2>1
  <1>4. ASSUME NEW w \in Worker, Finalize(w) \/ RejectClaimed(w) PROVE Leased!Next
    <2>1. item[w] \in Event
      BY <1>4 DEF Finalize, RejectClaimed, InboxInvariant, WorkersConsistent, Holding
    <2> QED
      BY <1>0, <1>4, <2>1, FinalizeRefines DEF Leased!Next
  <1>5. ASSUME NEW w \in Worker, ClaimAndReject(w) PROVE Leased!Next
    <2>1. item[w] \in Event
      BY <1>5 DEF ClaimAndReject, InboxInvariant, WorkersConsistent
    <2> QED
      BY <1>0, <1>5, <2>1, RejectRefines DEF Leased!Next
  <1>6. ASSUME Restart \/ \E w \in Worker : Die(w) PROVE Leased!Next
    BY <1>0, <1>6, CrashRefines DEF Leased!Next
  <1>7. ASSUME NEW e \in Event, NEW b \in Body, DeliverNew(e, b) PROVE Leased!Next
    BY <1>0, <1>7, DeliverRefines DEF Leased!Next
  <1>8. ASSUME \/ \E e \in Event, b \in Body : DeliverAgain(e, b)
               \/ Tick
               \/ UNCHANGED vars
        PROVE  UNCHANGED Leased!vars
    BY <1>0, <1>8, IdleRefines
  <1> QED
    BY <1>1, <1>2, <1>3, <1>4, <1>5, <1>6, <1>7, <1>8
       DEF Next, WorkerStep, Environment, Quiet

(* The inbox implements the abstract table of leased work: only the current  *)
(* claimant closes a row, and a PROCESSED row is never claimed again; unless *)
(* a row is claimed with a token that another worker still holds it by.      *)
THEOREM InboxRefinesLeasedWork == Spec => ImplementsLeasedWork
  <1>1. Spec => Leased!Init
    BY InitRefines DEF Spec
  <1>2. Spec => [][Leased!Next \/ reused' # {}]_(Leased!vars)
    BY InvariantHolds, StepRefines, PTL DEF Spec
  <1> QED
    BY <1>1, <1>2, PTL DEF ImplementsLeasedWork
===============================================================================
