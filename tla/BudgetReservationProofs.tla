---------------------- MODULE BudgetReservationProofs ----------------------
(***************************************************************************)
(* Proofs about BudgetReservation, for any number of requests and budgets, *)
(* any limits, estimates and costs, with or without requests that outlive  *)
(* their reservation.                                                      *)
(***************************************************************************)
EXTENDS BudgetReservation, Sums, TLAPS

(* Two attempts of one project never sit between their spend read and their
   commit together (the FOR UPDATE of reserveBudgetForRequest). *)
SerializedAttempts == \A r \in Requests : pc[r] \in InTx => lock = r

(* Both loops that walk the budgets stay inside them. *)
LoopInRange == \A r \in Requests : pc[r] \in {"spend", "release"} => next[r] \in Budgets

(* The NOW() of a transaction is never ahead of the clock. *)
NowInPast == \A r \in Requests : txExpired[r] \subseteq expired

(* Rows exist only after their INSERT, and a release loop has let go of the
   rows behind it. *)
RowsFollowPhase ==
  \A r \in Requests : \A b \in Budgets :
    /\ pc[r] \in {"start", "begun", "rejected", "failed"} \cup InTx => resv[r][b] = "none"
    /\ pc[r] = "release" /\ b < next[r] => resv[r][b] # "pending"
    /\ pc[r] = "done" => resv[r][b] # "pending"

IInv ==
  /\ TypeOK
  /\ LoopInRange
  /\ SerializedAttempts
  /\ NowInPast
  /\ InFlightCounted
  /\ RowsFollowPhase

-----------------------------------------------------------------------------
(* Types *)

LEMMA InitTypes == Init => TypeOK /\ LoopInRange
BY BudgetsAssumption, AmountsAssumption
   DEF Init, TypeOK, LoopInRange, NoRows, Phases, InTx, Over, Budgets

(* Every step keeps the variables in their types and the loops in range. *)
LEMMA StepTypes == TypeOK /\ LoopInRange /\ [Next]_vars => (TypeOK /\ LoopInRange)'
<1> SUFFICES ASSUME TypeOK, LoopInRange, [Next]_vars
             PROVE  (TypeOK /\ LoopInRange)'
  OBVIOUS
<1> USE BudgetsAssumption, AmountsAssumption DEF Budgets
<1>1. ASSUME NEW r \in Requests, PassFree(r) PROVE (TypeOK /\ LoopInRange)'
  BY <1>1 DEF TypeOK, LoopInRange, PassFree, Goto, txVars, Phases, InTx, Over
<1>2. ASSUME NEW r \in Requests, BeginTx(r) PROVE (TypeOK /\ LoopInRange)'
  BY <1>2 DEF TypeOK, LoopInRange, BeginTx, Goto, Phases, InTx, Over
<1>3. ASSUME NEW r \in Requests, LockBudgets(r) PROVE (TypeOK /\ LoopInRange)'
  BY <1>3 DEF TypeOK, LoopInRange, LockBudgets, Goto, txVars, Phases, InTx, Over
<1>4. ASSUME NEW r \in Requests, ReadSpend(r) PROVE (TypeOK /\ LoopInRange)'
  BY <1>4 DEF TypeOK, LoopInRange, ReadSpend, Goto, Phases, InTx, Over
<1>5. ASSUME NEW r \in Requests, ReadReserved(r) PROVE (TypeOK /\ LoopInRange)'
  BY <1>5 DEF TypeOK, LoopInRange, ReadReserved, PendingRows, Goto, Phases, InTx, Over
<1>6. ASSUME NEW r \in Requests, Admit(r) PROVE (TypeOK /\ LoopInRange)'
  BY <1>6 DEF TypeOK, LoopInRange, Admit, EndTx, NoRows, Goto, Phases, InTx, Over
<1>7. ASSUME NEW r \in Requests, AdmitUnacknowledged(r) PROVE (TypeOK /\ LoopInRange)'
  BY <1>7 DEF TypeOK, LoopInRange, AdmitUnacknowledged, EndTx, NoRows, Goto, Phases, InTx, Over
<1>8. ASSUME NEW r \in Requests, Reject(r) PROVE (TypeOK /\ LoopInRange)'
  BY <1>8 DEF TypeOK, LoopInRange, Reject, EndTx, NoRows, Goto, Phases, InTx, Over
<1>9. ASSUME NEW r \in Requests, FailTx(r) PROVE (TypeOK /\ LoopInRange)'
  BY <1>9 DEF TypeOK, LoopInRange, FailTx, EndTx, NoRows, Goto, Phases, InTx, Over
<1>10. ASSUME NEW r \in Requests, UpstreamOk(r) PROVE (TypeOK /\ LoopInRange)'
  BY <1>10 DEF TypeOK, LoopInRange, UpstreamOk, Goto, txVars, Phases, InTx, Over
<1>11. ASSUME NEW r \in Requests, UpstreamError(r) PROVE (TypeOK /\ LoopInRange)'
  BY <1>11 DEF TypeOK, LoopInRange, UpstreamError, Goto, txVars, Phases, InTx, Over
<1>12. ASSUME NEW r \in Requests, InsertRequest(r) PROVE (TypeOK /\ LoopInRange)'
  BY <1>12 DEF TypeOK, LoopInRange, InsertRequest, Goto, txVars, Phases, InTx, Over
<1>13. ASSUME NEW r \in Requests, InsertRequestFails(r) PROVE (TypeOK /\ LoopInRange)'
  BY <1>13 DEF TypeOK, LoopInRange, InsertRequestFails, Goto, txVars, Phases, InTx, Over
<1>14. ASSUME NEW r \in Requests, ReleaseRow(r) PROVE (TypeOK /\ LoopInRange)'
  BY <1>14 DEF TypeOK, LoopInRange, ReleaseRow, Goto, txVars, Phases, InTx, Over
<1>15. ASSUME NEW r \in Requests, ReleaseFails(r) PROVE (TypeOK /\ LoopInRange)'
  BY <1>15 DEF TypeOK, LoopInRange, ReleaseFails, Goto, txVars, Phases, InTx, Over
<1>16. ASSUME NEW r \in Requests, Crash(r) PROVE (TypeOK /\ LoopInRange)'
  BY <1>16 DEF TypeOK, LoopInRange, Crash, EndTx, NoRows, Goto, Phases, InTx, Over
<1>17. ASSUME NEW r \in Requests, Expire(r) PROVE (TypeOK /\ LoopInRange)'
  BY <1>17 DEF TypeOK, LoopInRange, Expire, txVars
<1>18. ASSUME NEW b \in Budgets, RollOver(b) PROVE (TypeOK /\ LoopInRange)'
  BY <1>18 DEF TypeOK, LoopInRange, RollOver, txVars
<1>19. ASSUME NEW b \in Budgets, SetLimit(b) PROVE (TypeOK /\ LoopInRange)'
  BY <1>19 DEF TypeOK, LoopInRange, SetLimit, txVars
<1>20. CASE UNCHANGED vars
  BY <1>20 DEF TypeOK, LoopInRange, vars
<1> QED
  BY <1>1, <1>2, <1>3, <1>4, <1>5, <1>6, <1>7, <1>8, <1>9, <1>10, <1>11, <1>12,
     <1>13, <1>14, <1>15, <1>16, <1>17, <1>18, <1>19, <1>20
     DEF Next, Reserve, Finish

-----------------------------------------------------------------------------
(* The lock and the clock *)

(* Mutual exclusion of the reservation transactions is inductive by itself. *)
LEMMA StepSerialized ==
  TypeOK /\ SerializedAttempts /\ [Next]_vars => SerializedAttempts'
<1> SUFFICES ASSUME TypeOK, SerializedAttempts, [Next]_vars
             PROVE  SerializedAttempts'
  OBVIOUS
<1> USE NoneAssumption
<1>1. ASSUME NEW r \in Requests, PassFree(r) PROVE SerializedAttempts'
  BY <1>1 DEF TypeOK, SerializedAttempts, InTx, PassFree, Goto, txVars
<1>2. ASSUME NEW r \in Requests, BeginTx(r) PROVE SerializedAttempts'
  BY <1>2 DEF TypeOK, SerializedAttempts, InTx, BeginTx, Goto
<1>3. ASSUME NEW r \in Requests, LockBudgets(r) PROVE SerializedAttempts'
  BY <1>3 DEF TypeOK, SerializedAttempts, InTx, LockBudgets, Goto, txVars
<1>4. ASSUME NEW r \in Requests, ReadSpend(r) PROVE SerializedAttempts'
  BY <1>4 DEF TypeOK, SerializedAttempts, InTx, ReadSpend, Goto
<1>5. ASSUME NEW r \in Requests, ReadReserved(r) PROVE SerializedAttempts'
  BY <1>5 DEF TypeOK, SerializedAttempts, InTx, ReadReserved, Goto
<1>6. ASSUME NEW r \in Requests, Admit(r) PROVE SerializedAttempts'
  BY <1>6 DEF TypeOK, SerializedAttempts, InTx, Admit, EndTx, Goto
<1>7. ASSUME NEW r \in Requests, AdmitUnacknowledged(r) PROVE SerializedAttempts'
  BY <1>7 DEF TypeOK, SerializedAttempts, InTx, AdmitUnacknowledged, EndTx, Goto
<1>8. ASSUME NEW r \in Requests, Reject(r) PROVE SerializedAttempts'
  BY <1>8 DEF TypeOK, SerializedAttempts, InTx, Reject, EndTx, Goto
<1>9. ASSUME NEW r \in Requests, FailTx(r) PROVE SerializedAttempts'
  BY <1>9 DEF TypeOK, SerializedAttempts, InTx, FailTx, EndTx, Goto
<1>10. ASSUME NEW r \in Requests, UpstreamOk(r) PROVE SerializedAttempts'
  BY <1>10 DEF TypeOK, SerializedAttempts, InTx, UpstreamOk, Goto, txVars
<1>11. ASSUME NEW r \in Requests, UpstreamError(r) PROVE SerializedAttempts'
  BY <1>11 DEF TypeOK, SerializedAttempts, InTx, UpstreamError, Goto, txVars
<1>12. ASSUME NEW r \in Requests, InsertRequest(r) PROVE SerializedAttempts'
  BY <1>12 DEF TypeOK, SerializedAttempts, InTx, InsertRequest, Goto, txVars
<1>13. ASSUME NEW r \in Requests, InsertRequestFails(r) PROVE SerializedAttempts'
  BY <1>13 DEF TypeOK, SerializedAttempts, InTx, InsertRequestFails, Goto, txVars
<1>14. ASSUME NEW r \in Requests, ReleaseRow(r) PROVE SerializedAttempts'
  BY <1>14 DEF TypeOK, SerializedAttempts, InTx, ReleaseRow, Goto, txVars
<1>15. ASSUME NEW r \in Requests, ReleaseFails(r) PROVE SerializedAttempts'
  BY <1>15 DEF TypeOK, SerializedAttempts, InTx, ReleaseFails, Goto, txVars
<1>16. ASSUME NEW r \in Requests, Crash(r) PROVE SerializedAttempts'
  BY <1>16 DEF TypeOK, SerializedAttempts, InTx, Crash, EndTx, Goto, Over
<1>17. ASSUME NEW r \in Requests, Expire(r) PROVE SerializedAttempts'
  BY <1>17 DEF TypeOK, SerializedAttempts, InTx, Expire, txVars
<1>18. ASSUME NEW b \in Budgets, RollOver(b) PROVE SerializedAttempts'
  BY <1>18 DEF TypeOK, SerializedAttempts, InTx, RollOver, txVars
<1>19. ASSUME NEW b \in Budgets, SetLimit(b) PROVE SerializedAttempts'
  BY <1>19 DEF TypeOK, SerializedAttempts, InTx, SetLimit, txVars
<1>20. CASE UNCHANGED vars
  BY <1>20 DEF TypeOK, SerializedAttempts, InTx, vars
<1> QED
  BY <1>1, <1>2, <1>3, <1>4, <1>5, <1>6, <1>7, <1>8, <1>9, <1>10, <1>11,
     <1>12, <1>13, <1>14, <1>15, <1>16, <1>17, <1>18, <1>19, <1>20
     DEF Next, Reserve, Finish

(* A transaction copies the expired rows when it begins; they only grow. *)
LEMMA StepNowInPast == TypeOK /\ NowInPast /\ [Next]_vars => NowInPast'
<1> SUFFICES ASSUME TypeOK, NowInPast, [Next]_vars
             PROVE  NowInPast'
  OBVIOUS
<1>1. ASSUME NEW r \in Requests, PassFree(r) PROVE NowInPast'
  BY <1>1 DEF TypeOK, NowInPast, PassFree, Goto, txVars
<1>2. ASSUME NEW r \in Requests, BeginTx(r) PROVE NowInPast'
  BY <1>2 DEF TypeOK, NowInPast, BeginTx, Goto
<1>3. ASSUME NEW r \in Requests, LockBudgets(r) PROVE NowInPast'
  BY <1>3 DEF TypeOK, NowInPast, LockBudgets, Goto, txVars
<1>4. ASSUME NEW r \in Requests, ReadSpend(r) PROVE NowInPast'
  BY <1>4 DEF TypeOK, NowInPast, ReadSpend, Goto
<1>5. ASSUME NEW r \in Requests, ReadReserved(r) PROVE NowInPast'
  BY <1>5 DEF TypeOK, NowInPast, ReadReserved, Goto
<1>6. ASSUME NEW r \in Requests, Admit(r) PROVE NowInPast'
  BY <1>6 DEF TypeOK, NowInPast, Admit, EndTx, Goto
<1>7. ASSUME NEW r \in Requests, AdmitUnacknowledged(r) PROVE NowInPast'
  BY <1>7 DEF TypeOK, NowInPast, AdmitUnacknowledged, EndTx, Goto
<1>8. ASSUME NEW r \in Requests, Reject(r) PROVE NowInPast'
  BY <1>8 DEF TypeOK, NowInPast, Reject, EndTx, Goto
<1>9. ASSUME NEW r \in Requests, FailTx(r) PROVE NowInPast'
  BY <1>9 DEF TypeOK, NowInPast, FailTx, EndTx, Goto
<1>10. ASSUME NEW r \in Requests, UpstreamOk(r) PROVE NowInPast'
  BY <1>10 DEF TypeOK, NowInPast, UpstreamOk, Goto, txVars
<1>11. ASSUME NEW r \in Requests, UpstreamError(r) PROVE NowInPast'
  BY <1>11 DEF TypeOK, NowInPast, UpstreamError, Goto, txVars
<1>12. ASSUME NEW r \in Requests, InsertRequest(r) PROVE NowInPast'
  BY <1>12 DEF TypeOK, NowInPast, InsertRequest, Goto, txVars
<1>13. ASSUME NEW r \in Requests, InsertRequestFails(r) PROVE NowInPast'
  BY <1>13 DEF TypeOK, NowInPast, InsertRequestFails, Goto, txVars
<1>14. ASSUME NEW r \in Requests, ReleaseRow(r) PROVE NowInPast'
  BY <1>14 DEF TypeOK, NowInPast, ReleaseRow, Goto, txVars
<1>15. ASSUME NEW r \in Requests, ReleaseFails(r) PROVE NowInPast'
  BY <1>15 DEF TypeOK, NowInPast, ReleaseFails, Goto, txVars
<1>16. ASSUME NEW r \in Requests, Crash(r) PROVE NowInPast'
  BY <1>16 DEF TypeOK, NowInPast, Crash, EndTx, Goto
<1>17. ASSUME NEW r \in Requests, Expire(r) PROVE NowInPast'
  BY <1>17 DEF TypeOK, NowInPast, Expire, txVars
<1>18. ASSUME NEW b \in Budgets, RollOver(b) PROVE NowInPast'
  BY <1>18 DEF TypeOK, NowInPast, RollOver, txVars
<1>19. ASSUME NEW b \in Budgets, SetLimit(b) PROVE NowInPast'
  BY <1>19 DEF TypeOK, NowInPast, SetLimit, txVars
<1>20. CASE UNCHANGED vars
  BY <1>20 DEF TypeOK, NowInPast, vars
<1> QED
  BY <1>1, <1>2, <1>3, <1>4, <1>5, <1>6, <1>7, <1>8, <1>9, <1>10, <1>11,
     <1>12, <1>13, <1>14, <1>15, <1>16, <1>17, <1>18, <1>19, <1>20
     DEF Next, Reserve, Finish

-----------------------------------------------------------------------------
(* What an attempt has counted *)

(* The reserved read takes in every row that holds headroom, and while the
   attempt keeps the lock no other attempt can add one: rows only leave. *)
LEMMA StepInFlightCounted ==
  /\ TypeOK /\ SerializedAttempts /\ NowInPast /\ InFlightCounted
  /\ [Next]_vars
  => InFlightCounted'
<1> SUFFICES ASSUME TypeOK, SerializedAttempts, NowInPast, InFlightCounted,
                    [Next]_vars
             PROVE  InFlightCounted'
  OBVIOUS
<1> USE NoneAssumption DEF InTx
<1>1. ASSUME NEW r \in Requests, PassFree(r) PROVE InFlightCounted'
  BY <1>1 DEF TypeOK, SerializedAttempts, NowInPast, InFlightCounted, Holding, PendingRows, PassFree, Goto, txVars
<1>2. ASSUME NEW r \in Requests, BeginTx(r) PROVE InFlightCounted'
  BY <1>2 DEF TypeOK, SerializedAttempts, NowInPast, InFlightCounted, Holding, PendingRows, BeginTx, Goto
<1>3. ASSUME NEW r \in Requests, LockBudgets(r) PROVE InFlightCounted'
  BY <1>3 DEF TypeOK, SerializedAttempts, NowInPast, InFlightCounted, Holding, PendingRows, LockBudgets, Goto, txVars
<1>4. ASSUME NEW r \in Requests, ReadSpend(r) PROVE InFlightCounted'
  BY <1>4 DEF TypeOK, SerializedAttempts, NowInPast, InFlightCounted, Holding, PendingRows, ReadSpend, Goto
<1>5. ASSUME NEW r \in Requests, ReadReserved(r) PROVE InFlightCounted'
  BY <1>5 DEF TypeOK, SerializedAttempts, NowInPast, InFlightCounted, Holding, PendingRows, ReadReserved, Goto
<1>6. ASSUME NEW r \in Requests, Admit(r) PROVE InFlightCounted'
  BY <1>6 DEF TypeOK, SerializedAttempts, NowInPast, InFlightCounted, Holding, PendingRows, Admit, EndTx, Goto
<1>7. ASSUME NEW r \in Requests, AdmitUnacknowledged(r) PROVE InFlightCounted'
  BY <1>7 DEF TypeOK, SerializedAttempts, NowInPast, InFlightCounted, Holding, PendingRows, AdmitUnacknowledged, EndTx, Goto
<1>8. ASSUME NEW r \in Requests, Reject(r) PROVE InFlightCounted'
  BY <1>8 DEF TypeOK, SerializedAttempts, NowInPast, InFlightCounted, Holding, PendingRows, Reject, EndTx, Goto
<1>9. ASSUME NEW r \in Requests, FailTx(r) PROVE InFlightCounted'
  BY <1>9 DEF TypeOK, SerializedAttempts, NowInPast, InFlightCounted, Holding, PendingRows, FailTx, EndTx, Goto
<1>10. ASSUME NEW r \in Requests, UpstreamOk(r) PROVE InFlightCounted'
  BY <1>10 DEF TypeOK, SerializedAttempts, NowInPast, InFlightCounted, Holding, PendingRows, UpstreamOk, Goto, txVars
<1>11. ASSUME NEW r \in Requests, UpstreamError(r) PROVE InFlightCounted'
  BY <1>11 DEF TypeOK, SerializedAttempts, NowInPast, InFlightCounted, Holding, PendingRows, UpstreamError, Goto, txVars
<1>12. ASSUME NEW r \in Requests, InsertRequest(r) PROVE InFlightCounted'
  BY <1>12 DEF TypeOK, SerializedAttempts, NowInPast, InFlightCounted, Holding, PendingRows, InsertRequest, Goto, txVars
<1>13. ASSUME NEW r \in Requests, InsertRequestFails(r) PROVE InFlightCounted'
  BY <1>13 DEF TypeOK, SerializedAttempts, NowInPast, InFlightCounted, Holding, PendingRows, InsertRequestFails, Goto, txVars
<1>14. ASSUME NEW r \in Requests, ReleaseRow(r) PROVE InFlightCounted'
  BY <1>14 DEF TypeOK, SerializedAttempts, NowInPast, InFlightCounted, Holding, PendingRows, ReleaseRow, Goto, txVars
<1>15. ASSUME NEW r \in Requests, ReleaseFails(r) PROVE InFlightCounted'
  BY <1>15 DEF TypeOK, SerializedAttempts, NowInPast, InFlightCounted, Holding, PendingRows, ReleaseFails, Goto, txVars
<1>16. ASSUME NEW r \in Requests, Crash(r) PROVE InFlightCounted'
  BY <1>16 DEF TypeOK, SerializedAttempts, NowInPast, InFlightCounted, Holding, PendingRows, Crash, EndTx, Goto
<1>17. ASSUME NEW r \in Requests, Expire(r) PROVE InFlightCounted'
  BY <1>17 DEF TypeOK, SerializedAttempts, NowInPast, InFlightCounted, Holding, PendingRows, Expire, txVars
<1>18. ASSUME NEW b \in Budgets, RollOver(b) PROVE InFlightCounted'
  BY <1>18 DEF TypeOK, SerializedAttempts, NowInPast, InFlightCounted, Holding, PendingRows, RollOver, txVars
<1>19. ASSUME NEW b \in Budgets, SetLimit(b) PROVE InFlightCounted'
  BY <1>19 DEF TypeOK, SerializedAttempts, NowInPast, InFlightCounted, Holding, PendingRows, SetLimit, txVars
<1>20. CASE UNCHANGED vars
  BY <1>20 DEF TypeOK, SerializedAttempts, NowInPast, InFlightCounted, Holding, PendingRows, vars
<1> QED
  BY <1>1, <1>2, <1>3, <1>4, <1>5, <1>6, <1>7, <1>8, <1>9, <1>10, <1>11,
     <1>12, <1>13, <1>14, <1>15, <1>16, <1>17, <1>18, <1>19, <1>20
     DEF Next, Reserve, Finish

-----------------------------------------------------------------------------
(* What a finished request has let go of *)

LEMMA StepRowsFollowPhase ==
  TypeOK /\ LoopInRange /\ RowsFollowPhase /\ [Next]_vars => RowsFollowPhase'
<1> SUFFICES ASSUME TypeOK, LoopInRange, RowsFollowPhase, [Next]_vars
             PROVE  RowsFollowPhase'
  OBVIOUS
<1> USE BudgetsAssumption DEF InTx, Budgets
<1>1. ASSUME NEW r \in Requests, PassFree(r) PROVE RowsFollowPhase'
  BY <1>1 DEF TypeOK, LoopInRange, RowsFollowPhase, PassFree, Goto, txVars
<1>2. ASSUME NEW r \in Requests, BeginTx(r) PROVE RowsFollowPhase'
  BY <1>2 DEF TypeOK, LoopInRange, RowsFollowPhase, BeginTx, Goto
<1>3. ASSUME NEW r \in Requests, LockBudgets(r) PROVE RowsFollowPhase'
  BY <1>3 DEF TypeOK, LoopInRange, RowsFollowPhase, LockBudgets, Goto, txVars
<1>4. ASSUME NEW r \in Requests, ReadSpend(r) PROVE RowsFollowPhase'
  BY <1>4 DEF TypeOK, LoopInRange, RowsFollowPhase, ReadSpend, Goto
<1>5. ASSUME NEW r \in Requests, ReadReserved(r) PROVE RowsFollowPhase'
  BY <1>5 DEF TypeOK, LoopInRange, RowsFollowPhase, ReadReserved, Goto
<1>6. ASSUME NEW r \in Requests, Admit(r) PROVE RowsFollowPhase'
  BY <1>6 DEF TypeOK, LoopInRange, RowsFollowPhase, Admit, EndTx, Goto
<1>7. ASSUME NEW r \in Requests, AdmitUnacknowledged(r) PROVE RowsFollowPhase'
  BY <1>7 DEF TypeOK, LoopInRange, RowsFollowPhase, AdmitUnacknowledged, EndTx, Goto
<1>8. ASSUME NEW r \in Requests, Reject(r) PROVE RowsFollowPhase'
  BY <1>8 DEF TypeOK, LoopInRange, RowsFollowPhase, Reject, EndTx, Goto
<1>9. ASSUME NEW r \in Requests, FailTx(r) PROVE RowsFollowPhase'
  BY <1>9 DEF TypeOK, LoopInRange, RowsFollowPhase, FailTx, EndTx, Goto
<1>10. ASSUME NEW r \in Requests, UpstreamOk(r) PROVE RowsFollowPhase'
  BY <1>10 DEF TypeOK, LoopInRange, RowsFollowPhase, UpstreamOk, Goto, txVars
<1>11. ASSUME NEW r \in Requests, UpstreamError(r) PROVE RowsFollowPhase'
  BY <1>11 DEF TypeOK, LoopInRange, RowsFollowPhase, UpstreamError, Goto, txVars
<1>12. ASSUME NEW r \in Requests, InsertRequest(r) PROVE RowsFollowPhase'
  BY <1>12 DEF TypeOK, LoopInRange, RowsFollowPhase, InsertRequest, Goto, txVars
<1>13. ASSUME NEW r \in Requests, InsertRequestFails(r) PROVE RowsFollowPhase'
  BY <1>13 DEF TypeOK, LoopInRange, RowsFollowPhase, InsertRequestFails, Goto, txVars
<1>14. ASSUME NEW r \in Requests, ReleaseRow(r) PROVE RowsFollowPhase'
  BY <1>14 DEF TypeOK, LoopInRange, RowsFollowPhase, ReleaseRow, Goto, txVars
<1>15. ASSUME NEW r \in Requests, ReleaseFails(r) PROVE RowsFollowPhase'
  BY <1>15 DEF TypeOK, LoopInRange, RowsFollowPhase, ReleaseFails, Goto, txVars
<1>16. ASSUME NEW r \in Requests, Crash(r) PROVE RowsFollowPhase'
  BY <1>16 DEF TypeOK, LoopInRange, RowsFollowPhase, Crash, EndTx, Goto, Over
<1>17. ASSUME NEW r \in Requests, Expire(r) PROVE RowsFollowPhase'
  BY <1>17 DEF TypeOK, LoopInRange, RowsFollowPhase, Expire, txVars
<1>18. ASSUME NEW b \in Budgets, RollOver(b) PROVE RowsFollowPhase'
  BY <1>18 DEF TypeOK, LoopInRange, RowsFollowPhase, RollOver, txVars
<1>19. ASSUME NEW b \in Budgets, SetLimit(b) PROVE RowsFollowPhase'
  BY <1>19 DEF TypeOK, LoopInRange, RowsFollowPhase, SetLimit, txVars
<1>20. CASE UNCHANGED vars
  BY <1>20 DEF TypeOK, LoopInRange, RowsFollowPhase, vars
<1> QED
  BY <1>1, <1>2, <1>3, <1>4, <1>5, <1>6, <1>7, <1>8, <1>9, <1>10, <1>11,
     <1>12, <1>13, <1>14, <1>15, <1>16, <1>17, <1>18, <1>19, <1>20
     DEF Next, Reserve, Finish

-----------------------------------------------------------------------------
(* The theorems *)

LEMMA InitInvariant == Init => IInv
<1> SUFFICES ASSUME Init PROVE IInv
  OBVIOUS
<1>1. TypeOK /\ LoopInRange
  BY InitTypes
<1>2. SerializedAttempts /\ NowInPast /\ InFlightCounted /\ RowsFollowPhase
  BY BudgetsAssumption
     DEF Init, SerializedAttempts, NowInPast, InFlightCounted, RowsFollowPhase,
         InTx, Budgets
<1> QED
  BY <1>1, <1>2 DEF IInv

LEMMA StepInvariant == IInv /\ [Next]_vars => IInv'
BY StepTypes, StepSerialized, StepNowInPast, StepInFlightCounted, StepRowsFollowPhase
   DEF IInv

(* The inductive invariant: everything proved below follows from it. *)
THEOREM Invariance == Spec => []IInv
BY InitInvariant, StepInvariant, PTL DEF Spec

(* Type correctness of the reservation protocol. *)
THEOREM TypeCorrect == Spec => []TypeOK
<1>1. IInv => TypeOK
  BY DEF IInv
<1> QED
  BY <1>1, Invariance, PTL

(* The row locks of SELECT ... FOR UPDATE serialize the attempts of a project. *)
THEOREM AttemptsSerialized == Spec => []SerializedAttempts
<1>1. IInv => SerializedAttempts
  BY DEF IInv
<1> QED
  BY <1>1, Invariance, PTL

(* No admission overlooks a reservation that is still in force: concurrent
   requests never share headroom, whatever crashes, expires or fails. *)
THEOREM EveryHolderCounted == Spec => []InFlightCounted
<1>1. IInv => InFlightCounted
  BY DEF IInv
<1> QED
  BY <1>1, Invariance, PTL

(* A request that finished, was rejected or failed in its reservation keeps no
   pending row. *)
THEOREM NothingKept == Spec => []DoneHoldsNothing
<1>1. IInv => DoneHoldsNothing
  BY DEF IInv, RowsFollowPhase, DoneHoldsNothing, InTx
<1> QED
  BY <1>1, Invariance, PTL

-----------------------------------------------------------------------------
(* The abstract gate.  Each statement of the protocol is a step of SpendGate *)
(* or none: a spend read observes one cap, the COMMIT of the reservations is *)
(* the admission, a ROLLBACK or a crash abandons the attempt, the ledger row *)
(* settles, a release or an expiry frees.                                    *)

(* What the mapping needs besides IInv: only rows that were inserted expire,
   and a request is in the ledger only after it settled. *)
MapInv ==
  \A r \in Requests :
    /\ r \in expired => \E b \in Budgets : resv[r][b] # "none"
    /\ \A b \in Budgets : r \in ledger[b] => pc[r] \in {"release"} \cup Over

LEMMA StepMapInv == TypeOK /\ MapInv /\ [Next]_vars => MapInv'
<1> SUFFICES ASSUME TypeOK, MapInv, [Next]_vars
             PROVE  MapInv'
  OBVIOUS
<1>1. ASSUME NEW r \in Requests, PassFree(r) PROVE MapInv'
  BY <1>1 DEF TypeOK, MapInv, PassFree, Goto, Over, InTx, txVars
<1>2. ASSUME NEW r \in Requests, BeginTx(r) PROVE MapInv'
  BY <1>2 DEF TypeOK, MapInv, BeginTx, Goto, Over, InTx
<1>3. ASSUME NEW r \in Requests, LockBudgets(r) PROVE MapInv'
  BY <1>3 DEF TypeOK, MapInv, LockBudgets, Goto, Over, InTx, txVars
<1>4. ASSUME NEW r \in Requests, ReadSpend(r) PROVE MapInv'
  BY <1>4 DEF TypeOK, MapInv, ReadSpend, Goto, Over, InTx
<1>5. ASSUME NEW r \in Requests, ReadReserved(r) PROVE MapInv'
  BY <1>5 DEF TypeOK, MapInv, ReadReserved, Goto, Over, InTx
<1>6. ASSUME NEW r \in Requests, Admit(r) PROVE MapInv'
  BY <1>6 DEF TypeOK, MapInv, Admit, EndTx, Goto, Over, InTx
<1>7. ASSUME NEW r \in Requests, AdmitUnacknowledged(r) PROVE MapInv'
  BY <1>7 DEF TypeOK, MapInv, AdmitUnacknowledged, EndTx, Goto, Over, InTx
<1>8. ASSUME NEW r \in Requests, Reject(r) PROVE MapInv'
  BY <1>8 DEF TypeOK, MapInv, Reject, EndTx, Goto, Over, InTx
<1>9. ASSUME NEW r \in Requests, FailTx(r) PROVE MapInv'
  BY <1>9 DEF TypeOK, MapInv, FailTx, EndTx, Goto, Over, InTx
<1>10. ASSUME NEW r \in Requests, UpstreamOk(r) PROVE MapInv'
  BY <1>10 DEF TypeOK, MapInv, UpstreamOk, Goto, Over, InTx, txVars
<1>11. ASSUME NEW r \in Requests, UpstreamError(r) PROVE MapInv'
  BY <1>11 DEF TypeOK, MapInv, UpstreamError, Goto, Over, InTx, txVars
<1>12. ASSUME NEW r \in Requests, InsertRequest(r) PROVE MapInv'
  BY <1>12 DEF TypeOK, MapInv, InsertRequest, Goto, Over, InTx, txVars
<1>13. ASSUME NEW r \in Requests, InsertRequestFails(r) PROVE MapInv'
  BY <1>13 DEF TypeOK, MapInv, InsertRequestFails, Goto, Over, InTx, txVars
<1>14. ASSUME NEW r \in Requests, ReleaseRow(r) PROVE MapInv'
  BY <1>14 DEF TypeOK, MapInv, ReleaseRow, Goto, Over, InTx, txVars
<1>15. ASSUME NEW r \in Requests, ReleaseFails(r) PROVE MapInv'
  BY <1>15 DEF TypeOK, MapInv, ReleaseFails, Goto, Over, InTx, txVars
<1>16. ASSUME NEW r \in Requests, Crash(r) PROVE MapInv'
  BY <1>16 DEF TypeOK, MapInv, Crash, EndTx, Goto, Over, InTx
<1>17. ASSUME NEW r \in Requests, Expire(r) PROVE MapInv'
  BY <1>17 DEF TypeOK, MapInv, Expire, txVars
<1>18. ASSUME NEW b \in Budgets, RollOver(b) PROVE MapInv'
  BY <1>18 DEF TypeOK, MapInv, RollOver, txVars
<1>19. ASSUME NEW b \in Budgets, SetLimit(b) PROVE MapInv'
  BY <1>19 DEF TypeOK, MapInv, SetLimit, txVars
<1>20. CASE UNCHANGED vars
  BY <1>20 DEF MapInv, vars
<1> QED
  BY <1>1, <1>2, <1>3, <1>4, <1>5, <1>6, <1>7, <1>8, <1>9, <1>10, <1>11,
     <1>12, <1>13, <1>14, <1>15, <1>16, <1>17, <1>18, <1>19, <1>20
     DEF Next, Reserve, Finish

(* The sum the gate takes of one column of a table is the sum of the query. *)
LEMMA GateTotals ==
  ASSUME TypeOK, NEW b \in Budgets, NEW r \in Requests,
         Holding(b) \subseteq seenReserved[r][b]
  PROVE  /\ Gate!Total([q \in Requests |-> [c \in Budgets |-> cost[q]]], b, seenSpend[r][b])
              = Total(cost, seenSpend[r][b])
         /\ Gate!Total([q \in Requests |-> [c \in Budgets |->
                          IF resv[q][c] = "none" THEN 0 ELSE amount[q]]], b, Holding(b))
              = Total(amount, Holding(b))
         /\ Total(amount, Holding(b)) <= Total(amount, seenReserved[r][b])
         /\ Total(amount, Holding(b)) \in Nat
         /\ Total(amount, seenReserved[r][b]) \in Nat
         /\ Total(cost, seenSpend[r][b]) \in Nat
<1> DEFINE H == Holding(b)
           P == [q \in Requests |-> [c \in Budgets |->
                   IF resv[q][c] = "none" THEN 0 ELSE amount[q]]]
           C == [q \in Requests |-> [c \in Budgets |-> cost[q]]]
           Seen == seenSpend[r][b]
           Res == seenReserved[r][b]
<1>1. /\ Seen \subseteq Requests /\ Res \subseteq Requests /\ H \subseteq Res
      /\ IsFiniteSet(Seen) /\ IsFiniteSet(Res) /\ IsFiniteSet(H)
  <2>1. Seen \subseteq Requests /\ Res \subseteq Requests /\ H \subseteq Res
    BY DEF TypeOK
  <2> QED BY <2>1, RequestsAssumption, FS_Subset
<1>2. \A q \in Requests : amount[q] \in Nat /\ cost[q] \in Nat
  BY AmountsAssumption DEF TypeOK
<1>3. \A q \in Seen : [p \in Seen |-> C[p][b]][q] = cost[q]
  BY <1>1
<1>4. \A q \in H : [p \in H |-> P[p][b]][q] = amount[q]
  BY <1>1 DEF Holding, PendingRows
<1>5. ASSUME NEW f, NEW S PROVE Total(f, S) = Sum(f, S)
  BY DEF Total, Sum, FoldFunctionOnSet, MapThenFoldSet
<1>6. ASSUME NEW f, NEW S PROVE Gate!Total(f, b, S) = Sum([q \in S |-> f[q][b]], S)
  BY DEF Gate!Total, Gate!FoldFunctionOnSet, Gate!MapThenFoldSet,
         Sum, FoldFunctionOnSet, MapThenFoldSet
<1>7. Gate!Total(C, b, Seen) = Total(cost, Seen)
  <2> HIDE DEF C, Seen
  <2>1. Sum([p \in Seen |-> C[p][b]], Seen) = Sum(cost, Seen)
    BY <1>1, <1>3, SumSame
  <2> QED BY <2>1, <1>5, <1>6
<1>8. Gate!Total(P, b, H) = Total(amount, H)
  <2> HIDE DEF P, H
  <2>1. Sum([p \in H |-> P[p][b]], H) = Sum(amount, H)
    BY <1>1, <1>4, SumSame
  <2> QED BY <2>1, <1>5, <1>6
<1>9. /\ Sum(amount, H) <= Sum(amount, Res)
      /\ Sum(amount, H) \in Nat /\ Sum(amount, Res) \in Nat /\ Sum(cost, Seen) \in Nat
  <2>1. /\ \A q \in H : amount[q] \in Nat
        /\ \A q \in Res : amount[q] \in Nat
        /\ \A q \in Seen : cost[q] \in Nat
    BY <1>1, <1>2
  <2> HIDE DEF H, Res, Seen
  <2> QED BY <2>1, <1>1, SumMonotone, SumType
<1> QED BY <1>5, <1>7, <1>8, <1>9

LEMMA GateInit == Init => Gate!Init
<1> SUFFICES ASSUME Init PROVE Gate!Init
  OBVIOUS
<1>1. \A b \in Budgets : Holding(b) = {}
  BY DEF Init, Holding, PendingRows
<1> QED BY <1>1 DEF Init, Gate!Init, Gate!Zero, Gate!Nothing, NoRows

(* Both ways a COMMIT ends for its caller admit the request. *)
LEMMA GateAdmits ==
  ASSUME IInv, MapInv, NEW r \in Requests, Admit(r) \/ AdmitUnacknowledged(r)
  PROVE  Gate!Admit(r)
<1> DEFINE P == [q \in Requests |-> [c \in Budgets |->
                   IF resv[q][c] = "none" THEN 0 ELSE amount[q]]]
           C == [q \in Requests |-> [c \in Budgets |-> cost[q]]]
           w == [b \in Budgets |-> amount[r]]
<1> USE DEF IInv
<1>1. /\ pc[r] = "decide"
      /\ \A b \in Budgets : ~WouldExceed(r, b)
      /\ resv' = [resv EXCEPT ![r] = [b \in Budgets |-> "pending"]]
      /\ seenSpend' = [seenSpend EXCEPT ![r] = NoRows]
      /\ UNCHANGED <<amount, cost, limit, ledger, expired>>
  BY DEF Admit, AdmitUnacknowledged, EndTx
<1>2. \A b \in Budgets : resv[r][b] = "none"
  BY <1>1 DEF RowsFollowPhase, InTx
<1>3. r \notin expired
  BY <1>2 DEF MapInv
<1>4. ASSUME NEW b \in Budgets
      PROVE  Gate!Total(C, b, seenSpend[r][b]) + Gate!Total(P, b, Holding(b)) + w[b] <= limit[b]
  <2>1. Holding(b) \subseteq seenReserved[r][b]
    BY <1>1 DEF InFlightCounted
  <2>2. /\ Gate!Total(C, b, seenSpend[r][b]) = Total(cost, seenSpend[r][b])
        /\ Gate!Total(P, b, Holding(b)) = Total(amount, Holding(b))
        /\ Total(amount, Holding(b)) <= Total(amount, seenReserved[r][b])
        /\ Total(amount, Holding(b)) \in Nat
        /\ Total(amount, seenReserved[r][b]) \in Nat
        /\ Total(cost, seenSpend[r][b]) \in Nat
    BY <2>1, GateTotals
  <2>3. amount[r] \in Nat /\ limit[b] \in Nat
    BY AmountsAssumption DEF TypeOK
  <2>4. ~(Total(cost, seenSpend[r][b]) + Total(amount, seenReserved[r][b]) + amount[r] > limit[b])
    BY <1>1 DEF WouldExceed
  <2> HIDE DEF C, P
  <2> QED BY <2>2, <2>3, <2>4
<1>5. P[r] = Gate!Zero
  BY <1>2 DEF Gate!Zero
<1>6. w \in [Budgets -> Amounts]
  BY DEF TypeOK
<1>7. P' = [P EXCEPT ![r] = w]
  BY <1>1 DEF TypeOK
<1>8. [b \in Budgets |-> Holding(b)]' = [b \in Budgets |-> [c \in Budgets |-> Holding(c)][b] \cup {r}]
  <2>1. ASSUME NEW b \in Budgets PROVE Holding(b)' = Holding(b) \cup {r}
    BY <1>1, <1>3 DEF TypeOK, Holding, PendingRows
  <2> QED BY <2>1
<1>9. seenSpend' = [seenSpend EXCEPT ![r] = Gate!Nothing]
  BY <1>1 DEF NoRows, Gate!Nothing
<1>10. UNCHANGED <<limit, C, ledger>>
  BY <1>1
<1> QED BY <1>4, <1>5, <1>6, <1>7, <1>8, <1>9, <1>10 DEF Gate!Admit

LEMMA GateFreesRow ==
  ASSUME IInv, NEW r \in Requests, ReleaseRow(r)
  PROVE  Gate!Free(r)
<1> USE DEF IInv
<1>1. next[r] \in Budgets /\ UNCHANGED <<amount, cost, limit, ledger, expired, seenSpend>>
  BY DEF ReleaseRow, LoopInRange, txVars
<1>2. [b \in Budgets |-> Holding(b)]' =
        [b \in Budgets |-> IF b \in {next[r]} THEN [c \in Budgets |-> Holding(c)][b] \ {r}
                                             ELSE [c \in Budgets |-> Holding(c)][b]]
  <2>1. ASSUME NEW b \in Budgets
        PROVE  Holding(b)' = IF b \in {next[r]} THEN Holding(b) \ {r} ELSE Holding(b)
    BY <1>1 DEF TypeOK, ReleaseRow, Holding, PendingRows
  <2> QED BY <2>1
<1>3. ASSUME NEW q \in Requests, NEW b \in Budgets
      PROVE  resv'[q][b] = "none" <=> resv[q][b] = "none"
  BY <1>1 DEF TypeOK, ReleaseRow
<1>4. UNCHANGED [q \in Requests |-> [b \in Budgets |->
                    IF resv[q][b] = "none" THEN 0 ELSE amount[q]]]
  BY <1>1, <1>3
<1>5. UNCHANGED [q \in Requests |-> [b \in Budgets |-> cost[q]]]
  BY <1>1
<1>6. \E gone \in SUBSET Budgets :
        [b \in Budgets |-> Holding(b)]' =
          [b \in Budgets |-> IF b \in gone THEN [c \in Budgets |-> Holding(c)][b] \ {r}
                                           ELSE [c \in Budgets |-> Holding(c)][b]]
  <2>1. {next[r]} \in SUBSET Budgets
    BY <1>1
  <2> WITNESS {next[r]} \in SUBSET Budgets
  <2> QED BY <1>2
<1> QED BY <1>1, <1>4, <1>5, <1>6 DEF Gate!Free

LEMMA GateFreesExpired ==
  ASSUME IInv, NEW r \in Requests, Expire(r)
  PROVE  Gate!Free(r)
<1>1. UNCHANGED <<amount, cost, limit, ledger, resv, seenSpend>>
  BY DEF Expire, txVars
<1>2. [b \in Budgets |-> Holding(b)]' =
        [b \in Budgets |-> IF b \in Budgets THEN [c \in Budgets |-> Holding(c)][b] \ {r}
                                           ELSE [c \in Budgets |-> Holding(c)][b]]
  <2>1. ASSUME NEW b \in Budgets PROVE Holding(b)' = Holding(b) \ {r}
    BY <1>1 DEF Expire, Holding, PendingRows
  <2> QED BY <2>1
<1> QED BY <1>1, <1>2 DEF Gate!Free

(* Every step of the protocol is one of the gate, or leaves its state alone. *)
LEMMA GateStep == IInv /\ MapInv /\ [Next]_vars => [Gate!Next]_(Gate!vars)
<1> SUFFICES ASSUME IInv, MapInv, [Next]_vars PROVE [Gate!Next]_(Gate!vars)
  OBVIOUS
<1> USE DEF IInv
<1> DEFINE Quiet == UNCHANGED <<limit, amount, cost, resv, expired, ledger, seenSpend>>
<1>0. ASSUME Quiet PROVE UNCHANGED Gate!vars
  BY <1>0 DEF Gate!vars, Holding, PendingRows
<1>1. ASSUME NEW r \in Requests, PassFree(r) PROVE Quiet
  BY <1>1 DEF PassFree, txVars
<1>2. ASSUME NEW r \in Requests, BeginTx(r) PROVE UNCHANGED Gate!vars
  <2>1. \A b \in Budgets : resv[r][b] = "none"
    BY <1>2 DEF BeginTx, RowsFollowPhase
  <2>2. \A q \in Requests \ {r} : amount'[q] = amount[q]
    BY <1>2 DEF BeginTx, TypeOK
  <2>3. UNCHANGED <<limit, cost, resv, expired, ledger, seenSpend>>
    BY <1>2 DEF BeginTx
  <2> QED BY <2>1, <2>2, <2>3 DEF Gate!vars, Holding, PendingRows
<1>3. ASSUME NEW r \in Requests, LockBudgets(r) PROVE Quiet
  BY <1>3 DEF LockBudgets, txVars
<1>4. ASSUME NEW r \in Requests, ReadSpend(r) PROVE Gate!Observe(r, next[r]) /\ next[r] \in Budgets
  BY <1>4 DEF ReadSpend, Gate!Observe, TypeOK, LoopInRange, Holding, PendingRows
<1>5. ASSUME NEW r \in Requests, ReadReserved(r) PROVE Quiet
  BY <1>5 DEF ReadReserved
<1>6. ASSUME NEW r \in Requests, Admit(r) \/ AdmitUnacknowledged(r) PROVE Gate!Admit(r)
  BY <1>6, GateAdmits
<1>8. ASSUME NEW r \in Requests, Reject(r) \/ FailTx(r) \/ Crash(r) PROVE Gate!Abandon(r)
  BY <1>8 DEF Reject, FailTx, Crash, EndTx, Gate!Abandon, Gate!Nothing, NoRows, Holding, PendingRows
<1>10. ASSUME NEW r \in Requests, UpstreamOk(r) PROVE Quiet
  BY <1>10 DEF UpstreamOk, txVars
<1>11. ASSUME NEW r \in Requests, UpstreamError(r) PROVE Quiet
  BY <1>11 DEF UpstreamError, txVars
<1>12. ASSUME NEW r \in Requests, InsertRequest(r) PROVE Gate!Settle(r)
  <2>1. \A b \in Budgets : r \notin ledger[b]
    BY <1>12 DEF InsertRequest, MapInv, Over
  <2>2. PICK c \in Costs : cost' = [cost EXCEPT ![r] = c]
    BY <1>12 DEF InsertRequest
  <2>3. [q \in Requests |-> [b \in Budgets |-> cost[q]]]' =
          [[q \in Requests |-> [b \in Budgets |-> cost[q]]] EXCEPT ![r] = [b \in Budgets |-> c]]
    BY <2>2 DEF TypeOK
  <2>4. [b \in Budgets |-> c] \in [Budgets -> Costs]
    OBVIOUS
  <2>5. UNCHANGED <<limit, amount, resv, expired, seenSpend>> /\ ledger' = [b \in Budgets |-> ledger[b] \cup {r}]
    BY <1>12 DEF InsertRequest, txVars
  <2> QED BY <2>1, <2>3, <2>4, <2>5 DEF Gate!Settle, Holding, PendingRows
<1>13. ASSUME NEW r \in Requests, InsertRequestFails(r) PROVE Quiet
  BY <1>13 DEF InsertRequestFails, txVars
<1>14. ASSUME NEW r \in Requests, ReleaseRow(r) \/ Expire(r) PROVE Gate!Free(r)
  BY <1>14, GateFreesRow, GateFreesExpired
<1>15. ASSUME NEW r \in Requests, ReleaseFails(r) PROVE Quiet
  BY <1>15 DEF ReleaseFails, txVars
<1>18. ASSUME NEW b \in Budgets, RollOver(b) PROVE Gate!Forget(b)
  BY <1>18 DEF RollOver, txVars, Gate!Forget, Holding, PendingRows
<1>19. ASSUME NEW b \in Budgets, SetLimit(b) PROVE Gate!ChangeLimit(b)
  BY <1>19 DEF SetLimit, txVars, Gate!ChangeLimit, Holding, PendingRows
<1>20. CASE UNCHANGED vars
  BY <1>0, <1>20 DEF vars
<1>21. ASSUME NEW r \in Requests, NEW b \in Budgets,
             \/ Gate!Observe(r, b) \/ Gate!Admit(r) \/ Gate!Abandon(r) \/ Gate!Settle(r)
             \/ Gate!Free(r) \/ Gate!Forget(b) \/ Gate!ChangeLimit(b)
      PROVE Gate!Next
  BY <1>21 DEF Gate!Next
<1> HIDE DEF Quiet
<1>22. Budgets # {}
  BY BudgetsAssumption DEF Budgets
<1>23. ASSUME NEW r \in Requests,
              \/ PassFree(r) \/ Reserve(r) \/ AdmitUnacknowledged(r) \/ FailTx(r)
              \/ UpstreamOk(r) \/ UpstreamError(r) \/ Finish(r) \/ Crash(r) \/ Expire(r)
       PROVE  [Gate!Next]_(Gate!vars)
  BY <1>0, <1>1, <1>2, <1>3, <1>4, <1>5, <1>6, <1>8, <1>10, <1>11, <1>12, <1>13,
     <1>14, <1>15, <1>21, <1>22, <1>23 DEF Reserve, Finish
<1>24. ASSUME NEW b \in Budgets, RollOver(b) \/ SetLimit(b)
       PROVE  [Gate!Next]_(Gate!vars)
  BY <1>18, <1>19, <1>24 DEF Gate!Next
<1> QED BY <1>20, <1>23, <1>24 DEF Next

LEMMA MapInvHolds == Spec => []MapInv
<1>1. Init => MapInv
  BY DEF Init, MapInv, NoRows
<1>2. TypeOK /\ MapInv /\ [Next]_vars => MapInv'
  BY StepMapInv
<1> QED BY <1>1, <1>2, TypeCorrect, PTL DEF Spec

(* The protocol, statement by statement under READ COMMITTED, with crashes,
   lost acknowledgements and failed releases, implements the gate that decides
   in one step (SpendGate): no admission overlooks a promise still in force. *)
THEOREM ReservationImplementsGate == Spec => ImplementsGate
<1>1. Init => Gate!Init
  BY GateInit
<1>2. IInv /\ MapInv /\ [Next]_vars => [Gate!Next]_(Gate!vars)
  BY GateStep
<1> QED BY <1>1, <1>2, Invariance, MapInvHolds, PTL DEF Spec, ImplementsGate, Gate!Spec

-----------------------------------------------------------------------------
(* The cap.  A budget's exposure, what was charged and what may be, grows at  *)
(* an admission and at a charge only.  An admission weighed two sums taken    *)
(* before: they cover the exposure of now unless they overlooked a charge.    *)

LEMMA TotalIsSum == ASSUME NEW f, NEW S PROVE Total(f, S) = Sum(f, S)
BY DEF Total, Sum, FoldFunctionOnSet, MapThenFoldSet

(* The columns and the rows of one budget. *)
LEMMA Columns ==
  ASSUME TypeOK, NEW b \in Budgets
  PROVE  /\ \A q \in Requests : cost[q] \in Nat /\ amount[q] \in Nat
         /\ limit[b] \in Nat
         /\ ledger[b] \in SUBSET Requests /\ Owed(b) \in SUBSET Requests
         /\ IsFiniteSet(ledger[b]) /\ IsFiniteSet(Owed(b))
         /\ \A r \in Requests : /\ seenSpend[r][b] \in SUBSET Requests
                               /\ seenReserved[r][b] \in SUBSET Requests
<1>1. ledger[b] \in SUBSET Requests /\ Owed(b) \in SUBSET Requests
  BY DEF TypeOK, Owed, Holding, PendingRows
<1>2. \A r \in Requests : seenSpend[r][b] \in SUBSET Requests /\ seenReserved[r][b] \in SUBSET Requests
  BY DEF TypeOK
<1>3. (\A q \in Requests : cost[q] \in Nat /\ amount[q] \in Nat) /\ limit[b] \in Nat
  BY AmountsAssumption DEF TypeOK
<1>4. IsFiniteSet(ledger[b]) /\ IsFiniteSet(Owed(b))
  BY <1>1, RequestsAssumption, FS_Subset
<1> QED BY <1>1, <1>2, <1>3, <1>4

(* A step that charges and admits nobody, and does not lower the limit, keeps
   a covered budget covered. *)
AddsNothing(b) ==
  /\ limit'[b] \in Nat /\ limit'[b] >= limit[b]
  /\ ledger'[b] \subseteq ledger[b] /\ \A q \in ledger'[b] : cost'[q] = cost[q]
  /\ Owed(b)' \subseteq Owed(b) /\ \A q \in Owed(b)' : amount'[q] = amount[q]

LEMMA NothingAdded ==
  ASSUME TypeOK, NEW b \in Budgets, AddsNothing(b), Covered(b)
  PROVE  Covered(b)'
<1> USE DEF AddsNothing
<1>1. /\ IsFiniteSet(Requests)
      /\ \A q \in Requests : cost[q] \in Nat /\ amount[q] \in Nat
      /\ ledger[b] \in SUBSET Requests /\ Owed(b) \in SUBSET Requests /\ limit[b] \in Nat
  BY Columns, RequestsAssumption
<1> DEFINE L == ledger[b]
           O == Owed(b)
           L2 == ledger'[b]
           O2 == Owed(b)'
<1>2. L2 \in SUBSET L /\ O2 \in SUBSET O
  OBVIOUS
<1>3. (\A x \in L2 : cost'[x] = cost[x]) /\ (\A x \in O2 : amount'[x] = amount[x])
  OBVIOUS
<1>4. Exposure(b) = Sum(cost, L) + Sum(amount, O)
  BY TotalIsSum DEF Exposure
<1>5. Exposure(b)' = Sum(cost', L2) + Sum(amount', O2)
  BY TotalIsSum DEF Exposure
<1> HIDE DEF L, O, L2, O2
<1>6. L \in SUBSET Requests /\ O \in SUBSET Requests /\ Summable(cost, Requests) /\ Summable(amount, Requests)
  BY <1>1 DEF L, O, Summable
<1>7. Sum(cost', L2) = Sum(cost, L2) /\ Sum(amount', O2) = Sum(amount, O2)
  <2>1. IsFiniteSet(L2) /\ IsFiniteSet(O2)
    BY <1>1, <1>2, <1>6, FS_Subset
  <2> QED BY <1>3, <2>1, SumSame
<1>8. Sum(cost, L2) <= Sum(cost, L) /\ Sum(cost, L2) \in Nat /\ Sum(cost, L) \in Nat
  BY <1>1, <1>2, <1>6, FewerIsLess
<1>9. Sum(amount, O2) <= Sum(amount, O) /\ Sum(amount, O2) \in Nat /\ Sum(amount, O) \in Nat
  BY <1>1, <1>2, <1>6, FewerIsLess
<1> QED BY <1>1, <1>4, <1>5, <1>7, <1>8, <1>9 DEF Covered

(* An admission leaves the budget covered, whatever it was exposed to before,
   when the attempt's two sums overlooked no charge. *)
LEMMA AdmissionCovers ==
  ASSUME IInv, MapInv, NEW r \in Requests, Admit(r), NEW b \in Budgets, ~Overlooked(b)
  PROVE  Covered(b)'
<1> USE DEF IInv
<1>1. /\ pc[r] = "decide" /\ pc' = [pc EXCEPT ![r] = "upstream"]
      /\ ~WouldExceed(r, b)
      /\ resv' = [resv EXCEPT ![r] = [c \in Budgets |-> "pending"]]
      /\ UNCHANGED <<amount, cost, limit, ledger, expired>>
  BY DEF Admit, Goto
<1>2. r \notin expired
  <2>1. \A c \in Budgets : resv[r][c] = "none"
    BY <1>1 DEF RowsFollowPhase, InTx
  <2> QED BY <2>1 DEF MapInv
<1>3. r \notin Owed(b) /\ Owed(b)' = Owed(b) \cup {r}
  BY <1>1, <1>2 DEF TypeOK, Owed, Holding, PendingRows
<1> DEFINE L == ledger[b]
           O == Owed(b)
           A == seenSpend[r][b]
           R == seenReserved[r][b]
<1>4. /\ L \in SUBSET Requests /\ O \in SUBSET Requests
      /\ A \in SUBSET Requests /\ R \in SUBSET Requests
      /\ IsFiniteSet(O) /\ limit[b] \in Nat
      /\ \A q \in Requests : cost[q] \in Nat /\ amount[q] \in Nat
  BY Columns
<1>5. O \subseteq R
  BY <1>1 DEF InFlightCounted, Owed
<1>6. O \cap L = {}
  <2> SUFFICES ASSUME NEW q \in O \cap L PROVE FALSE
    OBVIOUS
  <2>1. q \in Requests /\ pc[q] \in {"upstream", "settle"} /\ q \in ledger[b]
    BY DEF Owed, Holding, PendingRows
  <2> QED BY <2>1 DEF MapInv, Over
<1>7. \A q \in L \ A : cost[q] <= IF q \in R THEN amount[q] ELSE 0
  <2>1. \A q \in L \ A : ~(cost[q] > Promised(q, R))
    BY <1>3 DEF Overlooked
  <2>2. \A q \in L \ A : ~(cost[q] > IF q \in R THEN amount[q] ELSE 0)
    BY <2>1 DEF Promised
  <2> QED BY <1>4, <2>2
<1>8. Exposure(b)' = Sum(cost, L) + Sum(amount, O \cup {r})
  BY <1>1, <1>3, TotalIsSum DEF Exposure
<1>9. ~(Sum(cost, A) + Sum(amount, R) + amount[r] > limit[b])
  BY <1>1, TotalIsSum DEF WouldExceed
<1> HIDE DEF L, O, A, R
<1>10. Sum(cost, L) + Sum(amount, O) <= Sum(cost, A) + Sum(amount, R)
  BY <1>4, <1>5, <1>6, <1>7, RequestsAssumption, SumCovers
<1>11. Sum(amount, O \cup {r}) = Sum(amount, O) + amount[r]
  <2>1. r \notin O /\ \A q \in O \cup {r} : amount[q] \in Nat
    BY <1>3, <1>4 DEF O
  <2> QED BY <1>4, <2>1, SumAdd
<1>12. /\ Sum(cost, L) \in Nat /\ Sum(amount, O) \in Nat
       /\ Sum(cost, A) \in Nat /\ Sum(amount, R) \in Nat
  <2>1. Summable(cost, Requests) /\ Summable(amount, Requests)
    BY <1>4 DEF Summable
  <2> QED BY <1>4, <2>1, RequestsAssumption, FewerIsLess
<1>13. limit'[b] = limit[b] /\ amount[r] \in Nat
  BY <1>1, <1>4
<1> QED BY <1>4, <1>8, <1>9, <1>10, <1>11, <1>12, <1>13 DEF Covered

(* A charge that the request had promised leaves the budget covered: what the
   ledger gains, the promises lose. *)
LEMMA ChargeCovers ==
  ASSUME IInv, MapInv, NEW r \in Requests, InsertRequest(r), NEW b \in Budgets,
         Covered(b), ~Overcharged(b)
  PROVE  Covered(b)'
<1> USE DEF IInv
<1>1. PICK c \in Costs : cost' = [cost EXCEPT ![r] = c]
  BY DEF InsertRequest
<1>2. /\ pc[r] = "settle" /\ pc' = [pc EXCEPT ![r] = "release"]
      /\ ledger'[b] = ledger[b] \cup {r}
      /\ UNCHANGED <<amount, limit, resv, expired>>
  BY DEF InsertRequest, Goto
<1> DEFINE L == ledger[b]
           O == Owed(b)
<1>3. /\ L \in SUBSET Requests /\ O \in SUBSET Requests
      /\ IsFiniteSet(L) /\ IsFiniteSet(O) /\ limit[b] \in Nat
      /\ \A q \in Requests : cost[q] \in Nat /\ amount[q] \in Nat
  BY Columns
<1>4. c \in Nat /\ cost'[r] = c /\ \A q \in Requests \ {r} : cost'[q] = cost[q]
  BY <1>1, AmountsAssumption DEF TypeOK
<1>5. r \notin L
  BY <1>2 DEF MapInv, Over
<1>6. Owed(b)' = O \ {r}
  BY <1>2 DEF TypeOK, Owed, Holding, PendingRows
<1>7. ~(c > IF r \in O THEN amount[r] ELSE 0)
  BY <1>2, <1>4, <1>5 DEF Overcharged, Promised
<1>8. Exposure(b)' = Sum(cost', L \cup {r}) + Sum(amount, O \ {r})
  BY <1>2, <1>6, TotalIsSum DEF Exposure
<1>9. Sum(cost, L) + Sum(amount, O) <= limit[b]
  BY TotalIsSum DEF Covered, Exposure
<1> HIDE DEF L, O
<1>10. Sum(cost', L \cup {r}) = Sum(cost, L) + c
  <2>1. \A q \in L \cup {r} : cost'[q] \in Nat
    BY <1>3, <1>4
  <2>2. \A q \in L : cost'[q] = cost[q]
    BY <1>3, <1>4, <1>5
  <2>3. Sum(cost', L \cup {r}) = Sum(cost', L) + cost'[r]
    BY <1>3, <1>5, <2>1, SumAdd
  <2>4. Sum(cost', L) = Sum(cost, L)
    BY <1>3, <2>2, SumSame
  <2> QED BY <1>4, <2>3, <2>4
<1>11. Summable(cost, Requests) /\ Summable(amount, Requests)
  BY <1>3 DEF Summable
<1>12. Sum(cost, L) \in Nat /\ Sum(amount, O) \in Nat /\ Sum(amount, O \ {r}) \in Nat
  <2>1. O \ {r} \in SUBSET Requests
    BY <1>3
  <2> QED BY <1>3, <1>11, <2>1, RequestsAssumption, FewerIsLess
<1>13. c + Sum(amount, O \ {r}) <= Sum(amount, O)
  <2>1. CASE r \in O
    <3>1. \A q \in O : amount[q] \in Nat
      BY <1>3
    <3>2. Sum(amount, O) = amount[r] + Sum(amount, O \ {r})
      BY <1>3, <2>1, <3>1, SumRemove
    <3> QED BY <1>3, <1>4, <1>7, <1>12, <2>1, <3>2
  <2>2. CASE r \notin O
    <3>1. O \ {r} = O /\ c = 0
      BY <1>4, <1>7, <2>2
    <3> QED BY <1>12, <3>1
  <2> QED BY <2>1, <2>2
<1> QED BY <1>2, <1>3, <1>4, <1>8, <1>9, <1>10, <1>12, <1>13 DEF Covered

LEMMA NothingMoves == ASSUME TypeOK, UNCHANGED vars, NEW b \in Budgets PROVE AddsNothing(b)
<1>1. limit[b] \in Nat
  BY Columns
<1> QED BY <1>1 DEF vars, AddsNothing, Owed, Holding, PendingRows

LEMMA StepCovered ==
  ASSUME IInv, MapInv, [Next]_vars, NEW b \in Budgets,
         Covered(b), ~Lowered(b), ~Overcharged(b), ~Overlooked(b)
  PROVE  Covered(b)'
<1> USE DEF IInv
<1>0. limit[b] \in Nat
  BY Columns
<1> DEFINE Same == UNCHANGED <<amount, cost, limit, ledger, resv, expired>>
<1>a. ASSUME NEW r \in Requests, Same, NEW phase, phase \notin {"upstream", "settle"}, Goto(r, phase)
      PROVE  AddsNothing(b)
  BY <1>0, <1>a DEF TypeOK, AddsNothing, Owed, Holding, PendingRows, Goto
<1>1. ASSUME NEW r \in Requests, PassFree(r) PROVE AddsNothing(b)
  <2>1. Same /\ pc[r] = "start" /\ pc' = [pc EXCEPT ![r] = "upstream"]
    BY <1>1 DEF PassFree, Goto
  <2>2. r \notin Holding(b)
    BY <2>1 DEF RowsFollowPhase, Holding, PendingRows
  <2> QED BY <1>0, <2>1, <2>2 DEF TypeOK, AddsNothing, Owed, Holding, PendingRows
<1>2. ASSUME NEW r \in Requests, BeginTx(r) PROVE AddsNothing(b)
  <2>1. pc[r] = "start" /\ pc' = [pc EXCEPT ![r] = "begun"]
    BY <1>2 DEF BeginTx, Goto
  <2>2. (\A q \in Requests \ {r} : amount'[q] = amount[q]) /\ UNCHANGED <<cost, limit, ledger, resv, expired>>
    BY <1>2 DEF BeginTx, TypeOK
  <2> QED BY <1>0, <2>1, <2>2 DEF TypeOK, AddsNothing, Owed, Holding, PendingRows
<1>3. ASSUME NEW r \in Requests, LockBudgets(r) PROVE AddsNothing(b)
  BY <1>3, <1>a DEF LockBudgets
<1>4. ASSUME NEW r \in Requests, ReadSpend(r) PROVE AddsNothing(b)
  BY <1>4, <1>a DEF ReadSpend
<1>5. ASSUME NEW r \in Requests, ReadReserved(r) PROVE AddsNothing(b)
  BY <1>5, <1>a DEF ReadReserved
<1>6. ASSUME NEW r \in Requests, Admit(r) PROVE Covered(b)'
  BY <1>6, AdmissionCovers
<1>7. ASSUME NEW r \in Requests, AdmitUnacknowledged(r) PROVE AddsNothing(b)
  <2>1. pc[r] = "decide" /\ pc' = [pc EXCEPT ![r] = "leaked"]
    BY <1>7 DEF AdmitUnacknowledged, Goto
  <2>2. /\ \A q \in Requests \ {r} : resv'[q] = resv[q]
        /\ UNCHANGED <<amount, cost, limit, ledger, expired>>
    BY <1>7 DEF AdmitUnacknowledged, TypeOK
  <2> QED BY <1>0, <2>1, <2>2 DEF TypeOK, AddsNothing, Owed, Holding, PendingRows
<1>8. ASSUME NEW r \in Requests, Reject(r) \/ FailTx(r) \/ Crash(r) PROVE AddsNothing(b)
  BY <1>8, <1>a DEF Reject, FailTx, Crash
<1>10. ASSUME NEW r \in Requests, UpstreamOk(r) PROVE AddsNothing(b)
  <2>1. Same /\ pc[r] = "upstream" /\ pc' = [pc EXCEPT ![r] = "settle"]
    BY <1>10 DEF UpstreamOk, Goto
  <2> QED BY <1>0, <2>1 DEF TypeOK, AddsNothing, Owed, Holding, PendingRows
<1>11. ASSUME NEW r \in Requests, UpstreamError(r) \/ InsertRequestFails(r) \/ ReleaseFails(r)
       PROVE  AddsNothing(b)
  BY <1>11, <1>a DEF UpstreamError, InsertRequestFails, ReleaseFails
<1>12. ASSUME NEW r \in Requests, InsertRequest(r) PROVE Covered(b)'
  BY <1>12, ChargeCovers
<1>14. ASSUME NEW r \in Requests, ReleaseRow(r) PROVE AddsNothing(b)
  <2>1. /\ pc[r] = "release" /\ pc'[r] \in {"done", "release"}
        /\ \A q \in Requests \ {r} : pc'[q] = pc[q] /\ resv'[q] = resv[q]
        /\ UNCHANGED <<amount, cost, limit, ledger, expired>>
    BY <1>14 DEF ReleaseRow, Goto, TypeOK
  <2> QED BY <1>0, <2>1 DEF TypeOK, AddsNothing, Owed, Holding, PendingRows
<1>17. ASSUME NEW r \in Requests, Expire(r) PROVE AddsNothing(b)
  BY <1>0, <1>17 DEF Expire, AddsNothing, Owed, Holding, PendingRows
<1>18. ASSUME NEW c \in Budgets, RollOver(c) PROVE AddsNothing(b)
  <2>1. ledger'[b] \subseteq ledger[b] /\ UNCHANGED <<pc, amount, cost, limit, resv, expired>>
    BY <1>18 DEF RollOver, TypeOK
  <2> QED BY <1>0, <2>1 DEF AddsNothing, Owed, Holding, PendingRows
<1>19. ASSUME NEW c \in Budgets, SetLimit(c) PROVE AddsNothing(b)
  <2>1. limit' \in [Budgets -> Limits] /\ UNCHANGED <<pc, amount, cost, ledger, resv, expired>>
    BY <1>19 DEF SetLimit, TypeOK
  <2>2. limit'[b] \in Nat /\ ~(limit'[b] < limit[b])
    BY <2>1, AmountsAssumption DEF Lowered
  <2>3. limit'[b] >= limit[b]
    BY <1>0, <2>2
  <2> QED BY <2>1, <2>2, <2>3 DEF AddsNothing, Owed, Holding, PendingRows
<1> HIDE DEF Same
<1>21. CASE AddsNothing(b)
  BY <1>21, NothingAdded
<1> QED
  BY <1>1, <1>2, <1>3, <1>4, <1>5, <1>6, <1>7, <1>8, <1>10, <1>11, <1>12,
     <1>14, <1>17, <1>18, <1>19, <1>21, NothingMoves
     DEF Next, Reserve, Finish

(* Past a cap lead three ways only: a lowered limit, a charge nobody promised,
   an admission that overlooked a charge between its two reads. *)
THEOREM CapIsKept == Spec => CapKept
<1>1. ASSUME IInv, MapInv, [Next]_vars
      PROVE  [\A b \in Budgets : Covered(b) /\ ~Covered(b)'
                => Lowered(b) \/ Overcharged(b) \/ Overlooked(b)]_vars
  BY <1>1, StepCovered
<1> QED BY <1>1, Invariance, MapInvHolds, PTL DEF Spec, CapKept

(* Where they never happen, recorded spend stays within the cap: the promise of
   the hard cap, with the conditions it needs. *)
KeptClear == \A b \in Budgets : ~Lowered(b) /\ ~Overcharged(b) /\ ~Overlooked(b)

THEOREM SpendStaysWithinLimit == Spec /\ [][KeptClear]_vars => []SpendWithinLimit
<1> DEFINE AllCovered == \A b \in Budgets : Covered(b)
<1>1. Init => AllCovered
  <2> SUFFICES ASSUME Init, NEW b \in Budgets PROVE Covered(b)
    OBVIOUS
  <2>1. ledger[b] = {} /\ Owed(b) = {} /\ limit[b] \in Nat
    BY AmountsAssumption DEF Init, NoRows, Owed, Holding, PendingRows
  <2>2. Exposure(b) = 0 + 0
    BY <2>1, TotalIsSum, SumEmpty DEF Exposure
  <2> QED BY <2>1, <2>2 DEF Covered
<1>2. IInv /\ MapInv /\ AllCovered /\ [Next]_vars /\ [KeptClear]_vars => AllCovered'
  <2>1. ASSUME IInv, MapInv, AllCovered, [Next]_vars, KeptClear PROVE AllCovered'
    BY <2>1, StepCovered DEF KeptClear
  <2>2. ASSUME IInv, AllCovered, UNCHANGED vars PROVE AllCovered'
    BY <2>2, NothingMoves, NothingAdded DEF IInv
  <2> HIDE DEF AllCovered
  <2> QED BY <2>1, <2>2
<1>3. IInv /\ AllCovered => SpendWithinLimit
  <2> SUFFICES ASSUME IInv, NEW b \in Budgets, Covered(b) PROVE Total(cost, ledger[b]) <= limit[b]
    BY DEF SpendWithinLimit
  <2>1. /\ ledger[b] \in SUBSET Requests /\ Owed(b) \in SUBSET Requests /\ limit[b] \in Nat
        /\ Summable(cost, Requests) /\ Summable(amount, Requests)
    BY Columns DEF IInv, Summable
  <2>2. Sum(cost, ledger[b]) \in Nat /\ Sum(amount, Owed(b)) \in Nat
    BY <2>1, RequestsAssumption, FewerIsLess
  <2>3. Sum(cost, ledger[b]) + Sum(amount, Owed(b)) <= limit[b]
    BY TotalIsSum DEF Covered, Exposure
  <2> QED BY <2>1, <2>2, <2>3, TotalIsSum
<1> HIDE DEF AllCovered
<1> QED BY <1>1, <1>2, <1>3, Invariance, MapInvHolds, PTL DEF Spec

=============================================================================
