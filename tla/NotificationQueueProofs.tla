---------------------- MODULE NotificationQueueProofs ----------------------
(* Proofs about NotificationQueue, for all messages, rules and workers. *)
EXTENDS NotificationQueue, TLAPS

-----------------------------------------------------------------------------
(* Typing. *)

LEMMA InitTypeOK == Init => TypeOK
  BY QueueAssumption DEF QueueAssumption, Init, TypeOK, Status, Step

LEMMA RefundType == ASSUME NEW n \in 0..MaxAttempts PROVE Refund(n) \in 0..MaxAttempts
  BY QueueAssumption DEF QueueAssumption, Refund

LEMMA RecordType ==
  ASSUME TypeOK, NEW m \in Messages, NEW s \in Status, Record(m, s)
  PROVE  /\ status' \in [Messages -> Status]
         /\ attempts' \in [Messages -> 0..MaxAttempts]
         /\ token' \in [Messages -> Workers \cup {Nobody}]
         /\ due' \in [Messages -> BOOLEAN]
  <1>1. attempts' \in [Messages -> 0..MaxAttempts]
    BY RefundType DEF TypeOK, Record
  <1> QED
    BY <1>1 DEF TypeOK, Record

LEMMA ReplaceType ==
  ASSUME TypeOK, NEW M, NEW N, Replace(M, N)
  PROVE  /\ status' \in [Messages -> Status]
         /\ attempts' \in [Messages -> 0..MaxAttempts]
         /\ token' \in [Messages -> Workers \cup {Nobody}]
         /\ due' \in [Messages -> BOOLEAN]
  <1>1. attempts' \in [Messages -> 0..MaxAttempts]
    BY RefundType DEF TypeOK, Replace
  <1> QED
    BY <1>1 DEF TypeOK, Replace, Status

LEMMA WithdrawType ==
  ASSUME TypeOK, NEW M, Withdraw(M)
  PROVE  /\ status' \in [Messages -> Status]
         /\ attempts' \in [Messages -> 0..MaxAttempts]
         /\ token' \in [Messages -> Workers \cup {Nobody}]
         /\ due' \in [Messages -> BOOLEAN]
  BY ReplaceType DEF Withdraw

LEMMA RequeueType ==
  ASSUME TypeOK, NEW M, NEW drop, Requeue(M, drop)
  PROVE  /\ status' \in [Messages -> Status]
         /\ attempts' \in [Messages -> 0..MaxAttempts]
         /\ token' \in [Messages -> Workers \cup {Nobody}]
         /\ due' \in [Messages -> BOOLEAN]
         /\ calls' \in [Messages -> Nat]
         /\ renewals' \in Nat
         /\ UNCHANGED <<lock, step, item, accepted, unrecorded>>
  <1>1. attempts' \in [Messages -> 0..MaxAttempts]
    BY RefundType, QueueAssumption DEF QueueAssumption, TypeOK, Requeue
  <1>2. status' \in [Messages -> Status]
    BY DEF TypeOK, Requeue, Status
  <1>3. calls' \in [Messages -> Nat] /\ renewals' \in Nat
    BY DEF TypeOK, Requeue, Renew
  <1>4. token' \in [Messages -> Workers \cup {Nobody}] /\ due' \in [Messages -> BOOLEAN]
    BY DEF TypeOK, Requeue
  <1>5. UNCHANGED <<lock, step, item, accepted, unrecorded>>
    BY DEF Requeue, worker
  <1> QED
    BY <1>1, <1>2, <1>3, <1>4, <1>5

LEMMA NextTypeOK == TypeOK /\ ClaimsAreMarked /\ [Next]_vars => TypeOK'
  <1> SUFFICES ASSUME TypeOK, ClaimsAreMarked, [Next]_vars PROVE TypeOK'
    OBVIOUS
  <1> USE QueueAssumption DEF QueueAssumption, row, worker, history
  <1>1. ASSUME NEW m \in Messages, Event(m) PROVE TypeOK'
    <2>1. CASE Draft(m)
      BY <2>1 DEF Draft, TypeOK, Status
    <2>2. CASE Insert(m)
      BY <2>2 DEF Insert, TypeOK, Status
    <2>3. CASE FallDue(m)
      BY <2>3 DEF FallDue, TypeOK
    <2> QED
      BY <1>1, <2>1, <2>2, <2>3 DEF Event
  <1>2. ASSUME NEW w \in Workers, step[w] # "idle" PROVE item[w] \in Messages
    BY <1>2 DEF TypeOK, ClaimsAreMarked
  <1>3. ASSUME NEW w \in Workers, FailExpiredClaims(w) PROVE TypeOK'
    BY <1>3 DEF FailExpiredClaims, TypeOK, Status
  <1>4. ASSUME NEW w \in Workers, NEW m \in Messages, Claim(w, m) PROVE TypeOK'
    <2>1. attempts' \in [Messages -> 0..MaxAttempts]
      BY <1>4 DEF Claim, Claimable, TypeOK
    <2> QED
      BY <1>4, <2>1 DEF Claim, TypeOK, Status, Step
  <1>5. ASSUME NEW w \in Workers, NEW s \in {"failed", "cancelled", "logged"}, SettleClaim(w, s)
        PROVE  TypeOK'
    <2>1. item[w] \in Messages /\ s \in Status
      BY <1>5, <1>2 DEF SettleClaim, Status
    <2>2. CASE Owns(w)
      <3> DEFINE m == item[w]
      <3>1. Record(m, s) /\ m \in Messages
        BY <1>5, <2>1, <2>2 DEF SettleClaim
      <3> HIDE DEF m
      <3> QED
        BY <1>5, <2>1, <3>1, RecordType DEF SettleClaim, Rest, TypeOK, Step
    <2>3. CASE ~ Owns(w)
      BY <1>5, <2>3 DEF SettleClaim, Rest, TypeOK, Step
    <2> QED
      BY <2>2, <2>3
  <1>6. ASSUME NEW w \in Workers, BeginDispatch(w) \/ AbandonClaim(w) PROVE TypeOK'
    BY <1>6, <1>2 DEF BeginDispatch, AbandonClaim, Rest, TypeOK, Step
  <1>7. ASSUME NEW w \in Workers, GatewayTakes(w) \/ GatewayConfirms(w) \/ GatewayFails(w)
        PROVE  TypeOK'
    BY <1>7, <1>2 DEF GatewayTakes, GatewayConfirms, GatewayFails, LoseIf, Lose, TypeOK, Step
  <1>8. ASSUME NEW w \in Workers, RecordResult(w) PROVE TypeOK'
    <2> DEFINE m == item[w]
               s == IF step[w] = "ok" THEN "sent" ELSE "failed"
    <2>1. m \in Messages /\ s \in Status
      BY <1>8, <1>2 DEF RecordResult, Status
    <2>2. Owns(w) => Record(m, s)
      BY <1>8 DEF RecordResult
    <2>3. ~ Owns(w) => UNCHANGED row
      BY <1>8 DEF RecordResult
    <2>4. /\ Unlock(w) /\ Rest(w) /\ UNCHANGED <<rule, picked, renewals, history>>
      BY <1>8 DEF RecordResult
    <2> HIDE DEF m, s
    <2>5. /\ status' \in [Messages -> Status]
          /\ attempts' \in [Messages -> 0..MaxAttempts]
          /\ token' \in [Messages -> Workers \cup {Nobody}]
          /\ due' \in [Messages -> BOOLEAN]
      BY <2>1, <2>2, <2>3, RecordType DEF TypeOK
    <2> QED
      BY <2>4, <2>5 DEF Unlock, Rest, TypeOK, Step
  <1>9. ASSUME NEW w \in Workers, LoseResult(w) \/ LoseSession(w) \/ WorkerStops(w)
        PROVE  TypeOK'
    BY <1>9, <1>2
    DEF LoseResult, LoseSession, WorkerStops, LoseIf, Lose, Unlock, Rest, TypeOK, Step
  <1>10. ASSUME NEW M, WithdrawGroup(M) PROVE TypeOK'
    BY <1>10, WithdrawType DEF WithdrawGroup, TypeOK
  <1>14. ASSUME NEW M, NEW N, Resend(M, N) PROVE TypeOK'
    BY <1>14, ReplaceType DEF Resend, TypeOK
  <1>11. ASSUME NEW M, NEW drop, RefreshGroup(M, drop) PROVE TypeOK'
    BY <1>11, RequeueType DEF RefreshGroup, TypeOK
  <1>12. ASSUME Administration PROVE TypeOK'
    <2>1. ASSUME NEW m \in Messages, CancelNotification(m) PROVE TypeOK'
      BY <2>1, WithdrawType DEF CancelNotification, TypeOK
    <2>2. ASSUME NEW m \in Messages, RetryNotification(m) PROVE TypeOK'
      BY <2>2, RequeueType DEF RetryNotification, TypeOK
    <2>3. ASSUME PickFailed PROVE TypeOK'
      BY <2>3 DEF PickFailed, TypeOK
    <2>4. ASSUME RetryPicked PROVE TypeOK'
      BY <2>4, RequeueType DEF RetryPicked, TypeOK
    <2>8. ASSUME NEW r \in Rules, NEW enabled \in {"on", "off"}, CreateRule(r, enabled)
          PROVE  TypeOK'
      BY <2>8 DEF CreateRule, TypeOK
    <2>5. ASSUME NEW R, NEW enabled \in {"on", "off"}, SaveRules(R, enabled)
          PROVE  TypeOK'
      BY <2>5, WithdrawType DEF SaveRules, TypeOK
    <2>6. ASSUME NEW r \in Rules, DeleteRule(r) PROVE TypeOK'
      BY <2>6, WithdrawType DEF DeleteRule, TypeOK
    <2>7. ASSUME NEW r \in Rules, NEW drop, RefreshRule(r, drop) PROVE TypeOK'
      BY <2>7, RequeueType DEF RefreshRule, TypeOK
    <2> QED
      BY ONLY <1>12, <2>1, <2>2, <2>3, <2>4, <2>5, <2>6, <2>7, <2>8 DEF Administration, StopAPI
  <1>13. CASE UNCHANGED vars
    BY <1>13 DEF vars, TypeOK
  <1> QED
    BY <1>1, <1>3, <1>4, <1>5, <1>6, <1>7, <1>8, <1>9, <1>10, <1>11, <1>12, <1>13, <1>14
    DEF Next, Work

-----------------------------------------------------------------------------
(* The invariant. *)

Agreement ==
  /\ ClaimsAreMarked
  /\ DispatchHoldsClaim
  /\ CallsAreCounted
  /\ BudgetKept
  /\ AcceptancesAccounted

LEMMA InitAgreement == Init => Agreement
  BY QueueAssumption
  DEF QueueAssumption, Init, Agreement, ClaimsAreMarked, DispatchHoldsClaim,
      CallsAreCounted, BudgetKept, AcceptancesAccounted, Owns

(* An event, or the passing of time. *)
LEMMA EventKeeps ==
  ASSUME TypeOK, Agreement, TypeOK',
         NEW m \in Messages, Event(m)
  PROVE  Agreement'
  <1> USE QueueAssumption DEF QueueAssumption, row, worker, history
  <1>1. ClaimsAreMarked'
    BY DEF Event, Draft, Insert, FallDue, Pending, Stopped, RuleState, Agreement,
           TypeOK, ClaimsAreMarked, Step
  <1>2. DispatchHoldsClaim'
    BY DEF Event, Draft, Insert, FallDue, Pending, Stopped, RuleState, Agreement,
           TypeOK, ClaimsAreMarked, DispatchHoldsClaim
  <1>3. CallsAreCounted'
    BY DEF Event, Draft, Insert, FallDue, Pending, Stopped, RuleState, Agreement,
           TypeOK, ClaimsAreMarked, CallsAreCounted, Owns
  <1>4. BudgetKept'
    BY DEF Event, Draft, Insert, FallDue, Pending, Stopped, RuleState, Agreement,
           TypeOK, BudgetKept, CallsAreCounted, Owns
  <1>5. AcceptancesAccounted'
    BY DEF Event, Draft, Insert, FallDue, Pending, Stopped, RuleState, Agreement,
           TypeOK, AcceptancesAccounted, Told, ClaimsAreMarked, DispatchHoldsClaim
  <1> QED
    BY <1>1, <1>2, <1>3, <1>4, <1>5 DEF Agreement

(* A claim finds no dispatch on the row. *)
LEMMA ClaimKeeps ==
  ASSUME TypeOK, Agreement, TypeOK',
         NEW w \in Workers, NEW m \in Messages, Claim(w, m)
  PROVE  Agreement'
  <1> USE QueueAssumption DEF QueueAssumption, row, worker, history
  <1>1. ClaimsAreMarked'
    BY DEF Claim, Claimable, Pending, Agreement, TypeOK, ClaimsAreMarked, Step
  <1>2. DispatchHoldsClaim'
    BY DEF Claim, Claimable, Pending, Agreement, TypeOK, ClaimsAreMarked,
           DispatchHoldsClaim
  <1>3. CallsAreCounted'
    BY DEF Claim, Claimable, Pending, Agreement, TypeOK, ClaimsAreMarked,
           CallsAreCounted, Owns
  <1>4. BudgetKept'
    BY DEF Claim, Claimable, Pending, Agreement, TypeOK, BudgetKept,
           CallsAreCounted, Owns
  <1>5. AcceptancesAccounted'
    BY DEF Claim, Claimable, Pending, Agreement, TypeOK, AcceptancesAccounted, Told,
           ClaimsAreMarked, DispatchHoldsClaim
  <1> QED
    BY <1>1, <1>2, <1>3, <1>4, <1>5 DEF Agreement

(* Claims nobody came back for end. *)
LEMMA ExpiryKeeps ==
  ASSUME TypeOK, Agreement, TypeOK',
         NEW w \in Workers, FailExpiredClaims(w)
  PROVE  Agreement'
  <1> USE QueueAssumption DEF QueueAssumption, row, worker, history
  <1>1. ClaimsAreMarked'
    BY DEF FailExpiredClaims, Agreement, TypeOK, ClaimsAreMarked, Step
  <1>2. DispatchHoldsClaim'
    BY DEF FailExpiredClaims, Agreement, TypeOK, ClaimsAreMarked, DispatchHoldsClaim
  <1>3. CallsAreCounted'
    BY DEF FailExpiredClaims, Agreement, TypeOK, ClaimsAreMarked, CallsAreCounted,
           Owns
  <1>4. BudgetKept'
    BY DEF FailExpiredClaims, Agreement, TypeOK, BudgetKept, CallsAreCounted, Owns
  <1>5. AcceptancesAccounted'
    BY DEF FailExpiredClaims, Agreement, TypeOK, AcceptancesAccounted, Told,
           ClaimsAreMarked, DispatchHoldsClaim
  <1> QED
    BY <1>1, <1>2, <1>3, <1>4, <1>5 DEF Agreement

(* A claim that ends without a call. *)
LEMMA SettleKeeps ==
  ASSUME TypeOK, Agreement, TypeOK',
         NEW w \in Workers, NEW s \in {"failed", "cancelled", "logged"}, SettleClaim(w, s)
  PROVE  Agreement'
  <1> USE QueueAssumption DEF QueueAssumption, row, worker, history
  <1>1. ClaimsAreMarked'
    BY DEF SettleClaim, Record, Rest, Owns, Refund, Agreement, TypeOK,
           ClaimsAreMarked, Step
  <1>2. DispatchHoldsClaim'
    BY DEF SettleClaim, Record, Rest, Owns, Refund, Agreement, TypeOK,
           ClaimsAreMarked, DispatchHoldsClaim
  <1>3. CallsAreCounted'
    BY DEF SettleClaim, Record, Rest, Owns, Refund, Agreement, TypeOK,
           ClaimsAreMarked, CallsAreCounted, Owns
  <1>4. BudgetKept'
    BY DEF SettleClaim, Record, Rest, Owns, Refund, Agreement, TypeOK, BudgetKept,
           CallsAreCounted, Owns
  <1>5. AcceptancesAccounted'
    BY DEF SettleClaim, Record, Rest, Owns, Refund, Agreement, TypeOK,
           AcceptancesAccounted, Told, ClaimsAreMarked, DispatchHoldsClaim
  <1> QED
    BY <1>1, <1>2, <1>3, <1>4, <1>5 DEF Agreement

(* A dispatch starts only on the worker's own claim, which has an attempt left. *)
LEMMA DispatchKeeps ==
  ASSUME TypeOK, Agreement, TypeOK',
         NEW w \in Workers, BeginDispatch(w) \/ AbandonClaim(w)
  PROVE  Agreement'
  <1> USE QueueAssumption DEF QueueAssumption, row, worker, history
  <1>1. ClaimsAreMarked'
    BY DEF BeginDispatch, AbandonClaim, Rest, Owns, Agreement, TypeOK,
           ClaimsAreMarked, Step
  <1>2. DispatchHoldsClaim'
    BY DEF BeginDispatch, AbandonClaim, Rest, Owns, Agreement, TypeOK,
           ClaimsAreMarked, DispatchHoldsClaim
  <1>3. CallsAreCounted'
    BY DEF BeginDispatch, AbandonClaim, Rest, Owns, Agreement, TypeOK,
           ClaimsAreMarked, CallsAreCounted, Owns
  <1>4. BudgetKept'
    BY DEF BeginDispatch, AbandonClaim, Rest, Owns, Agreement, TypeOK, BudgetKept,
           CallsAreCounted, Owns
  <1>5. AcceptancesAccounted'
    BY DEF BeginDispatch, AbandonClaim, Rest, Owns, Agreement, TypeOK,
           AcceptancesAccounted, Told, ClaimsAreMarked, DispatchHoldsClaim
  <1> QED
    BY <1>1, <1>2, <1>3, <1>4, <1>5 DEF Agreement

(* The gateway's part. *)
LEMMA CallKeeps ==
  ASSUME TypeOK, Agreement, TypeOK',
         NEW w \in Workers, GatewayTakes(w) \/ GatewayConfirms(w) \/ GatewayFails(w)
  PROVE  Agreement'
  <1> USE QueueAssumption DEF QueueAssumption, row, worker, history
  <1>1. ClaimsAreMarked'
    BY DEF GatewayTakes, GatewayConfirms, GatewayFails, LoseIf, Lose, HoldsLock,
           Agreement, TypeOK, ClaimsAreMarked, Step
  <1>2. DispatchHoldsClaim'
    BY DEF GatewayTakes, GatewayConfirms, GatewayFails, LoseIf, Lose, HoldsLock,
           Agreement, TypeOK, ClaimsAreMarked, DispatchHoldsClaim
  <1>3. CallsAreCounted'
    BY DEF GatewayTakes, GatewayConfirms, GatewayFails, LoseIf, Lose, HoldsLock,
           Agreement, TypeOK, ClaimsAreMarked, CallsAreCounted, Owns
  <1>4. BudgetKept'
    BY DEF GatewayTakes, GatewayConfirms, GatewayFails, LoseIf, Lose, HoldsLock,
           Agreement, TypeOK, BudgetKept, CallsAreCounted, Owns
  <1>5. AcceptancesAccounted'
    BY DEF GatewayTakes, GatewayConfirms, GatewayFails, LoseIf, Lose, HoldsLock,
           Agreement, TypeOK, AcceptancesAccounted, Told, ClaimsAreMarked,
           DispatchHoldsClaim
  <1> QED
    BY <1>1, <1>2, <1>3, <1>4, <1>5 DEF Agreement

(* A result is written under the lock. *)
LEMMA ResultKeeps ==
  ASSUME TypeOK, Agreement, TypeOK',
         NEW w \in Workers, RecordResult(w)
  PROVE  Agreement'
  <1> USE QueueAssumption DEF QueueAssumption, row, worker, history
  <1>1. ClaimsAreMarked'
    BY DEF RecordResult, Record, Unlock, Rest, Owns, HoldsLock, Agreement, TypeOK,
           ClaimsAreMarked, Step
  <1>2. DispatchHoldsClaim'
    BY DEF RecordResult, Record, Unlock, Rest, Owns, HoldsLock, Agreement, TypeOK,
           ClaimsAreMarked, DispatchHoldsClaim
  <1>3. CallsAreCounted'
    BY DEF RecordResult, Record, Unlock, Rest, Owns, HoldsLock, Agreement, TypeOK,
           ClaimsAreMarked, CallsAreCounted, Owns
  <1>4. BudgetKept'
    BY DEF RecordResult, Record, Unlock, Rest, Owns, HoldsLock, Agreement, TypeOK,
           BudgetKept, CallsAreCounted, Owns
  <1>5. AcceptancesAccounted'
    BY DEF RecordResult, Record, Unlock, Rest, Owns, HoldsLock, Agreement, TypeOK,
           AcceptancesAccounted, Told, ClaimsAreMarked, DispatchHoldsClaim
  <1> QED
    BY <1>1, <1>2, <1>3, <1>4, <1>5 DEF Agreement

(* What is lost is counted when the lock goes. *)
LEMMA LossKeeps ==
  ASSUME TypeOK, Agreement, TypeOK',
         NEW w \in Workers, LoseResult(w) \/ LoseSession(w) \/ WorkerStops(w)
  PROVE  Agreement'
  <1> USE QueueAssumption DEF QueueAssumption, row, worker, history
  <1>1. ClaimsAreMarked'
    BY DEF LoseResult, LoseSession, WorkerStops, LoseIf, Lose, Unlock, Rest,
           HoldsLock, Agreement, TypeOK, ClaimsAreMarked, Step
  <1>2. DispatchHoldsClaim'
    BY DEF LoseResult, LoseSession, WorkerStops, LoseIf, Lose, Unlock, Rest,
           HoldsLock, Agreement, TypeOK, ClaimsAreMarked, DispatchHoldsClaim
  <1>3. CallsAreCounted'
    BY DEF LoseResult, LoseSession, WorkerStops, LoseIf, Lose, Unlock, Rest,
           HoldsLock, Agreement, TypeOK, ClaimsAreMarked, CallsAreCounted, Owns
  <1>4. BudgetKept'
    BY DEF LoseResult, LoseSession, WorkerStops, LoseIf, Lose, Unlock, Rest,
           HoldsLock, Agreement, TypeOK, BudgetKept, CallsAreCounted, Owns
  <1>5. AcceptancesAccounted'
    BY DEF LoseResult, LoseSession, WorkerStops, LoseIf, Lose, Unlock, Rest,
           HoldsLock, Agreement, TypeOK, AcceptancesAccounted, Told,
           ClaimsAreMarked, DispatchHoldsClaim
  <1> QED
    BY <1>1, <1>2, <1>3, <1>4, <1>5 DEF Agreement

(* A withdrawal waits for the locks of its rows. *)
LEMMA ReplaceKeeps ==
  ASSUME TypeOK, Agreement, TypeOK',
         NEW M \in SUBSET Messages, NEW N, Replace(M, N), UNCHANGED <<lock, worker, history>>,
         \A m \in N : status[m] = "absent"
  PROVE  Agreement'
  <1> USE QueueAssumption DEF QueueAssumption, row, worker, history
  <1>1. ClaimsAreMarked'
    BY DEF Replace, Withdrawn, Pending, Refund, Agreement, TypeOK, ClaimsAreMarked,
           Step
  <1>2. DispatchHoldsClaim'
    BY DEF Replace, Withdrawn, Pending, Refund, Agreement, TypeOK, ClaimsAreMarked,
           DispatchHoldsClaim
  <1>3. CallsAreCounted'
    BY DEF Replace, Withdrawn, Pending, Refund, Agreement, TypeOK, ClaimsAreMarked,
           CallsAreCounted, Owns
  <1>4. BudgetKept'
    BY DEF Replace, Withdrawn, Pending, Refund, Agreement, TypeOK, BudgetKept,
           CallsAreCounted, Owns
  <1>5. AcceptancesAccounted'
    BY DEF Replace, Withdrawn, Pending, Refund, Agreement, TypeOK,
           AcceptancesAccounted, Told, ClaimsAreMarked, DispatchHoldsClaim
  <1> QED
    BY <1>1, <1>2, <1>3, <1>4, <1>5 DEF Agreement

LEMMA WithdrawKeeps ==
  ASSUME TypeOK, Agreement, TypeOK',
         NEW M \in SUBSET Messages, Withdraw(M), UNCHANGED <<lock, worker, history>>
  PROVE  Agreement'
  BY ReplaceKeeps DEF Withdraw

(* So does a refresh or a retry; what it takes has not been sent. *)
LEMMA RequeueKeeps ==
  ASSUME TypeOK, Agreement, TypeOK',
         NEW M \in SUBSET Messages, NEW drop, Requeue(M, drop),
         \A m \in M : status[m] \in {"queued", "failed", "sending", "cancelled"}
  PROVE  Agreement'
  <1> USE QueueAssumption DEF QueueAssumption, row, worker, history
  <1>1. ClaimsAreMarked'
    BY DEF Requeue, Refund, Agreement, TypeOK, ClaimsAreMarked, Step
  <1>2. DispatchHoldsClaim'
    BY DEF Requeue, Refund, Agreement, TypeOK, ClaimsAreMarked, DispatchHoldsClaim
  <1>3. CallsAreCounted'
    BY DEF Requeue, Refund, Agreement, TypeOK, ClaimsAreMarked, CallsAreCounted,
           Owns
  <1>4. BudgetKept'
    BY DEF Requeue, Refund, Agreement, TypeOK, BudgetKept, CallsAreCounted, Owns
  <1>5. AcceptancesAccounted'
    BY DEF Requeue, Refund, Agreement, TypeOK, AcceptancesAccounted, Told,
           ClaimsAreMarked, DispatchHoldsClaim
  <1> QED
    BY <1>1, <1>2, <1>3, <1>4, <1>5 DEF Agreement

LEMMA NextAgreement == IInv /\ [Next]_vars /\ TypeOK' => Agreement'
  <1> SUFFICES ASSUME TypeOK, Agreement, [Next]_vars, TypeOK' PROVE Agreement'
    BY DEF IInv, Agreement
  <1>1. ASSUME NEW w \in Workers, Work(w) PROVE Agreement'
    BY <1>1, ExpiryKeeps, ClaimKeeps, SettleKeeps, DispatchKeeps, CallKeeps, ResultKeeps,
       LossKeeps
    DEF Work
  <1>2. ASSUME NEW w \in Workers, LoseSession(w) \/ WorkerStops(w) PROVE Agreement'
    BY <1>2, LossKeeps
  <1>3. ASSUME NEW m \in Messages, Event(m) PROVE Agreement'
    BY <1>3, EventKeeps
  <1>4. ASSUME NEW M \in Groups, WithdrawGroup(M) PROVE Agreement'
    BY <1>4, WithdrawKeeps, QueueAssumption DEF QueueAssumption, WithdrawGroup
  <1>8. ASSUME NEW M \in Groups, NEW N, Resend(M, N) PROVE Agreement'
    BY <1>8, ReplaceKeeps, QueueAssumption DEF QueueAssumption, Resend
  <1>5. ASSUME NEW M \in Groups, NEW drop \in SUBSET M, RefreshGroup(M, drop) PROVE Agreement'
    BY <1>5, RequeueKeeps DEF RefreshGroup, OfRules
  <1>6. ASSUME Administration PROVE Agreement'
    <2>1. ASSUME NEW m \in Messages, CancelNotification(m) PROVE Agreement'
      BY <2>1, WithdrawKeeps DEF CancelNotification
    <2>2. ASSUME NEW m \in Messages, RetryNotification(m) PROVE Agreement'
      BY <2>2, RequeueKeeps DEF RetryNotification, Retryable
    <2>3. ASSUME UNCHANGED <<row, lock, worker, history>> PROVE Agreement'
      BY <2>3
      DEF Agreement, ClaimsAreMarked, DispatchHoldsClaim, CallsAreCounted, BudgetKept,
          AcceptancesAccounted, Told, Owns, row, worker, history
    <2>4. ASSUME RetryPicked PROVE Agreement'
      BY <2>3, <2>4, RequeueKeeps DEF RetryPicked, Retryable
    <2>5. ASSUME NEW R, NEW enabled, SaveRules(R, enabled) PROVE Agreement'
      BY <2>5, WithdrawKeeps DEF SaveRules, OfRules
    <2>6. ASSUME NEW r \in Rules, DeleteRule(r) PROVE Agreement'
      BY <2>6, WithdrawKeeps DEF DeleteRule, OfRules
    <2>7. ASSUME NEW r \in Rules, NEW drop, RefreshRule(r, drop) PROVE Agreement'
      BY <2>7, RequeueKeeps DEF RefreshRule, OfRules, Withdrawn, Pending
    <2>8. PickFailed => UNCHANGED <<row, lock, worker, history>>
      BY DEF PickFailed
    <2>9. ASSUME NEW r, NEW enabled, CreateRule(r, enabled)
          PROVE  UNCHANGED <<row, lock, worker, history>>
      BY <2>9 DEF CreateRule
    <2> QED
      BY ONLY <1>6, <2>1, <2>2, <2>3, <2>4, <2>5, <2>6, <2>7, <2>8, <2>9 DEF Administration, StopAPI
  <1>7. CASE UNCHANGED vars
    BY <1>7
    DEF vars, Agreement, ClaimsAreMarked, DispatchHoldsClaim, CallsAreCounted, BudgetKept,
        AcceptancesAccounted, Told, Owns, row, worker, history
  <1> QED
    BY <1>1, <1>2, <1>3, <1>4, <1>5, <1>6, <1>7, <1>8 DEF Next

(* Whatever workers, failures, visits and administrators do, a row, its claim, *)
(* its lock and what the gateway has been given agree.                         *)
THEOREM QueueAgrees == Spec => []IInv
  <1>1. Init => IInv
    BY InitTypeOK, InitAgreement DEF IInv, Agreement
  <1>2. IInv /\ [Next]_vars => IInv'
    <2> SUFFICES ASSUME IInv, [Next]_vars PROVE IInv'
      OBVIOUS
    <2>1. TypeOK'
      BY NextTypeOK DEF IInv
    <2> QED
      BY <2>1, NextAgreement DEF IInv, Agreement
  <1> QED
    BY <1>1, <1>2, PTL DEF Spec

(* The rows hold only what the schema and the code allow. *)
THEOREM Typing == Spec => []TypeOK
  <1>1. IInv => TypeOK
    BY DEF IInv
  <1> QED
    BY <1>1, QueueAgrees, PTL

(* While a dispatch holds its lock no other claim or withdrawal got at the row. *)
THEOREM Exclusive == Spec => []DispatchHoldsClaim
  <1>1. IInv => DispatchHoldsClaim
    BY DEF IInv
  <1> QED
    BY <1>1, QueueAgrees, PTL

(* A message is taken twice only after a result was lost. *)
THEOREM NoIdleDuplicates == Spec => []DuplicatesAreLosses
  <1>1. IInv => DuplicatesAreLosses
    BY DEF IInv, AcceptancesAccounted, DuplicatesAreLosses
  <1> QED
    BY <1>1, QueueAgrees, PTL

(* At most MaxAttempts calls are made between two queuings. *)
THEOREM Budget == Spec => []BudgetKept
  <1>1. IInv => BudgetKept
    BY DEF IInv
  <1> QED
    BY <1>1, QueueAgrees, PTL

(* The gateway takes no message that has been withdrawn, as long as the session *)
(* under the call lives.                                                        *)
THEOREM Withdrawal == Spec => WithdrawnIsNotSent
  <1>1. ASSUME IInv, [Next]_vars, NEW m \in Messages, accepted'[m] # accepted[m]
        PROVE  \/ status[m] = "sending"
               \/ \E w \in Workers : item[w] = m /\ step[w] = "calling" /\ lock[m] # w
    <2>1. PICK w \in Workers : GatewayTakes(w)
      <3>1. ASSUME \A w \in Workers : ~ GatewayTakes(w) PROVE UNCHANGED accepted
        <4>1. ASSUME NEW w \in Workers, Work(w) \/ LoseSession(w) \/ WorkerStops(w)
              PROVE  UNCHANGED accepted
          BY <3>1, <4>1
          DEF Work, FailExpiredClaims, Claim, SettleClaim, BeginDispatch, AbandonClaim,
              GatewayConfirms, GatewayFails, RecordResult, LoseResult, LoseSession,
              WorkerStops, history
        <4>2. ASSUME NEW n \in Messages, Event(n) PROVE UNCHANGED accepted
          BY <4>2 DEF Event, Draft, Insert, FallDue, history
        <4>3. ASSUME NEW M, WithdrawGroup(M) PROVE UNCHANGED accepted
          BY <4>3 DEF WithdrawGroup, history
        <4>7. ASSUME NEW M, NEW N, Resend(M, N) PROVE UNCHANGED accepted
          BY <4>7 DEF Resend, history
        <4>4. ASSUME NEW M, NEW drop, RefreshGroup(M, drop) PROVE UNCHANGED accepted
          BY <4>4 DEF RefreshGroup, Requeue
        <4>5. ASSUME Administration PROVE UNCHANGED accepted
          BY <4>5
          DEF Administration, CancelNotification, RetryNotification, PickFailed,
              RetryPicked, StopAPI, CreateRule, SaveRules, DeleteRule, RefreshRule, Requeue, history
        <4>6. CASE UNCHANGED vars
          BY <4>6 DEF vars, history
        <4> QED
          BY <1>1, <4>1, <4>2, <4>3, <4>4, <4>5, <4>6, <4>7 DEF Next
      <3> QED
        BY <1>1, <3>1
    <2>2. item[w] = m /\ step[w] = "calling"
      BY <1>1, <2>1 DEF GatewayTakes, IInv, TypeOK, ClaimsAreMarked
    <2>3. lock[m] = w => status[m] = "sending"
      BY <1>1 DEF IInv, DispatchHoldsClaim
    <2> QED
      BY <2>2, <2>3
  <1>2. IInv /\ [Next]_vars =>
          [\A m \in Messages : accepted'[m] # accepted[m] =>
             \/ status[m] = "sending"
             \/ \E w \in Workers : item[w] = m /\ step[w] = "calling" /\ lock[m] # w]_accepted
    BY <1>1
  <1> QED
    BY <1>2, QueueAgrees, PTL DEF Spec, WithdrawnIsNotSent
-----------------------------------------------------------------------------
(* The queue implements Delivery. *)

(* The gateway has taken m, and the worker that holds its row is going to say so. *)
Known(m) == lock[m] # Nobody /\ step[lock[m]] \in {"taken", "ok"}

States == [m \in Messages |-> DeliveryState(m)]

LEMMA DeliveryStates ==
  ASSUME NEW m \in Messages
  PROVE  DeliveryState(m) = IF status[m] = "sent" THEN "sent"
                            ELSE IF Known(m) THEN "told"
                            ELSE IF status[m] \in Pending THEN "open" ELSE "quiet"
  BY DEF DeliveryState, Told, Known

LEMMA DeliveryStatesNext ==
  ASSUME NEW m \in Messages
  PROVE  DeliveryState(m)' = IF status'[m] = "sent" THEN "sent"
                             ELSE IF Known(m)' THEN "told"
                             ELSE IF status'[m] \in Pending THEN "open" ELSE "quiet"
  BY DEF DeliveryState, Told, Known

(* A row whose result is known is being sent, by the worker that knows. *)
LEMMA KnownRow ==
  ASSUME IInv, NEW m \in Messages, lock[m] # Nobody
  PROVE  lock[m] \in Workers /\ item[lock[m]] = m /\ status[m] = "sending"
  BY DEF IInv, TypeOK, DispatchHoldsClaim

(* Nothing is taken, recorded or lost: rows change their state between open  *)
(* and quiet, those that are known or sent excepted.                         *)
LEMMA RowsAreDecided ==
  ASSUME IInv, UNCHANGED <<accepted, unrecorded>>,
         \A m \in Messages : Known(m)' <=> Known(m),
         \A m \in Messages :
           \/ status'[m] = status[m]
           \/ ~Known(m) /\ status[m] # "sent" /\ status'[m] # "sent"
  PROVE  Deliver!Next
  <1> DEFINE O == {m \in Messages : DeliveryState(m) \in {"open", "quiet"} /\ DeliveryState(m)' = "open"}
             Q == {m \in Messages : DeliveryState(m) \in {"open", "quiet"} /\ DeliveryState(m)' = "quiet"}
  <1>1. ASSUME NEW m \in Messages
        PROVE  \/ DeliveryState(m)' = DeliveryState(m)
               \/ DeliveryState(m) \in {"open", "quiet"} /\ DeliveryState(m)' \in {"open", "quiet"}
    BY DeliveryStates, DeliveryStatesNext
  <1>2. States' = [m \in Messages |->
                     IF m \in O THEN "open" ELSE IF m \in Q THEN "quiet" ELSE DeliveryState(m)]
    BY <1>1 DEF States
  <1>3. \A m \in O \cup Q : States[m] \in {"quiet", "open"}
    BY DEF States
  <1>4. O \in SUBSET Messages /\ Q \in SUBSET Messages
    OBVIOUS
  <1> HIDE DEF O, Q
  <1>5. Deliver!Decide(O, Q)
    BY <1>2, <1>3, <1>4 DEF Deliver!Decide, States
  <1> QED
    BY <1>4, <1>5 DEF Deliver!Next

(* The result that was known of m is lost. *)
LEMMA ResultIsForgotten ==
  ASSUME IInv, NEW m \in Messages, Known(m), ~Known(m)',
         \A n \in Messages \ {m} : Known(n)' <=> Known(n),
         UNCHANGED <<status, accepted>>, Lose(m)
  PROVE  Deliver!Next
  <1>1. status[m] = "sending"
    BY KnownRow DEF Known
  <1>2. DeliveryState(m) = "told" /\ DeliveryState(m)' = "open"
    BY <1>1, DeliveryStates, DeliveryStatesNext DEF Pending
  <1>3. \A n \in Messages \ {m} : DeliveryState(n)' = DeliveryState(n)
    BY DeliveryStates, DeliveryStatesNext
  <1>4. States' = [States EXCEPT ![m] = "open"] /\ States[m] = "told"
    BY <1>2, <1>3 DEF States
  <1>5. Deliver!Forget(m)
    BY <1>4 DEF Deliver!Forget, States, Lose
  <1> QED
    BY <1>5 DEF Deliver!Next

-----------------------------------------------------------------------------
(* One lemma per step of a worker that touches what is known. *)

(* w holds no row but that of its message. *)
LEMMA OneRow ==
  ASSUME IInv, NEW w \in Workers, NEW n \in Messages, lock[n] = w
  PROVE  n = item[w]
  BY DEF IInv, DispatchHoldsClaim

LEMMA InHand ==
  ASSUME IInv, NEW w \in Workers, step[w] # "idle"
  PROVE  item[w] \in Messages
  BY DEF IInv, TypeOK, ClaimsAreMarked

LEMMA NobodyIsNoWorker == Nobody \notin Workers
  BY QueueAssumption DEF QueueAssumption

(* Only the step of w changes: only the row in its hand can become known. *)
LEMMA OthersStayKnown ==
  ASSUME IInv, NEW w \in Workers, lock' = lock,
         \A u \in Workers \ {w} : step'[u] = step[u],
         NEW n \in Messages, lock[n] # w
  PROVE  Known(n)' <=> Known(n)
  BY KnownRow DEF Known

LEMMA OthersStayKnownUnlocked ==
  ASSUME IInv, NEW w \in Workers, Unlock(w),
         \A u \in Workers \ {w} : step'[u] = step[u],
         NEW n \in Messages, lock[n] # w
  PROVE  Known(n)' <=> Known(n)
  <1>1. lock'[n] = lock[n]
    BY DEF Unlock
  <1> QED
    BY <1>1, KnownRow DEF Known

LEMMA UnlockedIsUnknown ==
  ASSUME NEW w \in Workers, Unlock(w), NEW n \in Messages, lock[n] = w
  PROVE  ~Known(n)'
  BY NobodyIsNoWorker DEF Unlock, Known

LEMMA TakesDelivers ==
  ASSUME IInv, NEW w \in Workers, GatewayTakes(w)
  PROVE  Deliver!Next
  <1> USE DEF GatewayTakes
  <1>1. PICK m \in Messages : m = item[w]
    BY InHand
  <1>2. /\ status' = status /\ lock' = lock /\ step'[w] = "taken"
        /\ \A u \in Workers \ {w} : step'[u] = step[u]
    BY DEF IInv, TypeOK, row
  <1>3. \A n \in Messages \ {m} : Known(n)' <=> Known(n)
    BY <1>1, <1>2, OneRow, OthersStayKnown
  <1>4. accepted' = [accepted EXCEPT ![m] = @ + 1]
    BY <1>1
  <1>5. CASE lock[m] = w
    <2>1. status[m] = "sending" /\ ~Known(m) /\ Known(m)'
      BY <1>1, <1>2, <1>5, KnownRow, NobodyIsNoWorker DEF Known
    <2>2. DeliveryState(m) = "open" /\ DeliveryState(m)' = "told"
      BY <1>1, <1>2, <2>1, DeliveryStates, DeliveryStatesNext DEF Pending
    <2>3. \A n \in Messages \ {m} : DeliveryState(n)' = DeliveryState(n)
      BY <1>2, <1>3, DeliveryStates, DeliveryStatesNext
    <2>4. States' = [States EXCEPT ![m] = "told"] /\ States[m] = "open"
      BY <1>1, <2>2, <2>3 DEF States
    <2>5. unrecorded' = unrecorded
      BY <1>1, <1>5 DEF LoseIf, HoldsLock
    <2>6. Deliver!Take(m)
      BY <1>4, <2>4, <2>5 DEF Deliver!Take, States
    <2> QED
      BY <1>1, <2>6 DEF Deliver!Next
  <1>6. CASE lock[m] # w
    <2>1. \A n \in Messages : Known(n)' <=> Known(n)
      BY <1>2, <1>3, <1>6, OthersStayKnown
    <2>2. \A n \in Messages : DeliveryState(n)' = DeliveryState(n)
      BY <1>2, <2>1, DeliveryStates, DeliveryStatesNext
    <2>3. States' = States
      BY <2>2 DEF States
    <2>4. unrecorded' = [unrecorded EXCEPT ![m] = @ + 1]
      BY <1>1, <1>6 DEF LoseIf, HoldsLock, Lose
    <2>5. Deliver!Stray(m)
      BY <1>4, <2>3, <2>4 DEF Deliver!Stray, States
    <2> QED
      BY <1>1, <2>5 DEF Deliver!Next
  <1> QED
    BY <1>5, <1>6

(* w lets go of its row, or learns that the call has failed, without a result *)
(* in the table: what it knew is lost.                                        *)
LEMMA LossDelivers ==
  ASSUME IInv, NEW w \in Workers, step[w] # "idle",
         UNCHANGED <<status, accepted>>,
         \A u \in Workers \ {w} : step'[u] = step[u],
         Unlock(w) \/ (lock' = lock /\ step'[w] \notin {"taken", "ok"}),
         LoseIf(step[w] \in {"taken", "ok"} /\ HoldsLock(w), item[w])
  PROVE  Deliver!Next
  <1>1. PICK m \in Messages : m = item[w]
    BY InHand
  <1>2. \A n \in Messages \ {m} : Known(n)' <=> Known(n)
    BY <1>1, OneRow, OthersStayKnown, OthersStayKnownUnlocked
  <1>3. lock[m] = w => ~Known(m)'
    BY <1>1, UnlockedIsUnknown DEF Known
  <1>4. CASE step[w] \in {"taken", "ok"} /\ lock[m] = w
    <2>1. Known(m)
      BY <1>4, NobodyIsNoWorker DEF Known
    <2>2. Lose(m)
      BY <1>1, <1>4 DEF LoseIf, HoldsLock
    <2> QED
      BY <1>1, <1>2, <1>3, <1>4, <2>1, <2>2, ResultIsForgotten
  <1>5. CASE ~(step[w] \in {"taken", "ok"} /\ lock[m] = w)
    <2>1. unrecorded' = unrecorded
      BY <1>1, <1>5 DEF LoseIf, HoldsLock
    <2>2. Known(m)' <=> Known(m)
      <3>1. CASE lock[m] = w
        BY <1>3, <1>5, <3>1 DEF Known
      <3>2. CASE lock[m] # w
        BY <1>1, <3>2, OthersStayKnown, OthersStayKnownUnlocked
      <3> QED
        BY <3>1, <3>2
    <2> QED
      BY <1>2, <2>1, <2>2, RowsAreDecided
  <1> QED
    BY <1>4, <1>5

LEMMA ResultDelivers ==
  ASSUME IInv, NEW w \in Workers, RecordResult(w)
  PROVE  Deliver!Next
  <1> USE DEF RecordResult, HoldsLock
  <1>1. PICK m \in Messages : m = item[w]
    BY InHand
  <1>2. lock[m] = w /\ Owns(w) /\ status[m] = "sending"
    BY <1>1 DEF IInv, DispatchHoldsClaim, Owns
  <1>3. /\ status' = [status EXCEPT ![m] = IF step[w] = "ok" THEN "sent" ELSE "failed"]
        /\ UNCHANGED <<accepted, unrecorded>>
        /\ \A u \in Workers \ {w} : step'[u] = step[u]
    BY <1>1, <1>2 DEF Record, Rest, history, IInv, TypeOK
  <1>4. \A n \in Messages \ {m} : Known(n)' <=> Known(n)
    BY <1>1, <1>3, OneRow, OthersStayKnownUnlocked
  <1>5. ~Known(m)'
    BY <1>1, <1>2, UnlockedIsUnknown
  <1>6. CASE step[w] = "ok"
    <2>1. Known(m)
      BY <1>2, <1>6, NobodyIsNoWorker DEF Known
    <2>2. DeliveryState(m) = "told" /\ DeliveryState(m)' = "sent"
      BY <1>1, <1>2, <1>3, <1>6, <2>1, DeliveryStates, DeliveryStatesNext DEF IInv, TypeOK
    <2>3. \A n \in Messages \ {m} : DeliveryState(n)' = DeliveryState(n)
      BY <1>3, <1>4, DeliveryStates, DeliveryStatesNext DEF IInv, TypeOK
    <2>4. States' = [States EXCEPT ![m] = "sent"] /\ States[m] = "told"
      BY <1>1, <2>2, <2>3 DEF States
    <2>5. Deliver!Settle(m)
      BY <1>3, <2>4 DEF Deliver!Settle, States
    <2> QED
      BY <1>1, <2>5 DEF Deliver!Next
  <1>7. CASE step[w] = "refused"
    <2>1. ~Known(m)
      BY <1>2, <1>7 DEF Known
    <2>2. \A n \in Messages : Known(n)' <=> Known(n)
      BY <1>4, <1>5, <2>1
    <2>3. \A n \in Messages :
            \/ status'[n] = status[n]
            \/ ~Known(n) /\ status[n] # "sent" /\ status'[n] # "sent"
      BY <1>1, <1>2, <1>3, <1>7, <2>1 DEF IInv, TypeOK
    <2> QED
      BY <1>3, <2>2, <2>3, RowsAreDecided
  <1> QED
    BY <1>6, <1>7
(* A worker with a claim, or none, holds no lock: its steps leave what is known. *)
LEMMA ClaimsDeliver ==
  ASSUME IInv, NEW w \in Workers,
         \/ FailExpiredClaims(w) \/ (\E m \in Messages : Claim(w, m))
         \/ (\E s \in {"failed", "cancelled", "logged"} : SettleClaim(w, s))
         \/ BeginDispatch(w) \/ AbandonClaim(w)
  PROVE  Deliver!Next
  <1> USE DEF IInv, TypeOK, row, worker, history
  <1>1. step[w] \in {"idle", "claimed"} /\ \A n \in Messages : lock[n] # w
    BY DEF FailExpiredClaims, Claim, SettleClaim, BeginDispatch, AbandonClaim, DispatchHoldsClaim
  <1>2. /\ UNCHANGED <<accepted, unrecorded>>
        /\ \A u \in Workers \ {w} : step'[u] = step[u]
    BY DEF FailExpiredClaims, Claim, SettleClaim, BeginDispatch, AbandonClaim, Rest
  <1>3. CASE lock' = lock
    <2>1. \A n \in Messages : Known(n)' <=> Known(n)
      BY <1>1, <1>2, <1>3, OthersStayKnown
    <2>2. \A n \in Messages :
            \/ status'[n] = status[n]
            \/ ~Known(n) /\ status[n] # "sent" /\ status'[n] # "sent"
      <3>1. CASE FailExpiredClaims(w)
        BY <3>1 DEF FailExpiredClaims, Known
      <3>2. CASE \E m \in Messages : Claim(w, m)
        BY <3>2 DEF Claim, Claimable, Pending, Known
      <3>3. CASE \E s \in {"failed", "cancelled", "logged"} : SettleClaim(w, s)
        BY <3>3, InHand DEF SettleClaim, Owns, Record, Known
      <3>4. CASE BeginDispatch(w) \/ AbandonClaim(w)
        BY <3>4 DEF BeginDispatch, AbandonClaim
      <3> QED
        BY <3>1, <3>2, <3>3, <3>4
    <2> QED
      BY <1>2, <2>1, <2>2, RowsAreDecided
  <1>4. CASE lock' # lock
    <2>1. PICK m \in Messages : m = item[w]
      BY <1>4, InHand
      DEF BeginDispatch, FailExpiredClaims, Claim, SettleClaim, AbandonClaim
    <2>2. /\ status' = status /\ lock[m] = Nobody /\ lock' = [lock EXCEPT ![m] = w]
          /\ step'[w] = "calling"
      BY <1>4, <2>1 DEF BeginDispatch, FailExpiredClaims, Claim, SettleClaim, AbandonClaim
    <2>3. ~Known(m) /\ ~Known(m)'
      BY <2>2 DEF Known
    <2>4. ASSUME NEW n \in Messages \ {m} PROVE Known(n)' <=> Known(n)
      BY <1>1, <1>2, <2>2, KnownRow DEF Known
    <2> QED
      BY <1>2, <2>2, <2>3, <2>4, RowsAreDecided
  <1> QED
    BY <1>3, <1>4

LEMMA CallsDeliver ==
  ASSUME IInv, NEW w \in Workers,
         \/ GatewayTakes(w) \/ GatewayConfirms(w) \/ GatewayFails(w)
         \/ RecordResult(w) \/ LoseResult(w) \/ LoseSession(w) \/ WorkerStops(w)
  PROVE  Deliver!Next
  <1> USE DEF IInv, TypeOK, row, worker, history
  <1>1. CASE GatewayTakes(w) \/ RecordResult(w)
    BY <1>1, TakesDelivers, ResultDelivers
  <1>2. CASE GatewayConfirms(w)
    <2>1. /\ UNCHANGED <<status, lock, accepted, unrecorded>>
          /\ step' = [step EXCEPT ![w] = "ok"] /\ step[w] = "taken"
      BY <1>2 DEF GatewayConfirms
    <2>2. \A n \in Messages : Known(n)' <=> Known(n)
      BY <2>1 DEF Known
    <2> QED
      BY <2>1, <2>2, RowsAreDecided
  <1> DEFINE Loss ==
        /\ step[w] # "idle" /\ UNCHANGED <<status, accepted>>
        /\ \A u \in Workers \ {w} : step'[u] = step[u]
        /\ Unlock(w) \/ (lock' = lock /\ step'[w] \notin {"taken", "ok"})
        /\ LoseIf(step[w] \in {"taken", "ok"} /\ HoldsLock(w), item[w])
  <1>3. Loss => Deliver!Next
    BY LossDelivers
  <1>4. CASE GatewayFails(w)
    <2>1. Loss
      BY <1>4 DEF GatewayFails, LoseIf
    <2> QED
      BY <1>3, <2>1
  <1>5. CASE LoseResult(w)
    <2>1. Loss
      BY <1>5 DEF LoseResult, LoseIf, Rest
    <2> QED
      BY <1>3, <2>1
  <1>6. CASE LoseSession(w)
    <2>1. Loss
      BY <1>6 DEF LoseSession, LoseIf
    <2> QED
      BY <1>3, <2>1
  <1>7. CASE WorkerStops(w)
    <2>1. Loss
      BY <1>7 DEF WorkerStops, LoseIf, Rest
    <2> QED
      BY <1>3, <2>1
  <1> QED
    BY <1>1, <1>2, <1>4, <1>5, <1>6, <1>7

(* Rows nobody has locked change, and none of them is or becomes sent. *)
LEMMA RowsDeliver ==
  ASSUME IInv, UNCHANGED <<lock, worker, accepted, unrecorded>>,
         \A m \in Messages :
           \/ status'[m] = status[m]
           \/ lock[m] = Nobody /\ status[m] # "sent" /\ status'[m] # "sent"
  PROVE  Deliver!Next
  <1>1. \A m \in Messages : Known(m)' <=> Known(m)
    BY DEF Known, worker
  <1> QED
    BY <1>1, RowsAreDecided DEF Known

LEMMA EventDelivers ==
  ASSUME IInv, NEW m \in Messages, Event(m)
  PROVE  Deliver!Next
  <1>1. status[m] \in {"absent", "drafted"} => lock[m] = Nobody
    BY KnownRow
  <1>2. \A n \in Messages :
          \/ status'[n] = status[n]
          \/ lock[n] = Nobody /\ status[n] # "sent" /\ status'[n] # "sent"
    BY <1>1 DEF Event, Draft, Insert, FallDue, IInv, TypeOK
  <1> QED
    BY <1>2, RowsDeliver DEF Event, Draft, Insert, FallDue, history

LEMMA ReplaceDelivers ==
  ASSUME IInv, NEW M \in SUBSET Messages, NEW N, Replace(M, N), UNCHANGED <<lock, worker, history>>,
         \A m \in N : status[m] = "absent"
  PROVE  Deliver!Next
  <1>1. ASSUME NEW m \in Messages
        PROVE  \/ status'[m] = status[m]
               \/ lock[m] = Nobody /\ status[m] # "sent" /\ status'[m] # "sent"
    <2>1. m \in N => lock[m] = Nobody
      BY KnownRow
    <2> QED
      BY <2>1 DEF Replace, Withdrawn, Pending
  <1> QED
    BY <1>1, RowsDeliver DEF history

LEMMA RequeueDelivers ==
  ASSUME IInv, NEW M \in SUBSET Messages, NEW drop, Requeue(M, drop),
         \A m \in M : status[m] \in {"queued", "failed", "sending", "cancelled"}
  PROVE  Deliver!Next
  <1>1. ASSUME NEW m \in Messages
        PROVE  \/ status'[m] = status[m]
               \/ lock[m] = Nobody /\ status[m] # "sent" /\ status'[m] # "sent"
    BY DEF Requeue
  <1> QED
    BY <1>1, RowsDeliver DEF Requeue

LEMMA NextDelivers == IInv /\ [Next]_vars => Deliver!Next
  <1> SUFFICES ASSUME IInv, [Next]_vars PROVE Deliver!Next
    OBVIOUS
  <1>1. ASSUME NEW w \in Workers, Work(w) \/ LoseSession(w) \/ WorkerStops(w)
        PROVE  Deliver!Next
    BY <1>1, ClaimsDeliver, CallsDeliver DEF Work
  <1>2. ASSUME NEW m \in Messages, Event(m) PROVE Deliver!Next
    BY <1>2, EventDelivers
  <1>3. ASSUME NEW M \in Groups, WithdrawGroup(M) PROVE Deliver!Next
    BY <1>3, ReplaceDelivers, QueueAssumption DEF QueueAssumption, WithdrawGroup, Withdraw
  <1>4. ASSUME NEW M \in Groups, NEW N, Resend(M, N) PROVE Deliver!Next
    BY <1>4, ReplaceDelivers, QueueAssumption DEF QueueAssumption, Resend
  <1>5. ASSUME NEW M \in Groups, NEW drop \in SUBSET M, RefreshGroup(M, drop) PROVE Deliver!Next
    BY <1>5, RequeueDelivers DEF RefreshGroup, OfRules
  <1>6. ASSUME UNCHANGED <<row, lock, worker, history>> PROVE Deliver!Next
    BY <1>6, RowsDeliver DEF row, history
  <1>7. ASSUME Administration PROVE Deliver!Next
    <2>1. ASSUME NEW m \in Messages, CancelNotification(m) PROVE Deliver!Next
      BY <2>1, ReplaceDelivers DEF CancelNotification, Withdraw
    <2>2. ASSUME NEW m \in Messages, RetryNotification(m) PROVE Deliver!Next
      BY <2>2, RequeueDelivers DEF RetryNotification, Retryable
    <2>3. ASSUME RetryPicked PROVE Deliver!Next
      BY <1>6, <2>3, RequeueDelivers DEF RetryPicked, Retryable
    <2>4. ASSUME NEW R, NEW enabled, SaveRules(R, enabled) PROVE Deliver!Next
      BY <2>4, ReplaceDelivers DEF SaveRules, OfRules, Withdraw
    <2>5. ASSUME NEW r \in Rules, DeleteRule(r) PROVE Deliver!Next
      BY <2>5, ReplaceDelivers DEF DeleteRule, OfRules, Withdraw
    <2>6. ASSUME NEW r \in Rules, NEW drop, RefreshRule(r, drop) PROVE Deliver!Next
      BY <2>6, RequeueDelivers DEF RefreshRule, OfRules, Withdrawn, Pending
    <2>7. ASSUME PickFailed PROVE Deliver!Next
      BY <1>6, <2>7 DEF PickFailed
    <2>8. ASSUME NEW r, NEW enabled, CreateRule(r, enabled) PROVE Deliver!Next
      BY <1>6, <2>8 DEF CreateRule
    <2> QED
      BY ONLY <1>7, <2>1, <2>2, <2>3, <2>4, <2>5, <2>6, <2>7, <2>8 DEF Administration, StopAPI
  <1>8. CASE UNCHANGED vars
    BY <1>6, <1>8 DEF vars
  <1> QED
    BY <1>1, <1>2, <1>3, <1>4, <1>5, <1>7, <1>8 DEF Next

(* Seen from the gateway every row is delivered as Delivery says, for any    *)
(* number of workers, rules and messages, whatever is withdrawn or lost.     *)
THEOREM DeliveryImplemented == Spec => ImplementsDelivery
  <1>1. Init => Deliver!Init
    BY QueueAssumption DEF QueueAssumption, Init, Deliver!Init, DeliveryState, Told, Pending
  <1> QED
    BY <1>1, QueueAgrees, NextDelivers, PTL DEF Spec, ImplementsDelivery, Deliver!Spec

-----------------------------------------------------------------------------
(* What Delivery promises. *)

DeliveryType == accepted \in [Messages -> Nat] /\ unrecorded \in [Messages -> Nat]

LEMMA DeliveryStep ==
  ASSUME DeliveryType, Deliver!TakenIsTold, [Deliver!Next]_(Deliver!vars)
  PROVE  DeliveryType' /\ Deliver!TakenIsTold'
  <1> USE DEF DeliveryType
  <1> DEFINE Counted(n) ==
        accepted[n] = unrecorded[n] + (IF DeliveryState(n) \in {"told", "sent"} THEN 1 ELSE 0)
  <1>1. \A n \in Messages : Counted(n)
    BY DEF Deliver!TakenIsTold
  <1> SUFFICES DeliveryType' /\ \A n \in Messages : Counted(n)'
    BY DEF Deliver!TakenIsTold
  <1>2. ASSUME NEW n \in Messages, DeliveryState(n)' = DeliveryState(n),
               accepted'[n] = accepted[n], unrecorded'[n] = unrecorded[n]
        PROVE  Counted(n)'
    BY <1>1, <1>2
  <1>3. ASSUME NEW O, NEW Q, Deliver!Decide(O, Q)
        PROVE  DeliveryType' /\ \A n \in Messages : Counted(n)'
    <2>1. ASSUME NEW n \in Messages
          PROVE  \/ DeliveryState(n)' = DeliveryState(n)
                 \/ DeliveryState(n) \in {"quiet", "open"} /\ DeliveryState(n)' \in {"quiet", "open"}
      BY <1>3 DEF Deliver!Decide
    <2> QED
      BY <1>1, <1>3, <2>1 DEF Deliver!Decide
  <1>4. ASSUME NEW m \in Messages, Deliver!Take(m)
        PROVE  DeliveryType' /\ \A n \in Messages : Counted(n)'
    <2>1. /\ DeliveryState(m) = "open" /\ DeliveryState(m)' = "told"
          /\ accepted'[m] = accepted[m] + 1 /\ unrecorded'[m] = unrecorded[m] /\ DeliveryType'
      BY <1>4 DEF Deliver!Take
    <2>2. Counted(m)'
      BY <1>1, <2>1
    <2>3. \A n \in Messages \ {m} : /\ DeliveryState(n)' = DeliveryState(n)
                                    /\ accepted'[n] = accepted[n] /\ unrecorded'[n] = unrecorded[n]
      BY <1>4 DEF Deliver!Take
    <2> QED
      BY <1>2, <2>1, <2>2, <2>3
  <1>5. ASSUME NEW m \in Messages, Deliver!Settle(m)
        PROVE  DeliveryType' /\ \A n \in Messages : Counted(n)'
    BY <1>1, <1>5 DEF Deliver!Settle
  <1>6. ASSUME NEW m \in Messages, Deliver!Forget(m)
        PROVE  DeliveryType' /\ \A n \in Messages : Counted(n)'
    <2>1. /\ DeliveryState(m) = "told" /\ DeliveryState(m)' = "open"
          /\ accepted'[m] = accepted[m] /\ unrecorded'[m] = unrecorded[m] + 1 /\ DeliveryType'
      BY <1>6 DEF Deliver!Forget
    <2>2. Counted(m)'
      BY <1>1, <2>1
    <2>3. \A n \in Messages \ {m} : /\ DeliveryState(n)' = DeliveryState(n)
                                    /\ accepted'[n] = accepted[n] /\ unrecorded'[n] = unrecorded[n]
      BY <1>6 DEF Deliver!Forget
    <2> QED
      BY <1>2, <2>1, <2>2, <2>3
  <1>7. ASSUME NEW m \in Messages, Deliver!Stray(m)
        PROVE  DeliveryType' /\ \A n \in Messages : Counted(n)'
    BY <1>1, <1>7 DEF Deliver!Stray
  <1>8. CASE UNCHANGED Deliver!vars
    BY <1>1, <1>8 DEF Deliver!vars
  <1> QED
    BY <1>3, <1>4, <1>5, <1>6, <1>7, <1>8 DEF Deliver!Next

(* Every time the gateway took a message a row tells of it, or it is among    *)
(* the results that were lost: "sent" is never said of what was not taken.    *)
THEOREM TakenIsToldOrLost == Spec => [](Deliver!TakenIsTold)
  <1>1. Deliver!Init => DeliveryType /\ Deliver!TakenIsTold
    BY DEF Deliver!Init, DeliveryType, Deliver!TakenIsTold
  <1>2. Deliver!Spec => [](Deliver!TakenIsTold)
    BY <1>1, DeliveryStep, PTL DEF Deliver!Spec
  <1> QED
    BY <1>2, DeliveryImplemented, PTL DEF ImplementsDelivery
=============================================================================
