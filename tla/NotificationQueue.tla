------------------------- MODULE NotificationQueue -------------------------
(***************************************************************************)
(* The delivery of notifications: the rows of the table notifications, the *)
(* workers that claim them, call the gateway and record what it answered   *)
(* (internal/app/background.go), and everybody who withdraws, refreshes or *)
(* retries a message meanwhile (visits.go, visits_ops.go,                  *)
(* notification_config.go, notifications_admin.go).                        *)
(*                                                                         *)
(* A worker is the notification loop of one server process.  Its claim and *)
(* its dispatch are separate transactions; the dispatch holds the lock of  *)
(* the row while it calls the gateway.  The contents of a message, its     *)
(* channel and the gateway's address are left out.                         *)
(***************************************************************************)
EXTENDS Integers

CONSTANTS
  Messages,      \* rows of notifications that may come to exist
  Rules,         \* rows of notification_rules
  RuleOf,        \* notifications.rule_id, or NoRule
  Timed,         \* the rules whose event is visit_start
  Groups,        \* the sets of rows one handler's WHERE clause selects
  Workers,       \* server processes
  NoRule, Nobody,
  MaxAttempts,   \* 5 in the code
  MaxLosses,     \* bound: results that get lost, for each message
  MaxRenewals    \* bound: retries and refreshes, in all

ASSUME QueueAssumption ==
  /\ RuleOf \in [Messages -> Rules \cup {NoRule}]
  /\ NoRule \notin Rules
  /\ Nobody \notin Workers \cup Messages
  /\ Timed \subseteq Rules
  /\ Groups \subseteq SUBSET Messages
  /\ MaxAttempts \in Nat \ {0}
  /\ MaxLosses \in Nat
  /\ MaxRenewals \in Nat

VARIABLES
  rule,        \* notification_rules.enabled, or the row is not there yet or any more
  status,      \* notifications.status
  attempts,    \* notifications.attempts
  token,       \* notifications.claim_token: the worker it was made by
  due,         \* next_attempt_at has come, or the two minutes of a claim are over
  lock,        \* the dispatch that holds the row lock
  step, item,  \* where each worker is, and the message it holds
  picked,      \* ids retryFailedNotifications has read
  renewals,    \* retries and refreshes so far, up to MaxRenewals
  calls,       \* history: gateway calls since the message was last queued
  accepted,    \* history: how often the gateway took the message
  unrecorded   \* history: how many of these the row will never tell

row == <<status, attempts, token, due>>
worker == <<step, item>>
history == <<calls, accepted, unrecorded>>
vars == <<rule, row, lock, worker, picked, renewals, history>>

-----------------------------------------------------------------------------

(* "absent" and "drafted" are not in the table: in "drafted" the event's      *)
(* transaction has read the enabled rules and has not inserted the row yet.   *)
Status == {"absent", "drafted", "queued", "sending", "sent", "logged", "failed", "cancelled"}
Pending == {"queued", "failed", "sending"}
Step == {"idle", "claimed", "calling", "taken", "ok", "refused"}

RuleState(m) == IF RuleOf[m] = NoRule THEN "on" ELSE rule[RuleOf[m]]

(* rule_id IS NULL or the rule is enabled; deleting a rule nulls rule_id. *)
Stopped(m) == RuleState(m) = "off"
OfRules(R) == {m \in Messages : RuleOf[m] \in R}

Refund(n) == IF n = 0 THEN 0 ELSE n - 1

(* Mutant: the row a dispatch has locked is not skipped. *)
ClaimableLocked(m) ==
  status[m] \in Pending /\ due[m] /\ attempts[m] < MaxAttempts /\ ~ Stopped(m)

(* Mutant: only the messages that wait are claimed, not the abandoned ones. *)
ClaimableWaiting(m) ==
  /\ status[m] \in {"queued", "failed"} /\ due[m] /\ attempts[m] < MaxAttempts
  /\ ~ Stopped(m) /\ lock[m] = Nobody

(* Mutant: one attempt too many. *)
ClaimableOnceMore(m) ==
  /\ status[m] \in Pending /\ due[m] /\ attempts[m] <= MaxAttempts
  /\ ~ Stopped(m) /\ lock[m] = Nobody

(* The candidates of claimNotification: a due message, or one whose claim has *)
(* expired; a row somebody has locked is skipped.                             *)
Claimable(m) ==
  /\ status[m] \in Pending /\ due[m] /\ attempts[m] < MaxAttempts
  /\ ~ Stopped(m) /\ lock[m] = Nobody

(* Mutant: any row being sent is taken for one's own. *)
OwnsAnyClaim(w) == status[item[w]] = "sending"

(* status='sending' AND claim_token=$2 *)
Owns(w) == status[item[w]] = "sending" /\ token[item[w]] = w

Init ==
  /\ rule \in [Rules -> {"on", "off", "absent"}]
  /\ status = [m \in Messages |-> "absent"]
  /\ attempts = [m \in Messages |-> 0]
  /\ token = [m \in Messages |-> Nobody]
  /\ due = [m \in Messages |-> FALSE]
  /\ lock = [m \in Messages |-> Nobody]
  /\ step = [w \in Workers |-> "idle"]
  /\ item = [w \in Workers |-> Nobody]
  /\ picked = {} /\ renewals = 0
  /\ calls = [m \in Messages |-> 0]
  /\ accepted = [m \in Messages |-> 0]
  /\ unrecorded = [m \in Messages |-> 0]

-----------------------------------------------------------------------------
(* Events. *)

(* The transaction of a visit event reads the enabled rules ... *)
Draft(m) ==
  /\ status[m] = "absent"
  /\ RuleState(m) = "on"
  /\ status' = [status EXCEPT ![m] = "drafted"]
  /\ UNCHANGED <<rule, attempts, token, due, lock, worker, picked, renewals, history>>

(* ... and inserts a row for each; the foreign key makes the transaction      *)
(* fail when the rule has been deleted in between.                            *)
Insert(m) ==
  /\ status[m] = "drafted"
  /\ status' = [status EXCEPT ![m] = IF RuleState(m) = "deleted" THEN "absent" ELSE "queued"]
  /\ UNCHANGED <<rule, attempts, token, due, lock, worker, picked, renewals, history>>

(* The scheduled time comes, the back-off ends, or a claim is two minutes old. *)
FallDue(m) ==
  /\ status[m] \in Pending /\ ~ due[m]
  /\ due' = [due EXCEPT ![m] = TRUE]
  /\ UNCHANGED <<rule, status, attempts, token, lock, worker, picked, renewals, history>>

-----------------------------------------------------------------------------
(* The worker: processNotifications. *)

(* Claims whose worker never came back and that were the last attempt. *)
FailExpiredClaims(w) ==
  LET M == {m \in Messages : status[m] = "sending" /\ attempts[m] >= MaxAttempts /\ due[m]}
  IN  /\ step[w] = "idle"
      /\ M # {} /\ \A m \in M : lock[m] = Nobody
      /\ status' = [m \in Messages |-> IF m \in M THEN "failed" ELSE status[m]]
      /\ token' = [m \in Messages |-> IF m \in M THEN Nobody ELSE token[m]]
      /\ UNCHANGED <<rule, attempts, due, lock, worker, picked, renewals, history>>

Claim(w, m) ==
  /\ step[w] = "idle" /\ Claimable(m)
  /\ status' = [status EXCEPT ![m] = "sending"]
  /\ attempts' = [attempts EXCEPT ![m] = @ + 1]
  /\ token' = [token EXCEPT ![m] = w]
  /\ due' = [due EXCEPT ![m] = FALSE]
  /\ step' = [step EXCEPT ![w] = "claimed"]
  /\ item' = [item EXCEPT ![w] = m]
  /\ UNCHANGED <<rule, lock, picked, renewals, history>>

Rest(w) ==
  /\ step' = [step EXCEPT ![w] = "idle"]
  /\ item' = [item EXCEPT ![w] = Nobody]

(* Mutant: the claim stays on the row it is over for. *)
RecordKeepsToken(m, s) ==
  /\ status' = [status EXCEPT ![m] = s]
  /\ attempts' = [attempts EXCEPT ![m] = IF s = "cancelled" THEN Refund(@) ELSE @]
  /\ due' = [due EXCEPT ![m] = FALSE]
  /\ UNCHANGED token

(* The row m leaves the claim with status s. *)
Record(m, s) ==
  /\ status' = [status EXCEPT ![m] = s]
  /\ attempts' = [attempts EXCEPT ![m] = IF s = "cancelled" THEN Refund(@) ELSE @]
  /\ token' = [token EXCEPT ![m] = Nobody]
  /\ due' = [due EXCEPT ![m] = FALSE]

(* The message ends without a call: it cannot be decrypted or configured      *)
(* (failed), mail or API is switched off (cancelled), the provider is the log *)
(* (logged).  The row changes only under the worker's own claim.              *)
SettleClaim(w, s) ==
  /\ step[w] = "claimed"
  /\ IF Owns(w) THEN lock[item[w]] = Nobody /\ Record(item[w], s) ELSE UNCHANGED row
  /\ Rest(w)
  /\ UNCHANGED <<rule, lock, picked, renewals, history>>

(* Mutant: the row is locked, and the claim is not looked at again. *)
BeginDispatchUnchecked(w) ==
  LET m == item[w]
  IN  /\ step[w] = "claimed" /\ lock[m] = Nobody
      /\ lock' = [lock EXCEPT ![m] = w]
      /\ calls' = [calls EXCEPT ![m] = @ + 1]
      /\ step' = [step EXCEPT ![w] = "calling"]
      /\ UNCHANGED <<rule, row, item, picked, renewals, accepted, unrecorded>>

(* dispatchClaimedNotification locks the row, or finds that the claim is gone. *)
BeginDispatch(w) ==
  LET m == item[w]
  IN  /\ step[w] = "claimed"
      /\ IF Owns(w)
         THEN /\ lock[m] = Nobody
              /\ lock' = [lock EXCEPT ![m] = w]
              /\ calls' = [calls EXCEPT ![m] = @ + 1]
              /\ step' = [step EXCEPT ![w] = "calling"]
              /\ UNCHANGED item
         ELSE Rest(w) /\ UNCHANGED <<lock, calls>>
      /\ UNCHANGED <<rule, row, picked, renewals, accepted, unrecorded>>

(* No transaction, no lock within five seconds, or the update failed. *)
AbandonClaim(w) ==
  /\ step[w] = "claimed"
  /\ Rest(w)
  /\ UNCHANGED <<rule, row, lock, picked, renewals, history>>

-----------------------------------------------------------------------------
(* The gateway call, and what can go wrong with it. *)

HoldsLock(w) == lock[item[w]] = w

(* An acceptance of m the row will never tell of. *)
Lose(m) ==
  /\ unrecorded[m] < MaxLosses
  /\ unrecorded' = [unrecorded EXCEPT ![m] = @ + 1]

LoseIf(lost, m) == IF lost THEN Lose(m) ELSE UNCHANGED unrecorded

GatewayTakes(w) ==
  LET m == item[w]
  IN  /\ step[w] = "calling"
      /\ step' = [step EXCEPT ![w] = "taken"]
      /\ accepted' = [accepted EXCEPT ![m] = @ + 1]
      /\ LoseIf(~ HoldsLock(w), m)
      /\ UNCHANGED <<rule, row, lock, item, picked, renewals, calls>>

GatewayConfirms(w) ==
  /\ step[w] = "taken"
  /\ step' = [step EXCEPT ![w] = "ok"]
  /\ UNCHANGED <<rule, row, lock, item, picked, renewals, history>>

(* The gateway refuses, or its answer comes too late. *)
GatewayFails(w) ==
  /\ step[w] \in {"calling", "taken"}
  /\ step' = [step EXCEPT ![w] = "refused"]
  /\ LoseIf(step[w] = "taken" /\ HoldsLock(w), item[w])
  /\ UNCHANGED <<rule, row, lock, item, picked, renewals, calls, accepted>>

Unlock(w) == lock' = [m \in Messages |-> IF lock[m] = w THEN Nobody ELSE lock[m]]

(* The result is written and the dispatch commits. *)
RecordResult(w) ==
  /\ step[w] \in {"ok", "refused"} /\ HoldsLock(w)
  /\ IF Owns(w)
     THEN Record(item[w], IF step[w] = "ok" THEN "sent" ELSE "failed")
     ELSE UNCHANGED row
  /\ Unlock(w) /\ Rest(w)
  /\ UNCHANGED <<rule, picked, renewals, history>>

(* The result update or the commit fails: the dispatch is rolled back. *)
LoseResult(w) ==
  /\ step[w] \in {"ok", "refused"}
  /\ LoseIf(step[w] = "ok" /\ HoldsLock(w), item[w])
  /\ Unlock(w) /\ Rest(w)
  /\ UNCHANGED <<rule, row, picked, renewals, calls, accepted>>

(* The database ends the session, and with it the lock, during the call. *)
LoseSession(w) ==
  /\ step[w] \in {"calling", "taken"} /\ HoldsLock(w)
  /\ LoseIf(step[w] = "taken", item[w])
  /\ Unlock(w)
  /\ UNCHANGED <<rule, row, worker, picked, renewals, calls, accepted>>

(* The process ends; it starts again with an empty hand. *)
WorkerStops(w) ==
  /\ step[w] # "idle"
  /\ LoseIf(step[w] \in {"taken", "ok"} /\ HoldsLock(w), item[w])
  /\ Unlock(w) /\ Rest(w)
  /\ UNCHANGED <<rule, row, picked, renewals, calls, accepted>>

-----------------------------------------------------------------------------
(* Withdrawals, refreshes and retries.  Each is an UPDATE that waits for the  *)
(* rows a dispatch has locked and looks at their status again afterwards.     *)

Withdrawn(M) == {m \in M : status[m] \in Pending}

(* Pending rows of M are cancelled, a claim that was not used is given back;  *)
(* the events N have read their rules.                                       *)
Replace(M, N) ==
  LET P == Withdrawn(M)
  IN  /\ \A m \in P : lock[m] = Nobody
      /\ status' = [m \in Messages |->
           IF m \in P THEN "cancelled" ELSE IF m \in N THEN "drafted" ELSE status[m]]
      /\ attempts' = [m \in Messages |->
           IF m \in P /\ status[m] = "sending" THEN Refund(attempts[m]) ELSE attempts[m]]
      /\ token' = [m \in Messages |-> IF m \in P THEN Nobody ELSE token[m]]
      /\ UNCHANGED due

Withdraw(M) == Replace(M, {})

(* A visit or one visitor of it is cancelled, a pass is reissued. *)
WithdrawGroup(M) ==
  /\ Withdrawn(M) # {}
  /\ Withdraw(M)
  /\ UNCHANGED <<rule, lock, worker, picked, renewals, history>>

(* The notice of a visit is sent again: resendVisitNotification withdraws it  *)
(* and is an event of its own for each visitor with a valid pass.             *)
Resend(M, N) ==
  /\ Withdrawn(M) \cup N # {}
  /\ \A m \in N : status[m] = "absent" /\ RuleState(m) = "on"
  /\ Replace(M, N)
  /\ UNCHANGED <<rule, lock, worker, picked, renewals, history>>

CancelNotification(m) ==
  /\ status[m] \in {"queued", "failed"}
  /\ Withdraw({m})
  /\ UNCHANGED <<rule, lock, worker, picked, renewals, history>>

Renew == renewals < MaxRenewals /\ renewals' = renewals + 1

(* The rows M are queued with all attempts before them, except those of drop, *)
(* which no longer fit the visit or the rule and are cancelled.               *)
Requeue(M, drop) ==
  /\ \A m \in M : lock[m] = Nobody
  /\ status' = [m \in Messages |->
       IF m \in M \cap drop THEN "cancelled" ELSE IF m \in M THEN "queued" ELSE status[m]]
  /\ attempts' = [m \in Messages |->
       IF m \notin M THEN attempts[m]
       ELSE IF m \notin drop THEN 0
       ELSE IF status[m] = "sending" THEN Refund(attempts[m]) ELSE attempts[m]]
  /\ token' = [m \in Messages |-> IF m \in M THEN Nobody ELSE token[m]]
  /\ due' = [m \in Messages |-> IF m \in M THEN FALSE ELSE due[m]]
  /\ calls' = [m \in Messages |-> IF m \in M \ drop THEN 0 ELSE calls[m]]
  /\ Renew
  /\ UNCHANGED <<lock, worker, accepted, unrecorded>>

(* The visit moves or a pass is reissued: refreshVisitStartNotificationsTx.   *)
(* A message that is being sent keeps what it says.                           *)
RefreshGroup(M, drop) ==
  LET waiting == {m \in M \cap OfRules(Timed) :
                    status[m] \in {"queued", "failed"} /\ RuleState(m) # "deleted"}
  IN  /\ waiting # {}
      /\ Requeue(waiting, drop \cup {m \in M : Stopped(m)})
      /\ UNCHANGED <<rule, picked>>

Retryable == {m \in Messages : status[m] \in {"failed", "cancelled"} /\ ~ Stopped(m)}

RetryNotification(m) ==
  /\ m \in Retryable
  /\ Requeue({m}, {})
  /\ UNCHANGED <<rule, picked>>

(* retryFailedNotifications reads the ids of the failed messages ... *)
PickFailed ==
  /\ picked = {}
  /\ picked' = {m \in Messages : status[m] = "failed"}
  /\ picked' # {}
  /\ UNCHANGED <<rule, row, lock, worker, renewals, history>>

(* ... and queues those that are failed or cancelled by then. *)
RetryPicked ==
  /\ picked # {} /\ picked' = {}
  /\ IF picked \cap Retryable = {} THEN UNCHANGED <<row, lock, worker, renewals, history>>
     ELSE Requeue(picked \cap Retryable, {})
  /\ UNCHANGED rule

-----------------------------------------------------------------------------
(* Rules. *)

(* The events that have read the rules before do not know of it. *)
CreateRule(r, enabled) ==
  /\ rule[r] = "absent"
  /\ rule' = [rule EXCEPT ![r] = enabled]
  /\ UNCHANGED <<row, lock, worker, picked, renewals, history>>

RuleExists(r) == rule[r] \in {"on", "off"}

(* A rule is stopped, or what it sends is changed: its messages are withdrawn. *)
SaveRules(R, enabled) ==
  /\ \A r \in R : RuleExists(r)
  /\ rule' = [r \in Rules |-> IF r \in R THEN enabled ELSE rule[r]]
  /\ Withdraw(OfRules(R))
  /\ UNCHANGED <<lock, worker, picked, renewals, history>>

(* An API is switched off, and with it every rule that uses it. *)
StopAPI(R) == SaveRules(R, "off")

(* A rule that counts from the start of the visit renews its messages instead. *)
RefreshRule(r, drop) ==
  /\ r \in Timed /\ RuleExists(r)
  /\ Withdrawn(OfRules({r})) # {}
  /\ rule' = [rule EXCEPT ![r] = "on"]
  /\ Requeue(Withdrawn(OfRules({r})), drop)
  /\ UNCHANGED picked

DeleteRule(r) ==
  /\ RuleExists(r)
  /\ rule' = [rule EXCEPT ![r] = "deleted"]
  /\ Withdraw(OfRules({r}))
  /\ UNCHANGED <<lock, worker, picked, renewals, history>>

-----------------------------------------------------------------------------

Work(w) ==
  \/ FailExpiredClaims(w)
  \/ \E m \in Messages : Claim(w, m)
  \/ \E s \in {"failed", "cancelled", "logged"} : SettleClaim(w, s)
  \/ BeginDispatch(w) \/ AbandonClaim(w)
  \/ GatewayTakes(w) \/ GatewayConfirms(w) \/ GatewayFails(w)
  \/ RecordResult(w) \/ LoseResult(w)

Event(m) == Draft(m) \/ Insert(m) \/ FallDue(m)

Administration ==
  \/ \E m \in Messages : CancelNotification(m) \/ RetryNotification(m)
  \/ PickFailed \/ RetryPicked
  \/ \E r \in Rules, enabled \in {"on", "off"} :
       CreateRule(r, enabled) \/ SaveRules({r}, enabled)
  \/ \E R \in SUBSET Rules : StopAPI(R)
  \/ \E r \in Rules : DeleteRule(r) \/ \E drop \in SUBSET Messages : RefreshRule(r, drop)

Next ==
  \/ \E w \in Workers : Work(w) \/ LoseSession(w) \/ WorkerStops(w)
  \/ \E m \in Messages : Event(m)
  \/ \E M \in Groups :
       \/ WithdrawGroup(M) \/ \E N \in SUBSET Messages : Resend(M, N)
       \/ \E drop \in SUBSET M : RefreshGroup(M, drop)
  \/ Administration

Spec == Init /\ [][Next]_vars

(* The loop of RunBackground comes round every ten seconds, every database    *)
(* call of a dispatch has a limit of five seconds and every gateway call the  *)
(* configured one; transactions commit or roll back; time passes.  People and *)
(* failures owe nothing.                                                      *)
Fairness ==
  /\ \A w \in Workers : WF_vars(Work(w))
  /\ \A m \in Messages : WF_vars(Insert(m)) /\ WF_vars(FallDue(m))

FairSpec == Spec /\ Fairness
-----------------------------------------------------------------------------
(* Invariants. *)

TypeOK ==
  /\ rule \in [Rules -> {"on", "off", "absent", "deleted"}]
  /\ status \in [Messages -> Status]
  /\ attempts \in [Messages -> 0..MaxAttempts]
  /\ token \in [Messages -> Workers \cup {Nobody}]
  /\ due \in [Messages -> BOOLEAN]
  /\ lock \in [Messages -> Workers \cup {Nobody}]
  /\ step \in [Workers -> Step]
  /\ item \in [Workers -> Messages \cup {Nobody}]
  /\ picked \subseteq Messages
  /\ renewals \in Nat
  /\ calls \in [Messages -> Nat]
  /\ accepted \in [Messages -> Nat]
  /\ unrecorded \in [Messages -> Nat]

(* The row lock is the boundary between dispatch and withdrawal: while a      *)
(* worker holds it, in and after its call, the row is being sent and carries  *)
(* that worker's claim, so no cancellation, refresh or other claim got in.    *)
DispatchHoldsClaim ==
  \A m \in Messages, w \in Workers : lock[m] = w =>
    /\ item[w] = m /\ step[w] \in {"calling", "taken", "ok", "refused"}
    /\ status[m] = "sending" /\ token[m] = w

(* The acceptance the row has recorded, or the worker that holds it will. *)
Told(m) ==
  \/ status[m] = "sent"
  \/ lock[m] # Nobody /\ step[lock[m]] \in {"taken", "ok"}

(* Every acceptance is recorded, or one of those that failures made be lost. *)
AcceptancesAccounted ==
  \A m \in Messages :
    /\ accepted[m] <= unrecorded[m] + 1
    /\ ~ Told(m) => accepted[m] <= unrecorded[m]

(* The gateway takes a message twice only when an earlier result was lost:    *)
(* expired claims, retries, refreshes and several workers do not cause it.    *)
DuplicatesAreLosses ==
  \A m \in Messages : accepted[m] <= unrecorded[m] + 1

(* Between two queuings the gateway is called at most MaxAttempts times, even *)
(* where a withdrawal gives back an attempt whose call has been made.         *)
BudgetKept == \A m \in Messages : calls[m] <= MaxAttempts

(* Each call has its attempt; the claim a worker has in hand has one left.    *)
CallsAreCounted ==
  /\ \A m \in Messages : status[m] # "cancelled" => calls[m] <= attempts[m]
  /\ \A w \in Workers : step[w] = "claimed" /\ Owns(w) => calls[item[w]] < attempts[item[w]]

(* A claim token stands exactly on the rows being sent. *)
ClaimsAreMarked ==
  /\ \A m \in Messages : token[m] # Nobody <=> status[m] = "sending"
  /\ \A w \in Workers : step[w] = "idle" <=> item[w] = Nobody

(* The inductive invariant of NotificationQueueProofs. *)
IInv ==
  /\ TypeOK
  /\ ClaimsAreMarked
  /\ DispatchHoldsClaim
  /\ CallsAreCounted
  /\ BudgetKept
  /\ AcceptancesAccounted

-----------------------------------------------------------------------------
(* Action and liveness properties. *)

(* Once a message is withdrawn the gateway does not get it: it takes only     *)
(* rows that are being sent - unless the database ended the session under the *)
(* call.  internal/app/background.go calls this the linearization boundary.   *)
WithdrawnIsNotSent ==
  [][\A m \in Messages : accepted'[m] # accepted[m] =>
       \/ status[m] = "sending"
       \/ \E w \in Workers : item[w] = m /\ step[w] = "calling" /\ lock[m] # w]_accepted

(* The queue as its gateway sees it. *)
DeliveryState(m) ==
  IF status[m] = "sent" THEN "sent"
  ELSE IF Told(m) THEN "told"
  ELSE IF status[m] \in Pending THEN "open" ELSE "quiet"

Deliver == INSTANCE Delivery
  WITH state <- [m \in Messages |-> DeliveryState(m)], taken <- accepted, lost <- unrecorded

(* Whatever workers, leases, withdrawals and lost results do to a row, it is  *)
(* delivered as Delivery says: nothing leaves "told" but for "sent" or for a  *)
(* loss that is counted, and "sent" is the end.                               *)
ImplementsDelivery == Deliver!Spec

Settled(m) ==
  \/ status[m] \in {"sent", "logged", "cancelled"}
  \/ status[m] = "failed" /\ attempts[m] = MaxAttempts

(* A message that waits and whose rule is not stopped comes to an end, though *)
(* workers stop, claims are abandoned and results get lost.                   *)
MessagesSettle ==
  \A m \in Messages : status[m] = "queued" /\ ~ Stopped(m) ~> Settled(m)
=============================================================================
