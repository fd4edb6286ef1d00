# VisitFlow in TLA+

VisitFlow is a visitor-management server: a Go service over PostgreSQL, with a
React front end.  Hosts request visits, approvers decide, guests get QR passes,
the lobby checks them in and out, and background loops send notifications, mark
no-shows, close the day and destroy personal data.  This directory holds the
TLA+ specifications of the parts of it whose correctness depends on the order
in which things happen, the TLC runs that check them, and TLAPS proofs of the
properties that matter most.

Run everything from this directory:

    tlc -workers 2 -config VisitLifecycle_group.cfg MCVisitLifecycle.tla
    tlapm VisitLifecycleProofs.tla

`PROJECT.json` lists every run, theorem, mutant, and the source lines each
definition stands for.

## 1. Inventory

State lives in PostgreSQL (`internal/database/migrations/`), reached by any
number of server processes under READ COMMITTED; each process also has a few
in-memory structures.  Handlers interact only through rows: there are no
messages between components, and the SSE stream is a hint to reload.

| Component (source in `internal/app/` unless said) | State | Operations | What is hard | Correctness |
|---|---|---|---|---|
| Visit lifecycle (`visits.go`, `visits_ops.go`) | `visits`, `visitor_visits`, `qr_tokens`, `visit_events` | request, series, walk-in, approve, reject, move, cancel (visit, series, one visitor), reissue, check-in, manual check-in, check-out | four tables that every handler must keep consistent; guards that look at one table only; overlapping transactions | roster and visit status agree, nobody admitted outside the plan or twice, closed visits are closed |
| Maintenance sweep (`background.go`) | the same rows | no-show marking, closing of missed visits, automatic check-out by site clock | three statements that commit separately, several nodes, restarts | nobody expected or inside for ever; never contradicts the door |
| Approval escalation (`background.go`) | `visits.escalated_at` | one alarm per stalled visit | two nodes selecting the same visit | at most one alarm, and only while pending |
| Notification queue (`background.go`, `notification_config.go`, `notifications_admin.go`) | `notifications` | enqueue, claim, dispatch, fail, cancel, retry, rules and API switches | leases that expire, results of lost claims, a provider call that succeeded with a commit that failed | every message reaches an end; a cancelled one is not sent afterwards; bounded attempts |
| Visitor self-registration (`registration.go`) | `registration_invitations` | invite, replace, revoke, complete, expire | requests that overlap; a removal meanwhile | one usable link per participant; what is completed stays completed |
| Visitor records and privacy (`visits.go` upsertVisitor, `background.go`, `admin_visitors.go`) | `visitors` | upsert, mask, erase | look-up, selection and erasure are separate statements | a live record past its time is destroyed, whatever overlaps |
| Accounts and sessions (`auth.go`, `admin_users.go`) | `users`, `sessions`, `oidc_states` | log in and out, single sign-on, create, activate, change or reset a password, end sessions, change roles | look-up, comparison and insertion are separate statements; tickets that come back twice; rows locked in different orders | a ticket opens one session; who must change a password is who was given one; handlers do not block each other |
| Log-in throttle (`security.go`) | `auth_throttle` | look up, count, clear, lapse | the failure is counted long after the lock was looked up | attempts past the threshold are bounded by those in flight |
| Mail and password reset (`mail.go`) | `password_resets` | request, complete | a link used twice, two links of one account used at once | a link sets one password, and an old mail none after a newer one did |
| API keys (`keys.go`, `authenticated` in `auth.go`) | `api_keys` | issue, update, rotate with grace, revoke, let in | rotation against revocation, count before insert, a request that is in already | heirs and the limit are bounded by overlap; off-boarding leaves nothing |
| Settings (`settings.go`) | `settings`, 5 s cache of each process | read, fill, write, invalidate | a reader refilling the cache with what it read before the write; rules checked on what the cache says | staleness bounded by the cache's life; rules hold unless saves overlap |
| Kiosks (`kiosk.go`) | kiosk devices | issue, revoke | token replaced while in use | one valid token per device |
| Live events (`events.go`) | subscriber channels of 8 | publish, join, deliver, leave | a slow subscriber, a channel closed while handlers send | no handler waits for a stream, no stream stays untold, no send on a closed channel |
| Rate limiting, tracking (`security.go`, `tracking*.go`) | in-memory windows, bounded recorder | allow, record, cleanup | fixed-window edges, the bound | the bound holds |
| Administration (`admin.go`, `visittypes.go`, `templates.go`, `guides.go`, `import.go`, `exports.go`, `metrics.go`, `mcp.go`, `openapi.go`) | reference tables | single-statement CRUD, reports, protocol adapters | little: one statement each, or calls into the components above | — |
| Platform (`internal/platform`, `internal/database`, `cmd/`) | configuration, keys | crypto, SMTP, migrations, start and stop | sequential start-up | — |
| Web (`web/`) | browser state | screens | no shared state of its own | — |

## 2. Modules and plan

| Order | Module | Content | State |
|---|---|---|---|
| 1 | `Occupancy` | abstract: who is away, inside, gone | done |
| 2 | `VisitLifecycle` | every handler and sweep as one atomic step | done |
| 3 | `VisitLifecycleProofs` | its theorems, the refinement included | done |
| 4 | `Delivery`, `NotificationQueue`, `NotificationQueueProofs` | abstract: a message is quiet, open, taken, sent; claims, leases, dispatch, withdrawal, several workers; its theorems | done |
| 5 | `VisitTransactions`, `VisitTransactionsProofs` | the handlers statement by statement under READ COMMITTED: row locks and snapshots; its theorems, `Occupancy` again among them | done |
| 6 | `VisitorRecords`, `VisitorRecordsProofs` | upsert by telephone number, registration links, masking and erasure, statement by statement: the destruction of data against the bookings that overlap it; theorems about links | done |
| 7 | `SignIn`, `SignInProofs` | log-in and its throttle, single sign-on, passwords and mailed links, statement by statement; its theorems | done |
| 8 | `ApiKeys`, `ApiKeysProofs` | issue, rotation, revocation, off-boarding of keys, and who they let in; its theorems | done |
| 9 | `SettingsCache`, `SettingsCacheProofs` | the cache of every process against updates, a rule across settings; its theorems | done |
| 10 | `LobbyEvents`, `LobbyEventsProofs` | handlers, streams, channels and the lock between them; its theorems | done |

What could still be added: the step from `VisitTransactions` to `VisitLifecycle`,
which holds only for the pairs of handlers that section 6 leaves out; the count
of super administrators with the roles it is about.

`Occupancy` and `Delivery` say what a component promises, the `*Proofs` modules hold
theorems, and the `MC` modules hold no code either.  `MC` modules give
the constants of an instance; a `.cfg` names the instance and the properties.

## 3. How the modules correspond to the code

### VisitLifecycle

One action is one committed transaction: what a handler reads, tests and writes
is one step, and a refused request is no step.

| Variable | Stands for |
|---|---|
| `visit`, `sched` | `visits.status`, `start_at` and `end_at` |
| `participant` | `visitor_visits.status` |
| `pass`, `window` | the newest `qr_tokens` row of a participant (`revoked_at`, `used_at`) and its `valid_from`, `valid_until` |
| `entries` | how many `CHECKED_IN` rows `visit_events` holds for the participant |
| `now`, `hour` | the wall clock and the hour of the day |
| `sweep` | which of its three statements a node's maintenance has reached |

| Actions | Code |
|---|---|
| `CreateVisit`, `CreateWalkIn` | `createVisitRecord` and its callers, with a pass per visitor unless approval is needed |
| `ApproveVisit`, `RejectVisit` | `approvalAction` |
| `UpdateVisit` | `updateVisit`, with the passes it rewrites |
| `CancelVisit`, `CancelSeries`, `CancelParticipant` | `cancelVisitTx`, `cancelSeries`, `cancelParticipant` |
| `ReissueQR` | `reissueQR` |
| `CheckIn`, `ManualCheckIn`, `CheckOut` | the three handlers at the door |
| `MarkNoShows`, `CloseMissedVisits`, `AutoCheckout`, `StatementFails`, `NodeStops` | `runVisitMaintenance`, whose statements commit one by one, a statement that fails and a node that stops between them |

`Occupancy` is what a door-keeper would write down: a visitor is away, inside or
gone, comes in from away and goes from inside.  `ImplementsOccupancy` maps the
tables onto it (`Place`): every step of the tables is a step of the door-keeper's
list or changes nothing on it, whatever passes, approvals and sweeps did.

### VisitTransactions

The same handlers for one visit and its party, taken apart into statements.
The variables of the tables hold what has been committed; a session holds the
handler it runs (`job`), how far it is (`done`), what its statement saw when it
began (`saw`) and its locks on the visit (`mode`), on `visitor_visits`
(`guests`) and on `qr_tokens` (`passes`).  A statement that has to wait for a
row is two steps: one takes the snapshot, one gets the lock and looks at the
latest version of the rows it locked, and of no others.  That difference is
what finding 1, and the reissued pass under it, are about.

An `INSERT INTO visit_events` takes a key-share lock on the visit through its
foreign key.  It does not conflict with the update of `visits.status`, but it
does with `SELECT ... FOR UPDATE`; check-out relies on it.  Two transactions that
wait for each other are not a deadlock of the system: PostgreSQL rolls one back
after a second, and a rolled-back transaction has changed nothing (`RollBack`,
which also stands for a lost connection, may end any transaction in progress).

`ImplementsOccupancy` maps the committed tables onto `Occupancy` once more: what
holds of handlers that run one at a time holds of their transactions, in every
overlap.  Only a commit of a check-in moves anybody inside.

Passes are used once here, as `visit.single_use_qr` ships; `VisitLifecycle` has
both policies.

### NotificationQueue

| Variable | Stands for |
|---|---|
| `status`, `attempts`, `token`, `due` | columns of `notifications`; `token` is the worker that made the claim, `due` says that `next_attempt_at` has come or the lease of two minutes is over |
| `rule` | `notification_rules.enabled` with its API's switch |
| `lock` | the row lock a dispatch holds while it calls the gateway |
| `step`, `item` | where a worker's loop is |
| `picked` | the ids `retryFailedNotifications` has read and not used yet |
| `calls`, `accepted`, `unrecorded` | history: calls made, messages the gateway took, results no row will ever tell |

A worker claims in one transaction, renders outside of any, and dispatches in
another that locks the row again under its token, calls the gateway and records
the result.  It may be slow at any point, its result may be lost
(`LoseResult`, `LoseSession`), and it may stop (`WorkerStops`).  Withdrawals,
refreshes, retries and the switches of rules and APIs come in between.

| Actions | Code |
|---|---|
| `Draft`, `Insert` | `queueNotificationEventCountTx`: the rules are read, the rows inserted |
| `Claim`, `FailExpiredClaims`, `SettleClaim`, `BeginDispatch`, `RecordResult`, `AbandonClaim` | `claimNotification`, `processNotifications`, `processClaimedNotification`, `dispatchClaimedNotification` |
| `WithdrawGroup`, `Resend`, `RefreshGroup` | `cancelPendingVisitNotificationsTx`, `resendVisitNotification`, `refreshVisitStartNotificationsScopedTx` |
| `CreateRule`, `SaveRules`, `RefreshRule`, `DeleteRule`, `StopAPI` | the handlers of rules and of message APIs |
| `CancelNotification`, `RetryNotification`, `PickFailed`, `RetryPicked` | `notifications_admin.go` |

`Delivery` is what the visitor sees of a message: it is quiet, or open to be sent;
the gateway takes it; the caller, who is told so, settles it as sent, or the
result is lost and the message is open again.  `DeliveryState` finds these states
in the row and the worker: a message is "told" while a worker that holds the row
knows that the gateway took it (`Told`).  `ImplementsDelivery` says that claims
that expire, withdrawals, refreshes, retries and switched rules cause no other
step: what has been taken is not decided on again before its result is told or
lost, and what is sent stays so.

### VisitorRecords

One telephone number, and everything that is kept under it.  The number may have a
record when the model starts, of visits so long ago that they are past every
threshold; the visits in `Guests` are those that are booked from then on.

| Variable | Stands for |
|---|---|
| `record`, `known`, `masked` | a row of `visitors`: whether `erased_at` is set, whether the encrypted columns hold a person, `masked_at` |
| `guest`, `of`, `age` | a row of `visitor_visits`: terminal or not, `visitor_id`, and how far the end of its visit lies back: not past a threshold, past `privacy.mask_after_days`, past `privacy.destroy_after_days` |
| `link`, `invited` | a row of `registration_invitations` and its participant |
| `job`, `for`, `found`, `held` | the handler of a session, whom it is about, the visitor it has looked up, the rows it has locked |
| `sweep`, `seen` | where a node's `runPrivacyMaintenance` is, and the ids its last statement has selected |

| Actions | Code |
|---|---|
| `FindVisitor`, `FindNobody`, `InsertVisitor`, `UpdateVisitor`, `CommitBooking` | `upsertVisitor` in `createVisitRecord`: a `SELECT` without a lock, a write by id, the commit |
| `RevokeForInvitation`, `CommitInvitation`, `InvitationRefused` | `createRegistrationInvitation`, and the unique index that refuses the second of two |
| `FindLink`, `EnterData`, `CommitSubmission` | `submitPublicRegistration` |
| `RevokeLink`, `RevokeExpired` | `revokeRegistrationInvitation`, the expiry in `runVisitMaintenance` |
| `LockParticipant`, `CommitRemoval` | `cancelParticipant` |
| `GuestCloses`, `GuestReturns`, `Postpone`, `Age` | what else happens to a participant and the visit: it ends, an approval writes over a removal, the visit is moved, days pass |
| `CountOpen`, `LockVisitor`, `VisitorGone`, `CommitErase` | `eraseVisitor` |
| `LookForMask`, `MaskVisitors`, `SelectToDestroy`, `DestroyOne`, `FinishSweep`, `MaskingFails`, `DestroyFails`, `NodeStops` | `runPrivacyMaintenance` |

An expired link is one that `FindLink` does not take and `RevokeExpired` may take
away; when a link expires is left open.  `GuestCloses`, `GuestReturns`, `Postpone` and
`Age` allow more than the visit modules do (somebody who has left may be expected
again), because nothing here depends on the difference.  They are also one step
each: the handlers behind them (check-in, check-out, cancellation, approval) lock
several rows on their way, and are cut off or wait; no link and no sweep depends on
anything but their commit.  So the module says nothing of who waits for whom.

### SignIn

| Variable | Stands for |
|---|---|
| `status`, `password`, `mustChange` | a row of `users`: `active`, whether `password_hash` is the owner's or an administrator's, `must_change_password` |
| `owner` | `sessions.user_id` |
| `link`, `to` | a row of `password_resets`: open or `used_at`, `user_id` |
| `ticket` | a row of `oidc_states` |
| `failures` | `auth_throttle.failures` of an account or an address, 0 after the lock-out |
| `job`, `for`, `with` | how far a request is, the account it is about, what it came with |
| `gone`, `others` | what its transaction has written and not committed: sessions and throttle rows deleted, links closed |
| `sets`, `since`, `served` | history: passwords set by a link, links used before this one was issued, sessions opened by a ticket |

| Actions | Code |
|---|---|
| `Attempt`, `Right`, `Wrong`, `CountForAddress`, `CountForAccount`, `OpenSession`, `ClearFailures`, `Lapse` | `localLogin` with `loginLock`, `recordLoginFailure`, `clearLoginFailures`, `issueSession` |
| `VerifyChange`, `SetOwnPassword`, `EndOtherSessions` | `changePassword` |
| `RequestLink`, `MailLink`, `FindLink`, `MarkLink`, `SetPassword`, `CloseOthers`, `CommitReset` | `issuePasswordReset` and its callers, `completePasswordReset` |
| `CreateUser`, `EnsureBootstrapAdmin`, `IssueTemporary`, `CommitTemporary`, `SetActive`, `EndSessions`, `RevokeUserSessions` | `admin_users.go`, `EnsureBootstrapAdmin` |
| `OidcStart`, `DropTicket`, `TakeTicket`, `Provision`, `OpenSsoSession` | `oidcStart`, `oidcCallback` |
| `EndSession`, `Abandon` | log-out or expiry; a request that fails, its transaction rolled back |

A request holds the rows its transaction has written until it ends
(`HoldsAccount`, `HoldsLink`); the rows `gone` are still seen by others.

### ApiKeys

| Variable | Stands for |
|---|---|
| `active`, `session` | `users.active`, `sessions.user_id` |
| `owner`, `state`, `writes`, `from` | a row of `api_keys`: `user_id`; active, in grace, revoked or expired as `revoked_at`, `grace_until` and `expires_at` say; the scope `write`; `rotated_from` |
| `job`, `for`, `key`, `took` | how far a request is, whose it is, the key it has read, and the scope it read with it |
| `ended` | what the end of everything has written and not committed |
| `out` | history: signed out everywhere and not logged in since |

`EnterWithSession` and `EnterWithKey` are `authenticated`; then come `CountKeys` and
`InsertKey` (`createAPIKey`), `ReadKey` and `UpdateKey` (`updateAPIKey`),
`CommitRotation` (`rotateAPIKey`), `RevokeKey`, and `EndEverything` and `CommitEnd`
(`revokeUserSessions`).  Nothing asks for the credential again once a request is in.

### SettingsCache

| Variable | Stands for |
|---|---|
| `stored` | `settings.value` of two settings of which one must be on |
| `cached`, `left` | `settingsCache` of a process, and the time its entries have left |
| `job`, `node`, `seen`, `key`, `age`, `answer` | a request: how far, where, what `getSetting` told it, what it asks the database, for how long, and what it was answered |
| `input`, `written` | what `updateSettings` has still to write, and what it has written and not committed |
| `quiet`, `calm`, `hasty` | history: time since the last change, whether a request began and stayed a life of the cache away from any, whether one that did not has changed something |

`FindCached`, `Miss`, `Query`, `Fill` and `QueryFails` are `getSetting`; `Save`, `Skip`,
`Write` and `Commit` are `updateSettings`; `Invalidate` empties the cache of its own
process and of no other.  An entry's life counts from before the query.

### LobbyEvents

| Variable | Stands for |
|---|---|
| `job`, `todo` | a handler: it has changed visits, or it goes through the map with the read lock |
| `phase` | a stream: waiting for the lock to join, in the map, waiting to leave, out of it |
| `pending` | the events in its channel |
| `unseen` | history: the browser has not been told of a change since |

`StartPublish`, `Send` and `EndPublish` are `publishLobbyEvent`, `Join`, `Deliver`,
`Remove` and `Close` are `lobbyStream`.

## 4. What the runs check

| Run | Instance | What it shows |
|---|---|---|
| `group` | a weekly series of two occurrences, one of two visitors and one of one, at sites in different time zones, two nodes, passes that work once | the tables agree with each other (`IInv`, `RosterAgrees`, `ClosedIsClosed`), whoever is expected can enter (`ExpectedGuestsCanEnter`), the sweep never gives up somebody the door still admits (`DoorAndSweepDisjoint`), nobody comes twice or returns after leaving (`AdmittedOnce`, `DepartureIsFinal`), every admission falls into the planned time (`AdmissionIsPlanned`), and seen from the door it is a list of who is inside (`ImplementsOccupancy`) |
| `live` | one visit of two under fairness, passes that may be used again | nobody is expected for ever (`ExpectationEnds`), nobody is on the roster for ever (`StayEnds`) |
| `party` | a visit of two, three sessions, two days | the properties of the roster survive every overlap of three transactions (`InsideIsOnRoster`, `ClosedIsClosed`, `ExpectedGuestsHavePasses`, `NoVisitWithoutVisitors`, `EndIsFinal`), what sessions know under their locks is so (`IInv`), and the tables still implement the door-keeper's list (`ImplementsOccupancy`) |
| `queue` | two workers, one message, three attempts, two lost results | no gateway call without a valid claim (`DispatchHoldsClaim`), a message is taken, told and settled as `Delivery` says, so twice only if a result was lost (`ImplementsDelivery`), no more calls than attempts (`BudgetKept`), no call begins once a message has been withdrawn (`WithdrawnIsNotSent`), and every message reaches an end (`MessagesSettle`) |
| `records` | a record that may exist already, a booking, two links, two sessions, a node that stops and fails, under fairness | one usable link per participant (`OneOpenLink`), completed links stay completed (`CompletedStays`), and a live record past the period of destruction is destroyed, or has a newer visit (`DueAreDestroyed`) |
| `sign_in` | a local account and one of single sign-on, one address, one session row, two links, a ticket, two requests | a link sets one password and an old one none after a newer (`OneResetPerRound`), attempts past the lock are those in flight (`AttemptsBounded`), a ticket opens one session (`TicketServesOnce`), and only completions with two links of one account can block each other (`OnlyTwoLinksBlock`) |
| `keys` | one account, three keys, two requests, a limit of one | a key has no more heirs than requests overlapped (`HeirsBounded`), and creations that overlap exceed the limit by less than their number (`IssueBounded`) |
| `settings` | two processes, two requests, two settings | no process serves a replaced value longer than a life of the cache (`StalenessBounded`), the rule across settings holds unless saves overlap (`RulesKept`), and of the saves that wait for each other's rows one goes on (`SavesProceed`) |
| `lobby` | two handlers, two streams, channels of two, under fairness | no send on a closed channel (`ChannelsOpen`), whatever a browser has not seen is in its channel or with a handler that will tell it (`NoChangeIsLost`), and a stream that stays connected is told after every change (`ChangesAreTold`) |
| `empty_visit` | a small instance of `VisitTransactions` | finding 1 |
| `offboarding` | a small instance of `ApiKeys` | finding 2 |
| `refilled` | `VisitorRecords` with one booking, one session and no links | finding 3 |

`DueAreDestroyed` and `RetentionHolds` differ in their premise: a record that is
live, and a record that holds a person.  The first is what the sweep selects,
and it holds; the second is what the documents promise, and a destroyed record that
has been filled again is the case between the two.

### Bounds

- `MaxTime` lets the clock pass the end of the latest slot, its grace and the
  next cutoff; after that no test on the time changes its value.  `hour` keeps
  turning when `now` has stopped, so the automatic check-out always comes again.
- `DayLength` is 2 or 4 and not 24: an hour before, at and after the cutoff, and
  a zone in which these fall differently, need four.
- `Slots` has two periods that overlap the tolerances of each other, so a visit
  can be moved to a time at which its pass is open, not yet open, or over.
- `entries` counts 0, 1, "2 or more": properties tell no more apart.
- Two visitors are a party with "the other one"; the findings need two, and the
  recounts only ask whether there is another.  Three sessions are two handlers
  that conflict and a third that comes between.  `MaxPasses` is 2: a pass and its
  replacement.
- `MaxAttempts` of the queue is 3 for the code's 5: a first, a middle and a last
  attempt.  `MaxLosses` and `MaxRenewals` bound failures and interventions, of
  which the environment could produce any number.

- In `VisitorRecords`, `Records` and `Links` also bound how many bookings of an
  unknown number and how many new links are in progress at once (`FindNobody`,
  `RevokeForInvitation`), so that a handler never waits for an identity to become
  free.  One visit beside the older ones of `Init` is one that keeps the record, and
  one that does not; two links are one and the one that replaces it.  Two sessions
  are two handlers that overlap.  Visits grow old between requests (`Age`): no handler reads an age, so a
  threshold that passes within a request could as well pass before it.

- In `SignIn`, `MaxAttempts` is 1 and the multiplier 2 for the code's 5 and 10: the
  lock of an account and of an address fall apart, and two requests in flight
  pass both.  Nothing else counts higher than two.
- In `ApiKeys` the limit is 1, so that two requests are enough to exceed it; three
  keys are one, its heir, and the heir of the heir or a second one.
- In `SettingsCache` an entry lives for one tick: before and after its end is all
  that a reader tells apart, and two requests with two processes give every order
  of a fill and a save.
- In `LobbyEvents` a channel holds two events for the code's eight: empty, in
  between and full.

The proofs below need none of these bounds.  `sign_in`, `keys` and `settings` use the
symmetry of identities, which no definition tells apart; none of these three has a
liveness property.

### Deadlock

`CHECK_DEADLOCK FALSE` stands in the configurations of `NotificationQueue`, where
a message that has reached its end and cannot be renewed any more leaves nothing
to do, and of `VisitTransactions`, where a closed visit on the last day is such an
end.  In `VisitLifecycle` the clock always turns, in `VisitorRecords` sweeps or
visits always go on; deadlock is checked there, and in `SignIn`, `ApiKeys`,
`SettingsCache` and `LobbyEvents`, where somebody can always begin or end.

### Fairness

`VisitLifecycle`: `Tick` is strongly fair, for time passes.  `Maintenance(n)` is
weakly fair, because `RunBackground` runs it on a ticker of ten minutes and a
statement of it has a deadline.  Each statement is strongly fair in each hour of
the day: it may fail or be cut off by a restart, but not in the same hour of every
day for ever.  The last assumption is what the automatic check-out needs, which
acts only at the hours after the cutoff of a site's clock.  Nothing is assumed of people.

`NotificationQueue`: each worker's `Work` is weakly fair (a ticker of ten seconds;
a gateway call and a database statement have deadlines), an event's transaction
that has begun inserts its message or ends, and a claim's lease and the pause
before an attempt run out.  Nothing is assumed of the gateway's answers,
losses, or administrators.

`VisitorRecords`: the sweep is started every six hours and its statements are
strongly fair: each may fail or be cut off by a restart, but not every time for ever.
The update that destroys a record has no deadline and waits as long as another
transaction has the row locked; that transaction ends, by a commit or a rollback,
and not only after the sweep has given up (the first conjunct of `Fairness`).
Nothing is assumed of handlers otherwise, of users, nor that a visit grows old.

`LobbyEvents`: goroutines run, so a stream's `StreamStep` and a handler's
`HandlerStep` are weakly fair.  Which of those that wait for the lock comes next
is left open: a `sync.RWMutex` keeps new readers behind a writer that waits, and lets
in those who waited already when a writer unlocks, and the model has both orders.
Nothing makes a handler change visits or a browser stay.

## 5. What is proved

All theorems hold for any value of the constants that satisfies the module's
`ASSUME`: any number of visits, visitors, nodes, sessions, workers and messages,
any slots and tolerances.

- **`VisitLifecycleProofs`.** `IInv` is inductive: for each participant, the status
  fits the visit's, the pass is the one that status calls for, its window is the
  schedule's, and the log holds at most one arrival (`RecordAgrees`).  The
  properties of the run `group` by themselves are not inductive; for instance
  `AdmittedOnce` needs that a pass is fresh only while its owner has not come in,
  which in turn needs what `ReissueQR`, `CheckIn` and `UpdateVisit` each leave of
  it.  From `IInv` follow `RosterAgrees`, `AdmittedOnce`, `ClosedIsClosed`,
  `PendingIsSealed`, `ExpectedGuestsCanEnter`, `DoorAndSweepDisjoint` and, step by
  step, `DepartureIsFinal`.
  `VisitLifecycle` implements `Occupancy` under the mapping `Place`
  (`Implementation`): a step lets nobody in, or those who have never been inside,
  or somebody who is inside already, and each action is one of the three.
  `AdmissionIsPlanned` follows from the windows of `IInv`.
- **`NotificationQueueProofs`.** `IInv` relates a worker's step to the row it holds:
  while the row is locked by a dispatch it is being sent under that worker's
  token, and the attempts count the calls.  From it `DispatchHoldsClaim`,
  `DuplicatesAreLosses`, `BudgetKept` and `WithdrawnIsNotSent`.  The refinement of
  `Delivery` (`DeliveryImplemented`) takes one step per action; that no other
  worker, withdrawal or refresh touches a message that is "told" is the lock of
  `IInv`.  Its consequence `TakenIsTold`, proved of the queue under the mapping,
  is an account without remainder: the gateway took a message as often as a result
  was lost, and once more if the caller knows or the row says sent.
- **`VisitTransactionsProofs`.** `IInv` has four parts: the types; no two sessions
  hold conflicting locks (`LocksExclude`); the committed tables agree
  (`RecordsAgree`, `InsideIsOnRoster`, `NoVisitWithoutVisitors`); and what a
  transaction in progress relies on is still so (`SessionsAgree`).  The last part
  carries the argument: a handler's premise is about rows it has locked, another
  session's commit writes only rows that session has locked, and the locks
  exclude each other; so a commit leaves everybody else's premises alone.  Where
  the premise is about rows that are not locked - the snapshot of a recount - the
  invariant says how old the snapshot may be: who is inside or expected now was so
  then.  `InsideIsOnRoster`, `AdmittedOnce`, `ClosedIsClosed`,
  `ExpectedGuestsHavePasses`, `NoVisitWithoutVisitors` and `EndIsFinal` follow.
  `OccupancyImplemented`: only the commit of a check-in lets anybody in, and it
  has locked visitors who are expected and have no entry in the log.

- **`VisitorRecordsProofs`.** `IInv` says that links belong to participants and
  participants to records (`RowsAgree`), that no row is locked twice
  (`LocksExclude`), and that what a handler has locked is as it was
  (`SessionAgrees`): the links a new one replaces are still open, who is being
  removed has not been removed, who is being erased has not been erased.  Each
  action is shown to leave alone what others have locked (`Keeps`).  From it
  `OneOpenLink` and, step by step, `CompletedStays`: the statement that revokes a
  link comes long before the commit that shows it, and only the lock keeps a form
  from completing the link in between.

- **`SignInProofs`.** `IInv` says that rows belong to rows, that the locks on accounts
  and links exclude each other, that what a request has locked is as it was
  (`RequestAgrees`), that every link still open was issued after the ones that
  have set a password (`LaterLinksOnly`), and that failures and attempts in flight
  stay below the threshold plus the number of requests.  `OneResetPerRound` comes
  from `LaterLinksOnly`: when a completion commits, the other open links of the
  account are among those it closes, or were issued after it.  `AttemptsBounded`
  counts requests with `Cardinality`: whoever passes the lock adds one to those in
  flight while the failures are below the threshold, and a failure that is counted
  leaves them.  `TicketServesOnce` rests on the `DELETE ... RETURNING` that takes a
  ticket.  `OnlyTwoLinksBlock` needs no fact about time: `WaitsFor` is followed
  around a circle until it comes to a completion that holds the account and waits
  for a link.
- **`ApiKeysProofs`.** What has an heir is no longer active (`RowsAgree`), so nobody
  reads it for a rotation again; `HeirsBounded` counts heirs and the rotations on
  their way, `IssueBounded` keys that serve, or that a rotation on its way may
  revive, and the creations on theirs.
- **`SettingsCacheProofs`.** An answer that is not stored any more was asked for
  before the last change, so the time it has left in a cache and the time since the
  change together are at most a life (`StalenessBounded`).  A request that is `calm`
  has seen only values that are stored, and what it is about to store keeps the
  rule (`RequestAgrees`); so does what it commits (`RulesKept`).  `SavesProceed`
  looks at who holds the later row: it has nothing left to wait for; and if
  nobody does, whoever holds the earlier one goes on.

- **`LobbyEventsProofs`.** `IInv` adds to the types that a handler goes through the
  map only while it holds the lock for reading, and that a stream comes
  into the map with an empty channel.  `OpenChannels`: a handler sends only to
  streams of the map, and none of these has closed.  `NothingIsLost` is why a full
  channel may drop events: a channel that is full holds an event the browser has
  not seen yet.

Only model-checked: the liveness properties (`ExpectationEnds`, `StayEnds`,
`MessagesSettle`, `DueAreDestroyed`, `ChangesAreTold`), which are beyond the prover,
and the counterexamples of the findings.  Every other property of a run is a
theorem.  Proved and not a run's property: `PendingIsSealed`,
`DuplicatesAreLosses` and `TakenIsTold` of the queue, `AdmittedOnce` of
`VisitTransactions`, and the `IInv` of the five modules from `VisitorRecords` on as
a whole.

## 6. Findings

Each is the counterexample of a run that expects one; `PROJECT.json` quotes the
sentence it contradicts.

1. `empty_visit`: two simultaneous check-outs each count the other visitor as
   inside; the visit stays CHECKED_IN until somebody cancels it, for no check-out
   and no sweep closes it.
2. `offboarding`: ending the sessions of an account, which `docs/ADMIN_GUIDE.md:190`
   and the comment at `admin_users.go:205` say also revokes its API keys at once,
   leaves a rotated key that is in its time of grace, and with it the right to
   issue new ones.
3. `refilled`: a booking that found a visitor before the sweep destroyed the record
   writes name and number into the destroyed record (`visits.go:723`), which no
   sweep selects; `docs/ADMIN_GUIDE.md:314` says that what is past its period is
   replaced by itself.  A form sent through a link does the same (`registration.go:326`).

Seen on the way and not given a run of their own.  Visits and their records:

- Approving a visit schedules the visitors again who have been removed from it
  while it waited (`visits.go:1063`, against the comment at `visits_ops.go:14`).
- A visit some of whose visitors were cancelled and the others missed is never
  marked as missed (`background.go:324`, against `docs/USER_GUIDE.md:203`).
- A pass reissued while its visit is moved keeps the old day (`visits.go:1156`,
  against `docs/USER_GUIDE.md:59`).
- A visit that has been entered can be cancelled (`visits.go:945`), though
  `docs/USER_GUIDE.md:190` explains the refusal with "already entered".
- `cancelParticipant` counts visitors who have left as remaining, so removing the
  last open one does not cancel the visit as the comment above the function says.
- `eraseVisitor` counts open visits before its transaction, and the sweep erases
  by id what it selected earlier: a visit booked in between is left with an
  erased visitor.
- Of two forms sent through one link at the same time both complete it, though
  the link is called single-use: `CommitSubmission` asks nothing of the link.
- A new link that replaces another, and the removal of its participant, can block
  each other until PostgreSQL fails one of them; so can the check-in of a visitor,
  which locks the participant and then the visitor (`visits.go:1562`), and the form
  of the same one, which writes them in the other order (`registration.go:326`, `331`).

Notifications:

- The bulk retry sends a message that was cancelled after it had read the list of
  failures (`notifications_admin.go:127`, against `docs/ADMIN_GUIDE.md:232`).
- An event that has read a rule before it was stopped leaves a message behind
  that nobody sends or cancels (`notification_config.go:936`).

Accounts, keys and settings:

- Two administrators who lower two super administrators at the same time each
  count the other, and none remains (`auth.go:713`, against `docs/ADMIN_GUIDE.md:183`).
  The same handler writes `role_override` from what it read before.
- A log-in that has compared the old password inserts its session after a reset or
  a change has ended the others (`auth.go`, against `docs/ADMIN_GUIDE.md:161`, `:189`).
- A rotation that has read an active key gives grace to it after a revocation
  (`keys.go:177`, against `README.md:39`); rotations and overlapping creations exceed
  the limit of active keys (`docs/ADMIN_GUIDE.md:220`); and a creation or rotation
  that was let in before an off-boarding leaves an active key after it.
- Two first sign-ons that find one pre-registered account bind it one after the
  other to two subjects.
- A reader fills the cache with the old value after `updateSettings` has emptied it,
  so that even the process that saved may serve it for the rest of its life
  (`settings.go:57`, against the comment at `settings.go:19` and "at once" in
  `docs/API_AND_MCP.md:17`).
- Two updates, each valid against what it read, are together a combination the
  rules exclude (`settings.go:117`); `RulesKept` says when they cannot be.

## 7. Not modelled, and why

- **Rights.** Who may call a handler decides only who may ask; the actions are
  what happens when somebody does.
- **Identity and contents.** A visitor is a participant, a message is an
  identity; names, consent, equipment, texts and templates do not steer anything
  modelled.  Two people with one number are one record in the code, and here.
- **Bookings of several visitors** write several records in the order of the
  request; two such bookings may block each other like a link and a removal.  The
  address book of hosts, the retention of the audit log and the limit of 500
  rows a sweep are left out too.
- **Settings** are constants of an instance in the other modules.  A change of the
  tolerances leaves issued passes with the old window until the visit is moved.
  `SettingsCache` has two settings and one of the rules across them; the others have
  the same form.  The parsed lists of trusted proxies and the rate limit, kept the
  same way for as long, a key that is missing from the table, and what
  `allowTrackingHost` adds are left out.
- **Roles, departments and sites** of accounts, with the count of super
  administrators; what the identity provider calls a person, who is one account
  here; the in-memory `rateLimiter`, one function under a mutex.
- **E-mails to hosts and approvers** are rows of the queue without a rule; which
  preferences and delegates produce them is data.
- **Events of other processes.** A stream hears of the changes of its own process
  only (`docs/ARCHITECTURE.md:53`), and of those of handlers, not of sweeps.  The lobby
  screen reads again on every event and not when its stream has been away
  (`LobbyPage.tsx:57`); in which order its reloads come back is the browser's.
- **Approval escalation** is one `UPDATE` per visit that repeats its condition under
  the row lock; **the violation recorder** is a bounded list behind one mutex, each
  method one critical section; **kiosk** tokens are written by single statements.
- **Capacity, watch list and visit types** decide whether a request is accepted.
- **updateVisit on a visit that ends meanwhile** is in `VisitTransactions` as far as
  the passes and the schedule go; that the schedule of a visit that has just
  ended is rewritten contradicts nothing the documents say.
- **Administration, adapters, platform, web.** Single statements on reference
  tables, translations of requests, sequential start-up, and screens: there is
  no order of events to get wrong.
