------------------------- MODULE VisitTransactions -------------------------
(***************************************************************************)
(* The handlers of VisitLifecycle taken apart into the statements of their *)
(* transactions, for one visit and its party, as PostgreSQL runs them      *)
(* under READ COMMITTED: each statement has a snapshot of its own, waits   *)
(* for the rows it writes or locks, and looks at the latest committed      *)
(* version of these rows - and of no others - when it gets them.           *)
(*                                                                         *)
(* The variables visit .. entries hold what is committed.  What a          *)
(* transaction has written so far is invisible to all others until it      *)
(* commits, so its writes are made by its last step, and its earlier steps *)
(* take locks and read.  An INSERT INTO visit_events takes a key-share     *)
(* lock on the visit it refers to: that conflicts with SELECT ... FOR      *)
(* UPDATE, and with nothing else.                                          *)
(*                                                                         *)
(* The clock counts days, and the window of a pass is the day it was made  *)
(* out for; VisitLifecycle has the arithmetic of hours and tolerances.     *)
(* Every table row but those of visits, visitor_visits, qr_tokens and      *)
(* visit_events is left out, and so are requests the handler refuses.      *)
(***************************************************************************)
EXTENDS Integers, FiniteSets

CONSTANTS
  Participants,  \* the party: rows of visitor_visits of this visit
  Sessions,      \* database sessions, each in at most one transaction
  LastDay,       \* bound: the days are 1..LastDay
  MaxPasses,     \* bound: passes issued to one visitor
  Nothing        \* no snapshot

ASSUME TransactionsAssumption ==
  /\ Participants # {} /\ IsFiniteSet(Participants)
  /\ LastDay \in Nat \ {0}
  /\ MaxPasses \in Nat \ {0}

VARIABLES
  today,         \* the wall clock
  visit,         \* visits.status
  sched,         \* visits.start_at: the day
  participant,   \* visitor_visits.status
  pass,          \* newest qr_tokens row: its number, state and day
  entries,       \* CHECKED_IN rows in visit_events: 0, 1 or "2 or more"
  job, done,     \* handler a session runs, and how many statements are done
  who, want,     \* the visitors it is about, the day it moves the visit to
  saw,           \* snapshot of the statement it is in
  mode,          \* its lock on the visit
  guests,        \* visitor_visits rows it has locked
  passes         \* qr_tokens rows it has locked

committed == <<visit, sched, participant, pass, entries>>
locks == <<mode, guests, passes>>
session == <<job, done, who, want, saw, locks>>
vars == <<today, committed, session>>

-----------------------------------------------------------------------------

Days == 1..LastDay
VisitStatus == {"PENDING_APPROVAL", "SCHEDULED", "CHECKED_IN", "CHECKED_OUT",
                "CANCELLED", "REJECTED", "NO_SHOW"}
Job == {"idle", "checkIn", "manualCheckIn", "checkOut", "cancelVisit", "cancelParticipant",
        "approve", "reject", "updateVisit", "reissueQR", "noShow", "closeVisit"}

(* qrParticipantStatusTerminal *)
Terminal == {"CHECKED_OUT", "CANCELLED", "REJECTED", "NO_SHOW"}

(* The row has revoked_at IS NULL. *)
Live(p) == pass[p].state \in {"fresh", "used"}
Numbers == [p \in Participants |-> pass[p].no]

Counted(n) == IF n = 0 THEN 1 ELSE 2

(* The CASE expression of the check-outs, over the rows a snapshot shows. *)
Recount(status) ==
  IF \E p \in Participants : status[p] = "CHECKED_IN" THEN "CHECKED_IN"
  ELSE IF \E p \in Participants : status[p] = "SCHEDULED" THEN "SCHEDULED"
  ELSE "CHECKED_OUT"

(* The status of the party once those of P have s. *)
Becoming(status, P, s) == [p \in Participants |-> IF p \in P THEN s ELSE status[p]]

Snapshot == [party |-> participant, day |-> sched, numbers |-> Numbers]

Init ==
  /\ today = 1
  /\ visit \in {"PENDING_APPROVAL", "SCHEDULED"}
  /\ sched \in Days
  /\ participant = [p \in Participants |-> visit]
  /\ pass = [p \in Participants |->
               IF visit = "SCHEDULED" THEN [no |-> 1, state |-> "fresh", day |-> sched]
               ELSE [no |-> 0, state |-> "none", day |-> sched]]
  /\ entries = [p \in Participants |-> 0]
  /\ job = [t \in Sessions |-> "idle"]
  /\ done = [t \in Sessions |-> 0]
  /\ who = [t \in Sessions |-> {}]
  /\ want = [t \in Sessions |-> 0]
  /\ saw = [t \in Sessions |-> Nothing]
  /\ mode = [t \in Sessions |-> "none"]
  /\ guests = [t \in Sessions |-> {}]
  /\ passes = [t \in Sessions |-> {}]

-----------------------------------------------------------------------------
(* Locks. *)

(* share: a row that refers to the visit was inserted (FOR KEY SHARE);       *)
(* change: the visit was updated (FOR NO KEY UPDATE);                        *)
(* exclusive: SELECT ... FOR UPDATE.                                         *)
Mode == {"none", "share", "change", "exclusive"}
Conflict(a, b) ==
  /\ a # "none" /\ b # "none"
  /\ a = "exclusive" \/ b = "exclusive" \/ (a = "change" /\ b = "change")

VisitFree(t, m) == \A u \in Sessions \ {t} : ~ Conflict(m, mode[u])
GuestsFree(t, P) == \A u \in Sessions \ {t} : guests[u] \cap P = {}
PassesFree(t, P) == \A u \in Sessions \ {t} : passes[u] \cap P = {}

Free(t, m, P, Q) == VisitFree(t, m) /\ GuestsFree(t, P) /\ PassesFree(t, Q)

Hold(t, m, P, Q) ==
  /\ mode' = [mode EXCEPT ![t] = m]
  /\ guests' = [guests EXCEPT ![t] = P]
  /\ passes' = [passes EXCEPT ![t] = Q]

(* The first statement of handler j. *)
Begin(t, j, P) ==
  /\ job[t] = "idle"
  /\ job' = [job EXCEPT ![t] = j]
  /\ done' = [done EXCEPT ![t] = 1]
  /\ who' = [who EXCEPT ![t] = P]
  /\ UNCHANGED <<today, committed, saw>>

In(t, j, n) == job[t] = j /\ done[t] = n

Proceed(t) ==
  /\ done' = [done EXCEPT ![t] = @ + 1]
  /\ UNCHANGED <<today, committed, job, want>>

(* The transaction ends and lets go of its locks. *)
End(t) ==
  /\ job' = [job EXCEPT ![t] = "idle"]
  /\ done' = [done EXCEPT ![t] = 0]
  /\ who' = [who EXCEPT ![t] = {}]
  /\ want' = [want EXCEPT ![t] = 0]
  /\ saw' = [saw EXCEPT ![t] = Nothing]
  /\ Hold(t, "none", {}, {})

Look(t) == saw' = [saw EXCEPT ![t] = Snapshot]

(* Rows of qr_tokens as a statement leaves them. *)
Marked(p, state) == [no |-> pass[p].no, state |-> state, day |-> pass[p].day]
Moved(p, day) == [no |-> pass[p].no, state |-> pass[p].state, day |-> day]
Revoking(P) ==
  [p \in Participants |-> IF p \in P /\ Live(p) THEN Marked(p, "revoked") ELSE pass[p]]
Issued(p, day) == [no |-> pass[p].no + 1, state |-> "fresh", day |-> day]

-----------------------------------------------------------------------------
(* The door. *)

(* Mutant: the visit's row is not locked. *)
LockForCheckInLeavesVisit(t, p) ==
  /\ Free(t, "none", {p}, {p})
  /\ pass[p].state = "fresh" /\ pass[p].day = today
  /\ visit \notin {"CANCELLED", "REJECTED"}
  /\ participant[p] \notin Terminal
  /\ Begin(t, "checkIn", {p}) /\ Hold(t, "none", {p}, {p}) /\ UNCHANGED want

(* FOR UPDATE OF qt, vv, v, and what checkIn demands of the rows. *)
LockForCheckIn(t, p) ==
  /\ Free(t, "exclusive", {p}, {p})
  /\ pass[p].state = "fresh" /\ pass[p].day = today
  /\ visit \notin {"CANCELLED", "REJECTED"}
  /\ participant[p] \notin Terminal
  /\ Begin(t, "checkIn", {p}) /\ Hold(t, "exclusive", {p}, {p}) /\ UNCHANGED want

(* Mutant: the desk looks the visitor up without a lock. *)
LockForManualCheckInReadsOnly(t, p) ==
  /\ visit \notin {"CANCELLED", "REJECTED", "PENDING_APPROVAL"}
  /\ participant[p] = "SCHEDULED" /\ sched = today
  /\ Begin(t, "manualCheckIn", {p}) /\ UNCHANGED <<locks, want>>

LockForManualCheckIn(t, p) ==
  /\ Free(t, "exclusive", {p}, {})
  /\ visit \notin {"CANCELLED", "REJECTED", "PENDING_APPROVAL"}
  /\ participant[p] = "SCHEDULED" /\ sched = today
  /\ Begin(t, "manualCheckIn", {p}) /\ Hold(t, "exclusive", {p}, {}) /\ UNCHANGED want

(* The pass is consumed, the visitor and the visit are inside. *)
CommitCheckIn(t) ==
  /\ In(t, "checkIn", 1) \/ In(t, "manualCheckIn", 1)
  /\ PassesFree(t, who[t])
  /\ participant' = Becoming(participant, who[t], "CHECKED_IN")
  /\ visit' = IF visit = "SCHEDULED" THEN "CHECKED_IN" ELSE visit
  /\ pass' = [p \in Participants |->
                IF p \in who[t] /\ Live(p) THEN Marked(p, "used") ELSE pass[p]]
  /\ entries' = [p \in Participants |-> IF p \in who[t] THEN Counted(entries[p]) ELSE entries[p]]
  /\ End(t)
  /\ UNCHANGED <<today, sched>>

(* UPDATE visitor_visits ... WHERE status='CHECKED_IN': one visitor at the   *)
(* desk, or everybody inside when the cutoff hour has come.                  *)
TakeLeavers(t, P) ==
  /\ P # {} /\ \A p \in P : participant[p] = "CHECKED_IN"
  /\ GuestsFree(t, P)
  /\ Begin(t, "checkOut", P) /\ Hold(t, "none", P, {}) /\ UNCHANGED want

CheckOut(t, p) == TakeLeavers(t, {p})
AutoCheckout(t) == TakeLeavers(t, {p \in Participants : participant[p] = "CHECKED_IN"})

(* Mutant: visit_events does not refer to the visit. *)
RecordLeavingUnreferenced(t) ==
  /\ In(t, "checkOut", 1)
  /\ Proceed(t) /\ UNCHANGED <<locks, who, saw>>

(* INSERT INTO visit_events. *)
RecordLeaving(t) ==
  /\ In(t, "checkOut", 1) /\ VisitFree(t, "share")
  /\ Proceed(t) /\ Hold(t, "share", guests[t], {}) /\ UNCHANGED <<who, saw>>

(* UPDATE visits SET status=CASE ... sees the party as it is committed now ... *)
LookAtParty(t) ==
  /\ In(t, "checkOut", 2)
  /\ Proceed(t) /\ Look(t) /\ UNCHANGED <<locks, who>>

(* ... and keeps to that, however long it waits for the visit. *)
CommitCheckOut(t) ==
  /\ In(t, "checkOut", 3) /\ VisitFree(t, "change")
  /\ participant' = Becoming(participant, who[t], "CHECKED_OUT")
  /\ visit' = Recount(Becoming(saw[t].party, who[t], "CHECKED_OUT"))
  /\ End(t)
  /\ UNCHANGED <<today, sched, pass, entries>>

-----------------------------------------------------------------------------
(* Approval. *)

(* UPDATE visits ... WHERE status='PENDING_APPROVAL'. *)
Decide(t, decision) ==
  /\ VisitFree(t, "change") /\ visit = "PENDING_APPROVAL"
  /\ Begin(t, decision, Participants) /\ Hold(t, "change", {}, {}) /\ UNCHANGED want

DecideGuests(t) ==
  /\ In(t, "approve", 1) \/ In(t, "reject", 1)
  /\ GuestsFree(t, Participants)
  /\ Proceed(t) /\ Hold(t, mode[t], Participants, {}) /\ UNCHANGED <<who, saw>>

(* One pass each; the unique index refuses a second one that is not revoked. *)
CommitApproval(t) ==
  /\ In(t, "approve", 2)
  /\ \A p \in Participants : ~ Live(p) /\ pass[p].no < MaxPasses
  /\ visit' = "SCHEDULED"
  /\ participant' = Becoming(participant, Participants, "SCHEDULED")
  /\ pass' = [p \in Participants |-> Issued(p, sched)]
  /\ End(t)
  /\ UNCHANGED <<today, sched, entries>>

CommitRejection(t) ==
  /\ In(t, "reject", 2)
  /\ visit' = "REJECTED"
  /\ participant' = Becoming(participant, Participants, "REJECTED")
  /\ End(t)
  /\ UNCHANGED <<today, sched, pass, entries>>

-----------------------------------------------------------------------------
(* Cancellation. *)

(* cancelVisitTx, for one visit or as part of cancelSeries. *)
CancelVisit(t) ==
  /\ VisitFree(t, "change") /\ visit \notin {"CHECKED_OUT", "CANCELLED", "REJECTED"}
  /\ Begin(t, "cancelVisit", {}) /\ Hold(t, "change", {}, {}) /\ UNCHANGED want

(* Mutant: rows somebody has locked are skipped. *)
CancelGuestsSkipLocked(t) ==
  LET P == {p \in Participants : participant[p] \notin {"CHECKED_OUT", "CANCELLED"} /\ GuestsFree(t, {p})}
  IN  /\ In(t, "cancelVisit", 1)
      /\ Proceed(t) /\ Hold(t, mode[t], P, {})
      /\ who' = [who EXCEPT ![t] = P] /\ UNCHANGED saw

CancelGuests(t) ==
  LET P == {p \in Participants : participant[p] \notin {"CHECKED_OUT", "CANCELLED"}}
  IN  /\ In(t, "cancelVisit", 1) /\ GuestsFree(t, P)
      /\ Proceed(t) /\ Hold(t, mode[t], P, {})
      /\ who' = [who EXCEPT ![t] = P] /\ UNCHANGED saw

CommitCancellation(t) ==
  /\ In(t, "cancelVisit", 2) /\ PassesFree(t, {p \in Participants : Live(p)})
  /\ visit' = "CANCELLED"
  /\ participant' = Becoming(participant, who[t], "CANCELLED")
  /\ pass' = Revoking(Participants)
  /\ End(t)
  /\ UNCHANGED <<today, sched, entries>>

(* Mutant: only the visitor's row is locked, the visit's is not. *)
LockForRemovalLeavesVisit(t, p) ==
  /\ Free(t, "none", {p}, {})
  /\ participant[p] \notin Terminal \cup {"CHECKED_IN"} /\ visit \notin Terminal
  /\ Begin(t, "cancelParticipant", {p}) /\ Hold(t, "none", {p}, {}) /\ UNCHANGED want

(* cancelParticipant: FOR UPDATE OF vv, v. *)
LockForRemoval(t, p) ==
  /\ Free(t, "exclusive", {p}, {})
  /\ participant[p] \notin Terminal \cup {"CHECKED_IN"} /\ visit \notin Terminal
  /\ Begin(t, "cancelParticipant", {p}) /\ Hold(t, "exclusive", {p}, {}) /\ UNCHANGED want

(* The row and the pass are written, and the others are counted. *)
CountRemaining(t) ==
  /\ In(t, "cancelParticipant", 1) /\ PassesFree(t, who[t])
  /\ Proceed(t) /\ Hold(t, mode[t], guests[t], who[t]) /\ Look(t) /\ UNCHANGED who

(* When nobody remains cancelVisitTx cancels the visit too. *)
CommitRemoval(t) ==
  LET others == Participants \ who[t]
      none == \A p \in others : saw[t].party[p] \in {"CANCELLED", "REJECTED"}
      P == IF none THEN {p \in others : participant[p] \notin {"CHECKED_OUT", "CANCELLED"}} ELSE {}
  IN  /\ In(t, "cancelParticipant", 2)
      /\ none => Free(t, "change", P, {p \in others : Live(p)})
      /\ participant' = Becoming(participant, who[t] \cup P, "CANCELLED")
      /\ visit' = IF none THEN "CANCELLED" ELSE visit
      /\ pass' = Revoking(IF none THEN Participants ELSE who[t])
      /\ End(t)
      /\ UNCHANGED <<today, sched, entries>>

-----------------------------------------------------------------------------
(* A new schedule, a new pass. *)

(* updateVisit looks at the status before it begins its transaction. *)
CheckMove(t, day) ==
  /\ visit \in {"PENDING_APPROVAL", "SCHEDULED"}
  /\ Begin(t, "updateVisit", {})
  /\ want' = [want EXCEPT ![t] = day]
  /\ UNCHANGED locks

MoveVisit(t) ==
  /\ In(t, "updateVisit", 1) /\ VisitFree(t, "change")
  /\ Proceed(t) /\ Hold(t, "change", {}, {}) /\ UNCHANGED <<who, saw>>

(* UPDATE qr_tokens finds the rows that are not revoked ... *)
LookAtPasses(t) ==
  /\ In(t, "updateVisit", 2)
  /\ Proceed(t) /\ Look(t)
  /\ who' = [who EXCEPT ![t] = {p \in Participants : Live(p)}]
  /\ UNCHANGED locks

(* ... and writes those of them that still are not when it has them. *)
CommitMove(t) ==
  /\ In(t, "updateVisit", 3) /\ PassesFree(t, who[t])
  /\ sched' = want[t]
  /\ pass' = [p \in Participants |->
                IF p \in who[t] /\ Live(p) /\ pass[p].no = saw[t].numbers[p]
                THEN Moved(p, want[t]) ELSE pass[p]]
  /\ End(t)
  /\ UNCHANGED <<today, visit, participant, entries>>

(* Mutant: the visitor's row is read and not locked. *)
LockForReissueReadsOnly(t, p) ==
  /\ participant[p] \notin Terminal
  /\ Begin(t, "reissueQR", {p}) /\ UNCHANGED <<locks, want>>

(* reissueQR: FOR UPDATE of the visitor's row. *)
LockForReissue(t, p) ==
  /\ GuestsFree(t, {p}) /\ participant[p] \notin Terminal
  /\ Begin(t, "reissueQR", {p}) /\ Hold(t, "none", {p}, {}) /\ UNCHANGED want

(* The visit is read without a lock. *)
ReadVisit(t) ==
  /\ In(t, "reissueQR", 1) /\ visit = "SCHEDULED"
  /\ Proceed(t) /\ Look(t) /\ UNCHANGED <<locks, who>>

(* The old pass is locked and revoked, a new one made out for what was read. *)
CommitReissue(t) ==
  /\ In(t, "reissueQR", 2) /\ PassesFree(t, who[t])
  /\ \A p \in who[t] : pass[p].no < MaxPasses
  /\ pass' = [p \in Participants |-> IF p \in who[t] THEN Issued(p, saw[t].day) ELSE pass[p]]
  /\ End(t)
  /\ UNCHANGED <<today, visit, sched, participant, entries>>

-----------------------------------------------------------------------------
(* The first two statements of runVisitMaintenance; each is a transaction.   *)

LookForMissed(t) ==
  LET P == {p \in Participants : participant[p] = "SCHEDULED" /\ sched < today}
  IN  /\ P # {}
      /\ Begin(t, "noShow", P) /\ UNCHANGED <<locks, want>>

CommitNoShows(t) ==
  /\ In(t, "noShow", 1) /\ Free(t, "share", who[t], {})
  /\ participant' = Becoming(participant, {p \in who[t] : participant[p] = "SCHEDULED"}, "NO_SHOW")
  /\ End(t)
  /\ UNCHANGED <<today, visit, sched, pass, entries>>

LookForClosed(t) ==
  /\ visit = "SCHEDULED" /\ \A p \in Participants : participant[p] = "NO_SHOW"
  /\ Begin(t, "closeVisit", {}) /\ UNCHANGED <<locks, want>>

CommitClosing(t) ==
  /\ In(t, "closeVisit", 1) /\ VisitFree(t, "change")
  /\ visit' = IF visit = "SCHEDULED" THEN "NO_SHOW" ELSE visit
  /\ End(t)
  /\ UNCHANGED <<today, sched, participant, pass, entries>>

-----------------------------------------------------------------------------

(* The handler refuses, the client is gone, a statement exceeds its time, or *)
(* the transaction is the one chosen to break a deadlock: it is rolled back. *)
RollBack(t) ==
  /\ job[t] # "idle"
  /\ End(t)
  /\ UNCHANGED <<today, committed>>

NextDay ==
  /\ today < LastDay /\ today' = today + 1
  /\ UNCHANGED <<committed, session>>

Door(t) ==
  \/ \E p \in Participants : LockForCheckIn(t, p) \/ LockForManualCheckIn(t, p) \/ CheckOut(t, p)
  \/ CommitCheckIn(t)
  \/ AutoCheckout(t) \/ RecordLeaving(t) \/ LookAtParty(t) \/ CommitCheckOut(t)

Approval(t) ==
  \/ \E decision \in {"approve", "reject"} : Decide(t, decision)
  \/ DecideGuests(t) \/ CommitApproval(t) \/ CommitRejection(t)

Cancellation(t) ==
  \/ CancelVisit(t) \/ CancelGuests(t) \/ CommitCancellation(t)
  \/ \E p \in Participants : LockForRemoval(t, p)
  \/ CountRemaining(t) \/ CommitRemoval(t)

Schedule(t) ==
  \/ \E day \in Days : CheckMove(t, day)
  \/ MoveVisit(t) \/ LookAtPasses(t) \/ CommitMove(t)
  \/ \E p \in Participants : LockForReissue(t, p)
  \/ ReadVisit(t) \/ CommitReissue(t)

Sweep(t) == LookForMissed(t) \/ CommitNoShows(t) \/ LookForClosed(t) \/ CommitClosing(t)

Next ==
  \/ \E t \in Sessions : Door(t) \/ Approval(t) \/ Cancellation(t) \/ Schedule(t) \/ Sweep(t) \/ RollBack(t)
  \/ NextDay

Spec == Init /\ [][Next]_vars

-----------------------------------------------------------------------------
(* Invariants. *)

Pass == [no : 0..MaxPasses, state : {"none", "fresh", "used", "revoked"}, day : Days]

View == [party : [Participants -> VisitStatus], day : Days, numbers : [Participants -> 0..MaxPasses]]

TypeOK ==
  /\ today \in Days
  /\ visit \in VisitStatus
  /\ sched \in Days
  /\ participant \in [Participants -> VisitStatus]
  /\ pass \in [Participants -> Pass]
  /\ entries \in [Participants -> 0..2]
  /\ job \in [Sessions -> Job]
  /\ done \in [Sessions -> 0..3]
  /\ who \in [Sessions -> SUBSET Participants]
  /\ want \in [Sessions -> {0} \cup Days]
  /\ saw \in [Sessions -> View \cup {Nothing}]
  /\ mode \in [Sessions -> Mode]
  /\ guests \in [Sessions -> SUBSET Participants]
  /\ passes \in [Sessions -> SUBSET Participants]

(* No two transactions hold locks that conflict. *)
LocksExclude ==
  \A t, u \in Sessions : t # u =>
    /\ ~ Conflict(mode[t], mode[u])
    /\ guests[t] \cap guests[u] = {}
    /\ passes[t] \cap passes[u] = {}

(* The roster finds everybody who is inside under a visit that is CHECKED_IN: *)
(* a check-out that counts the party and a check-in of another visitor never  *)
(* pass each other, because the event row of the one refers to the visit the  *)
(* other has locked.                                                          *)
InsideIsOnRoster ==
  (\E p \in Participants : participant[p] = "CHECKED_IN") => visit = "CHECKED_IN"

(* Nobody comes in twice, by a pass shown at two desks at once, a pass reissued *)
(* while its owner is at the desk, or the desk and the door together.           *)
AdmittedOnce == \A p \in Participants : entries[p] <= 1

(* A visit that is cancelled or rejected has nobody expected or inside, and no *)
(* pass to it is left, however the cancellation overlapped the door.           *)
ClosedIsClosed ==
  \A p \in Participants :
    /\ visit = "CANCELLED" => participant[p] \in {"CANCELLED", "CHECKED_OUT"} /\ ~ Live(p)
    /\ visit = "REJECTED" => participant[p] = "REJECTED" /\ ~ Live(p)

(* Whoever is expected holds a pass the door has not consumed; nobody holds *)
(* one who was cancelled.                                                   *)
ExpectedGuestsHavePasses ==
  \A p \in Participants :
    /\ participant[p] = "SCHEDULED" => pass[p].state = "fresh"
    /\ participant[p] \in {"CANCELLED", "REJECTED"} => ~ Live(p)

(* Two hosts who cancel the last two visitors at the same time do not leave *)
(* an open visit without visitors behind.                                   *)
NoVisitWithoutVisitors ==
  (\A p \in Participants : participant[p] = "CANCELLED") => visit = "CANCELLED"

(* Which visitors may stand under a visit of a given status. *)
Compatible(of, status) ==
  /\ of = "PENDING_APPROVAL" => status \in {"PENDING_APPROVAL", "CANCELLED"}
  /\ of = "SCHEDULED" => status \in {"SCHEDULED", "CHECKED_OUT", "CANCELLED", "NO_SHOW"}
  /\ of = "CHECKED_IN" => status \notin {"PENDING_APPROVAL", "REJECTED"}
  /\ of = "CHECKED_OUT" => status \in {"CHECKED_OUT", "CANCELLED", "NO_SHOW"}
  /\ of = "CANCELLED" => status \in {"CHECKED_OUT", "CANCELLED"}
  /\ of = "REJECTED" => status = "REJECTED"
  /\ of = "NO_SHOW" => status = "NO_SHOW"

(* The tables agree about one visitor: the status fits the visit's, the pass   *)
(* is what that status calls for, and the log holds at most one arrival.      *)
RecordAgrees(p) ==
  /\ Compatible(visit, participant[p])
  /\ participant[p] = "SCHEDULED" => pass[p].state = "fresh"
  /\ participant[p] \in {"CANCELLED", "REJECTED", "PENDING_APPROVAL"} => ~ Live(p)
  /\ pass[p].state = "fresh" => participant[p] \in {"SCHEDULED", "NO_SHOW"} /\ entries[p] = 0
  /\ visit = "PENDING_APPROVAL" => entries[p] = 0
  /\ visit = "CANCELLED" => ~ Live(p)
  /\ entries[p] <= 1

RecordsAgree == \A p \in Participants : RecordAgrees(p)

(* What a transaction in progress may rely on: what it has found and locked  *)
(* is still so, though other transactions have committed meanwhile.          *)
DoorAgrees(t) == job[t] \in {"checkIn", "manualCheckIn"} =>
  /\ mode[t] = "exclusive" /\ who[t] \subseteq guests[t] /\ who[t] # {}
  /\ visit \in {"SCHEDULED", "CHECKED_IN"}
  /\ \A p \in who[t] : participant[p] = "SCHEDULED"

LeavingAgrees(t) == job[t] = "checkOut" =>
  /\ who[t] \subseteq guests[t] /\ who[t] # {}
  /\ \A p \in who[t] : participant[p] = "CHECKED_IN"
  /\ done[t] \in {2, 3} => mode[t] = "share"
  /\ done[t] = 3 =>
       /\ saw[t] \in View
       /\ \A p \in Participants \ who[t] :
            /\ participant[p] = "CHECKED_IN" => saw[t].party[p] = "CHECKED_IN"
            /\ participant[p] = "SCHEDULED" => saw[t].party[p] = "SCHEDULED"

DecisionAgrees(t) == job[t] \in {"approve", "reject"} =>
  /\ mode[t] = "change" /\ visit = "PENDING_APPROVAL"
  /\ done[t] = 2 => guests[t] = Participants

CancellationAgrees(t) == job[t] = "cancelVisit" =>
  /\ mode[t] = "change" /\ visit \notin {"CHECKED_OUT", "CANCELLED", "REJECTED"}
  /\ done[t] = 2 =>
       /\ who[t] \subseteq guests[t]
       /\ \A p \in Participants \ who[t] : participant[p] \in {"CHECKED_OUT", "CANCELLED"}

RemovalAgrees(t) == job[t] = "cancelParticipant" =>
  /\ mode[t] = "exclusive" /\ who[t] \subseteq guests[t] /\ who[t] # {}
  /\ visit \notin Terminal
  /\ \A p \in who[t] : participant[p] \in {"PENDING_APPROVAL", "SCHEDULED"}
  /\ done[t] = 2 => saw[t] \in View /\ saw[t].party = participant

MoveAgrees(t) == job[t] = "updateVisit" =>
  /\ want[t] \in Days
  /\ done[t] = 3 => saw[t] \in View

ReissueAgrees(t) == job[t] = "reissueQR" =>
  /\ who[t] \subseteq guests[t]
  /\ \A p \in who[t] : participant[p] \notin Terminal
  /\ done[t] = 2 => saw[t] \in View /\ \A p \in who[t] : participant[p] = "SCHEDULED"

ClosingAgrees(t) == job[t] = "closeVisit" =>
  visit = "CANCELLED" \/ \A p \in Participants : participant[p] = "NO_SHOW"

SessionAgrees(t) ==
  /\ DoorAgrees(t) /\ LeavingAgrees(t) /\ DecisionAgrees(t) /\ CancellationAgrees(t)
  /\ RemovalAgrees(t) /\ MoveAgrees(t) /\ ReissueAgrees(t) /\ ClosingAgrees(t)

SessionsAgree == \A t \in Sessions : SessionAgrees(t)

(* The inductive invariant of VisitTransactionsProofs. *)
IInv ==
  /\ TypeOK
  /\ LocksExclude
  /\ RecordsAgree
  /\ InsideIsOnRoster
  /\ NoVisitWithoutVisitors
  /\ SessionsAgree

-----------------------------------------------------------------------------
(* Action properties. *)

(* A cancelled or rejected visit stays so: neither a decision, nor a recount, *)
(* nor a sweep that began before writes over it.                              *)
EndIsFinal == [][(visit \in {"CANCELLED", "REJECTED"}) => visit' = visit]_visit

(* Seen from the door. *)
Place(p) == IF participant[p] = "CHECKED_IN" THEN "inside"
            ELSE IF entries[p] = 0 THEN "away" ELSE "gone"

Occ == INSTANCE Occupancy WITH place <- [p \in Participants |-> Place(p)]

(* However the statements of two desks, a cancellation and the sweeps         *)
(* interleave, each visitor comes in once and goes out once, as if handlers   *)
(* took turns: VisitLifecycle, where they do, implements the same list.       *)
ImplementsOccupancy == Occ!Spec

-----------------------------------------------------------------------------
(* What the documents say and the code does not do. *)

(* docs/ARCHITECTURE.md: a visit goes from CHECKED_IN to CHECKED_OUT; it is   *)
(* not CHECKED_IN with nobody inside.                                         *)
EmptyVisitIsOver ==
  visit = "CHECKED_IN" => \E p \in Participants : participant[p] = "CHECKED_IN"
=============================================================================
