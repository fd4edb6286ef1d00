---------------------- MODULE VisitTransactionsProofs ----------------------
(***************************************************************************)
(* Theorems about VisitTransactions: what row locks and statement          *)
(* snapshots guarantee, for any party, any number of sessions and any      *)
(* number of days.                                                         *)
(***************************************************************************)
EXTENDS VisitTransactions, TLAPS

(* Locks that are free for t do not conflict with anybody's once t has them. *)
LEMMA TakingFreeLocks ==
  ASSUME TypeOK, LocksExclude, NEW t \in Sessions, NEW m \in Mode,
         NEW P \in SUBSET Participants, NEW Q \in SUBSET Participants,
         Free(t, m, P, Q), Hold(t, m, P, Q)
  PROVE  LocksExclude'
<1>1. \A u \in Sessions : mode'[u] = IF u = t THEN m ELSE mode[u]
  BY DEF Hold, TypeOK
<1>2. \A u \in Sessions : guests'[u] = IF u = t THEN P ELSE guests[u]
  BY DEF Hold, TypeOK
<1>3. \A u \in Sessions : passes'[u] = IF u = t THEN Q ELSE passes[u]
  BY DEF Hold, TypeOK
<1> SUFFICES ASSUME NEW a \in Sessions, NEW b \in Sessions, a # b
             PROVE  /\ ~ Conflict(mode'[a], mode'[b])
                    /\ guests'[a] \cap guests'[b] = {}
                    /\ passes'[a] \cap passes'[b] = {}
  BY DEF LocksExclude, Conflict
<1>4. CASE a # t /\ b # t
  BY <1>1, <1>2, <1>3, <1>4 DEF LocksExclude
<1>5. CASE a = t
  BY <1>1, <1>2, <1>3, <1>5 DEF Free, VisitFree, GuestsFree, PassesFree
<1>6. CASE b = t
  BY <1>1, <1>2, <1>3, <1>6 DEF Free, VisitFree, GuestsFree, PassesFree, Conflict
<1> QED BY <1>4, <1>5, <1>6

(* What a session holds already is free for it. *)
LEMMA OwnLocksAreFree ==
  ASSUME TypeOK, LocksExclude, NEW t \in Sessions
  PROVE  Free(t, mode[t], guests[t], passes[t])
BY DEF LocksExclude, Free, VisitFree, GuestsFree, PassesFree

LEMMA NoLocksAreFree ==
  ASSUME NEW t \in Sessions
  PROVE  Free(t, "none", {}, {})
BY DEF Free, VisitFree, GuestsFree, PassesFree, Conflict

(* A transaction that ends leaves no conflict. *)
LEMMA EndingReleases ==
  ASSUME TypeOK, LocksExclude, NEW t \in Sessions, End(t)
  PROVE  LocksExclude'
<1>1. "none" \in Mode
  BY DEF Mode
<1> QED BY <1>1, NoLocksAreFree, TakingFreeLocks DEF End

(* No step makes two transactions hold locks that conflict. *)
LEMMA LocksStayExclusive ==
  ASSUME TypeOK, LocksExclude, [Next]_vars
  PROVE  LocksExclude'
<1> USE DEF Mode
<1> DEFINE Frees(t, m, P, Q) == Free(t, m, P, Q) /\ Hold(t, m, P, Q)
<1>1. ASSUME UNCHANGED locks PROVE LocksExclude'
  BY <1>1 DEF locks, LocksExclude, Conflict
<1>2. ASSUME NEW t \in Sessions, NEW p \in Participants, LockForCheckIn(t, p) PROVE LocksExclude'
  BY <1>2, TakingFreeLocks DEF LockForCheckIn
<1>3. ASSUME NEW t \in Sessions, NEW p \in Participants, LockForManualCheckIn(t, p) PROVE LocksExclude'
  BY <1>3, TakingFreeLocks DEF LockForManualCheckIn
<1>4. ASSUME NEW t \in Sessions, NEW P \in SUBSET Participants, TakeLeavers(t, P) PROVE LocksExclude'
  <2>1. Free(t, "none", P, {})
    BY <1>4 DEF TakeLeavers, Free, VisitFree, GuestsFree, PassesFree, Conflict
  <2> QED BY <1>4, <2>1, TakingFreeLocks DEF TakeLeavers
<1>5. ASSUME NEW t \in Sessions, RecordLeaving(t) PROVE LocksExclude'
  <2>1. Free(t, "share", guests[t], {})
    BY <1>5, OwnLocksAreFree DEF RecordLeaving, Free, PassesFree
  <2>2. guests[t] \in SUBSET Participants
    BY DEF TypeOK
  <2> QED BY <1>5, <2>1, <2>2, TakingFreeLocks DEF RecordLeaving
<1>6. ASSUME NEW t \in Sessions, NEW d, Decide(t, d) PROVE LocksExclude'
  <2>1. Free(t, "change", {}, {})
    BY <1>6 DEF Decide, Free, GuestsFree, PassesFree
  <2> QED BY <1>6, <2>1, TakingFreeLocks DEF Decide
<1>7. ASSUME NEW t \in Sessions, DecideGuests(t) PROVE LocksExclude'
  <2>1. Free(t, mode[t], Participants, {})
    BY <1>7, OwnLocksAreFree DEF DecideGuests, Free, PassesFree
  <2>2. mode[t] \in Mode
    BY DEF TypeOK
  <2> QED BY <1>7, <2>1, <2>2, TakingFreeLocks DEF DecideGuests
<1>8. ASSUME NEW t \in Sessions, CancelVisit(t) PROVE LocksExclude'
  <2>1. Free(t, "change", {}, {})
    BY <1>8 DEF CancelVisit, Free, GuestsFree, PassesFree
  <2> QED BY <1>8, <2>1, TakingFreeLocks DEF CancelVisit
<1>9. ASSUME NEW t \in Sessions, CancelGuests(t) PROVE LocksExclude'
  <2> DEFINE P == {p \in Participants : participant[p] \notin {"CHECKED_OUT", "CANCELLED"}}
  <2>1. GuestsFree(t, P) /\ Hold(t, mode[t], P, {})
    BY <1>9 DEF CancelGuests
  <2>2. Free(t, mode[t], P, {})
    BY <2>1, OwnLocksAreFree DEF Free, PassesFree
  <2>3. mode[t] \in Mode /\ P \in SUBSET Participants
    BY DEF TypeOK
  <2> QED BY <2>1, <2>2, <2>3, TakingFreeLocks
<1>10. ASSUME NEW t \in Sessions, NEW p \in Participants, LockForRemoval(t, p) PROVE LocksExclude'
  BY <1>10, TakingFreeLocks DEF LockForRemoval
<1>11. ASSUME NEW t \in Sessions, CountRemaining(t) PROVE LocksExclude'
  <2>1. Free(t, mode[t], guests[t], who[t])
    BY <1>11, OwnLocksAreFree DEF CountRemaining, Free
  <2>2. mode[t] \in Mode /\ guests[t] \in SUBSET Participants /\ who[t] \in SUBSET Participants
    BY DEF TypeOK
  <2> QED BY <1>11, <2>1, <2>2, TakingFreeLocks DEF CountRemaining
<1>12. ASSUME NEW t \in Sessions, MoveVisit(t) PROVE LocksExclude'
  <2>1. Free(t, "change", {}, {})
    BY <1>12 DEF MoveVisit, Free, GuestsFree, PassesFree
  <2> QED BY <1>12, <2>1, TakingFreeLocks DEF MoveVisit
<1>13. ASSUME NEW t \in Sessions, NEW p \in Participants, LockForReissue(t, p) PROVE LocksExclude'
  <2>1. Free(t, "none", {p}, {})
    BY <1>13 DEF LockForReissue, Free, VisitFree, PassesFree, Conflict
  <2> QED BY <1>13, <2>1, TakingFreeLocks DEF LockForReissue
<1>14. ASSUME NEW t \in Sessions, End(t) PROVE LocksExclude'
  BY <1>14, EndingReleases
<1>15. ASSUME NEW t \in Sessions, Door(t) PROVE LocksExclude'
  <2>1. {p \in Participants : participant[p] = "CHECKED_IN"} \in SUBSET Participants
    OBVIOUS
  <2> QED BY <1>1, <1>2, <1>3, <1>4, <1>5, <1>14, <1>15, <2>1
          DEF Door, CheckOut, AutoCheckout, CommitCheckIn, LookAtParty, CommitCheckOut
<1>16. ASSUME NEW t \in Sessions, Approval(t) PROVE LocksExclude'
  BY <1>6, <1>7, <1>14, <1>16 DEF Approval, CommitApproval, CommitRejection
<1>17. ASSUME NEW t \in Sessions, Cancellation(t) PROVE LocksExclude'
  BY <1>8, <1>9, <1>10, <1>11, <1>14, <1>17 DEF Cancellation, CommitCancellation, CommitRemoval
<1>18. ASSUME NEW t \in Sessions, Schedule(t) PROVE LocksExclude'
  BY <1>1, <1>12, <1>13, <1>14, <1>18
     DEF Schedule, CheckMove, LookAtPasses, CommitMove, ReadVisit, CommitReissue
<1>19. ASSUME NEW t \in Sessions, Sweep(t) PROVE LocksExclude'
  BY <1>1, <1>14, <1>19 DEF Sweep, LookForMissed, CommitNoShows, LookForClosed, CommitClosing
<1>20. ASSUME NEW t \in Sessions, RollBack(t) PROVE LocksExclude'
  BY <1>14, <1>20 DEF RollBack
<1>21. CASE NextDay
  BY <1>1, <1>21 DEF NextDay, session
<1>22. CASE UNCHANGED vars
  BY <1>1, <1>22 DEF vars, session
<1> QED BY <1>15, <1>16, <1>17, <1>18, <1>19, <1>20, <1>21, <1>22 DEF Next
-----------------------------------------------------------------------------
(* Types. *)

(* What a statement sees is a snapshot of the party. *)
LEMMA SnapshotIsView ==
  ASSUME TypeOK
  PROVE  Snapshot \in View
<1>1. Numbers \in [Participants -> 0..MaxPasses]
  BY DEF TypeOK, Numbers, Pass
<1> QED BY <1>1 DEF TypeOK, Snapshot, View

(* The records of one step of t leave the sessions well-typed. *)
LEMMA EndingTypes ==
  ASSUME TypeOK, NEW t \in Sessions, End(t)
  PROVE  /\ job' \in [Sessions -> Job] /\ done' \in [Sessions -> 0..3]
         /\ who' \in [Sessions -> SUBSET Participants]
         /\ want' \in [Sessions -> {0} \cup Days]
         /\ saw' \in [Sessions -> View \cup {Nothing}]
         /\ mode' \in [Sessions -> Mode]
         /\ guests' \in [Sessions -> SUBSET Participants]
         /\ passes' \in [Sessions -> SUBSET Participants]
BY DEF TypeOK, End, Hold, Job, Mode

LEMMA HoldTypes ==
  ASSUME TypeOK, NEW t \in Sessions, NEW m \in Mode,
         NEW P \in SUBSET Participants, NEW Q \in SUBSET Participants, Hold(t, m, P, Q)
  PROVE  /\ mode' \in [Sessions -> Mode]
         /\ guests' \in [Sessions -> SUBSET Participants]
         /\ passes' \in [Sessions -> SUBSET Participants]
BY DEF TypeOK, Hold

(* The first statement of a handler. *)
LEMMA BeginTypes ==
  ASSUME TypeOK, NEW t \in Sessions, NEW j \in Job, NEW P \in SUBSET Participants,
         Begin(t, j, P), want' \in [Sessions -> {0} \cup Days],
         mode' \in [Sessions -> Mode], guests' \in [Sessions -> SUBSET Participants],
         passes' \in [Sessions -> SUBSET Participants]
  PROVE  TypeOK'
<1>1. /\ job' \in [Sessions -> Job] /\ done' \in [Sessions -> 0..3]
      /\ who' \in [Sessions -> SUBSET Participants]
  BY DEF TypeOK, Begin
<1>2. UNCHANGED <<today, visit, sched, participant, pass, entries, saw>>
  BY DEF Begin, committed
<1> QED BY <1>1, <1>2 DEF TypeOK

(* A later statement of a handler. *)
LEMMA ProceedTypes ==
  ASSUME TypeOK, NEW t \in Sessions, done[t] \in 0..2, Proceed(t),
         who' \in [Sessions -> SUBSET Participants],
         saw' = saw \/ Look(t),
         mode' \in [Sessions -> Mode], guests' \in [Sessions -> SUBSET Participants],
         passes' \in [Sessions -> SUBSET Participants]
  PROVE  TypeOK'
<1>1. saw' \in [Sessions -> View \cup {Nothing}]
  BY SnapshotIsView DEF TypeOK, Look
<1>2. done' \in [Sessions -> 0..3]
  BY DEF TypeOK, Proceed
<1> QED BY <1>1, <1>2 DEF TypeOK, Proceed, committed

(* The same, when the statement takes locks. *)
LEMMA BeginHoldTypes ==
  ASSUME TypeOK, NEW t \in Sessions, NEW j \in Job, NEW P \in SUBSET Participants, NEW m \in Mode,
         NEW G \in SUBSET Participants, NEW Q \in SUBSET Participants,
         Begin(t, j, P), Hold(t, m, G, Q), want' = want
  PROVE  TypeOK'
<1>1. /\ mode' \in [Sessions -> Mode] /\ guests' \in [Sessions -> SUBSET Participants]
      /\ passes' \in [Sessions -> SUBSET Participants]
  BY HoldTypes
<1>2. want' \in [Sessions -> {0} \cup Days]
  BY DEF TypeOK
<1> QED BY <1>1, <1>2, BeginTypes

LEMMA ProceedHoldTypes ==
  ASSUME TypeOK, NEW t \in Sessions, NEW m \in Mode,
         NEW G \in SUBSET Participants, NEW Q \in SUBSET Participants,
         done[t] \in 0..2, Proceed(t), Hold(t, m, G, Q), saw' = saw \/ Look(t),
         who' \in [Sessions -> SUBSET Participants]
  PROVE  TypeOK'
<1>1. /\ mode' \in [Sessions -> Mode] /\ guests' \in [Sessions -> SUBSET Participants]
      /\ passes' \in [Sessions -> SUBSET Participants]
  BY HoldTypes
<1> QED BY <1>1, ProceedTypes

LEMMA InitTypes == Init => TypeOK
BY TransactionsAssumption DEF Init, TypeOK, Days, VisitStatus, Job, Mode, Pass

LEMMA BecomingTypes ==
  ASSUME TypeOK, NEW P, NEW s \in VisitStatus
  PROVE  Becoming(participant, P, s) \in [Participants -> VisitStatus]
BY DEF TypeOK, Becoming

LEMMA MarkedTypes ==
  ASSUME TypeOK, NEW p \in Participants, NEW s \in {"none", "fresh", "used", "revoked"}
  PROVE  Marked(p, s) \in Pass
BY DEF TypeOK, Marked, Pass

LEMMA RevokingTypes ==
  ASSUME TypeOK, NEW P
  PROVE  Revoking(P) \in [Participants -> Pass]
<1>1. \A p \in Participants : pass[p] \in Pass /\ Marked(p, "revoked") \in Pass
  BY MarkedTypes DEF TypeOK
<1> QED BY <1>1 DEF Revoking

LEMMA IssuedTypes ==
  ASSUME TypeOK, NEW p \in Participants, NEW day \in Days, pass[p].no < MaxPasses
  PROVE  Issued(p, day) \in Pass
BY TransactionsAssumption DEF TypeOK, Issued, Pass

(* The types of the tables, which a transaction writes when it ends. *)
Tables ==
  /\ visit \in VisitStatus
  /\ sched \in Days
  /\ participant \in [Participants -> VisitStatus]
  /\ pass \in [Participants -> Pass]
  /\ entries \in [Participants -> 0..2]

LEMMA CommitTypes ==
  ASSUME TypeOK, NEW t \in Sessions, End(t), today' = today, Tables'
  PROVE  TypeOK'
BY EndingTypes DEF TypeOK, Tables

LEMMA DoorTypes ==
  ASSUME TypeOK, NEW t \in Sessions, Door(t)
  PROVE  TypeOK'
<1> USE DEF Job, Mode
<1>1. ASSUME NEW p \in Participants, LockForCheckIn(t, p) PROVE TypeOK'
  <2>1. Begin(t, "checkIn", {p}) /\ Hold(t, "exclusive", {p}, {p}) /\ want' = want
    BY <1>1 DEF LockForCheckIn
  <2> QED BY <2>1, BeginHoldTypes
<1>2. ASSUME NEW p \in Participants, LockForManualCheckIn(t, p) PROVE TypeOK'
  <2>1. Begin(t, "manualCheckIn", {p}) /\ Hold(t, "exclusive", {p}, {}) /\ want' = want
    BY <1>2 DEF LockForManualCheckIn
  <2> QED BY <2>1, BeginHoldTypes
<1>3. ASSUME NEW P \in SUBSET Participants, TakeLeavers(t, P) PROVE TypeOK'
  <2>1. Begin(t, "checkOut", P) /\ Hold(t, "none", P, {}) /\ want' = want
    BY <1>3 DEF TakeLeavers
  <2> QED BY <2>1, BeginHoldTypes
<1>4. CASE CommitCheckIn(t)
  <2>1. participant' \in [Participants -> VisitStatus]
    BY <1>4, BecomingTypes DEF CommitCheckIn, VisitStatus
  <2>2. pass' \in [Participants -> Pass]
    BY <1>4, MarkedTypes DEF CommitCheckIn, TypeOK
  <2>3. entries' \in [Participants -> 0..2]
    BY <1>4 DEF CommitCheckIn, TypeOK, Counted
  <2>4. visit' \in VisitStatus /\ sched' \in Days
    BY <1>4 DEF CommitCheckIn, TypeOK, VisitStatus
  <2>5. Tables'
    BY <2>1, <2>2, <2>3, <2>4 DEF Tables
  <2> QED BY <1>4, <2>5, CommitTypes DEF CommitCheckIn
<1>5. CASE RecordLeaving(t)
  <2>1. Proceed(t) /\ Hold(t, "share", guests[t], {}) /\ done[t] \in 0..2 /\ saw' = saw /\ who' = who
    BY <1>5 DEF RecordLeaving, In
  <2>2. guests[t] \in SUBSET Participants /\ who' \in [Sessions -> SUBSET Participants]
    BY <2>1 DEF TypeOK
  <2> QED BY <2>1, <2>2, ProceedHoldTypes
<1>6. CASE LookAtParty(t)
  <2>1. Proceed(t) /\ Look(t) /\ done[t] \in 0..2 /\ UNCHANGED <<mode, guests, passes, who>>
    BY <1>6 DEF LookAtParty, In, locks
  <2>2. /\ who' \in [Sessions -> SUBSET Participants] /\ mode' \in [Sessions -> Mode]
        /\ guests' \in [Sessions -> SUBSET Participants] /\ passes' \in [Sessions -> SUBSET Participants]
    BY <2>1 DEF TypeOK
  <2> QED BY <2>1, <2>2, ProceedTypes
<1>7. CASE CommitCheckOut(t)
  <2>1. participant' \in [Participants -> VisitStatus]
    BY <1>7, BecomingTypes DEF CommitCheckOut, VisitStatus
  <2>2. visit' \in VisitStatus
    BY <1>7 DEF CommitCheckOut, Recount, VisitStatus
  <2>3. Tables'
    BY <1>7, <2>1, <2>2 DEF Tables, CommitCheckOut, TypeOK
  <2> QED BY <1>7, <2>3, CommitTypes DEF CommitCheckOut
<1>8. {p \in Participants : participant[p] = "CHECKED_IN"} \in SUBSET Participants
  OBVIOUS
<1> QED BY <1>1, <1>2, <1>3, <1>4, <1>5, <1>6, <1>7, <1>8 DEF Door, CheckOut, AutoCheckout

LEMMA ApprovalTypes ==
  ASSUME TypeOK, NEW t \in Sessions, Approval(t)
  PROVE  TypeOK'
<1> USE DEF Job, Mode
<1>1. ASSUME NEW d \in {"approve", "reject"}, Decide(t, d) PROVE TypeOK'
  <2>1. Begin(t, d, Participants) /\ Hold(t, "change", {}, {}) /\ want' = want
    BY <1>1 DEF Decide
  <2> QED BY <2>1, BeginHoldTypes
<1>2. CASE DecideGuests(t)
  <2>1. Proceed(t) /\ Hold(t, mode[t], Participants, {}) /\ done[t] \in 0..2 /\ saw' = saw /\ who' = who
    BY <1>2 DEF DecideGuests, In
  <2>2. mode[t] \in Mode /\ who' \in [Sessions -> SUBSET Participants]
    BY <2>1 DEF TypeOK
  <2> QED BY <2>1, <2>2, ProceedHoldTypes
<1>3. CASE CommitApproval(t)
  <2>1. participant' \in [Participants -> VisitStatus]
    BY <1>3, BecomingTypes DEF CommitApproval, VisitStatus
  <2>2. pass' \in [Participants -> Pass]
    BY <1>3, IssuedTypes DEF CommitApproval, TypeOK
  <2>3. Tables'
    BY <1>3, <2>1, <2>2 DEF Tables, CommitApproval, TypeOK, VisitStatus
  <2> QED BY <1>3, <2>3, CommitTypes DEF CommitApproval
<1>4. CASE CommitRejection(t)
  <2>1. participant' \in [Participants -> VisitStatus]
    BY <1>4, BecomingTypes DEF CommitRejection, VisitStatus
  <2>2. Tables'
    BY <1>4, <2>1 DEF Tables, CommitRejection, TypeOK, VisitStatus
  <2> QED BY <1>4, <2>2, CommitTypes DEF CommitRejection
<1> QED BY <1>1, <1>2, <1>3, <1>4 DEF Approval

LEMMA CancellationTypes ==
  ASSUME TypeOK, NEW t \in Sessions, Cancellation(t)
  PROVE  TypeOK'
<1> USE DEF Job, Mode
<1>1. CASE CancelVisit(t)
  <2>1. Begin(t, "cancelVisit", {}) /\ Hold(t, "change", {}, {}) /\ want' = want
    BY <1>1 DEF CancelVisit
  <2> QED BY <2>1, BeginHoldTypes
<1>2. CASE CancelGuests(t)
  <2> DEFINE P == {p \in Participants : participant[p] \notin {"CHECKED_OUT", "CANCELLED"}}
  <2>1. Proceed(t) /\ Hold(t, mode[t], P, {}) /\ done[t] \in 0..2 /\ saw' = saw
    BY <1>2 DEF CancelGuests, In
  <2>2. who' = [who EXCEPT ![t] = P]
    BY <1>2 DEF CancelGuests
  <2>3. P \in SUBSET Participants
    OBVIOUS
  <2> HIDE DEF P
  <2>4. mode[t] \in Mode /\ who' \in [Sessions -> SUBSET Participants]
    BY <2>2, <2>3 DEF TypeOK
  <2> QED BY <2>1, <2>3, <2>4, ProceedHoldTypes
<1>3. CASE CommitCancellation(t)
  <2>1. participant' \in [Participants -> VisitStatus]
    BY <1>3, BecomingTypes DEF CommitCancellation, VisitStatus
  <2>2. pass' \in [Participants -> Pass]
    BY <1>3, RevokingTypes DEF CommitCancellation
  <2>3. Tables'
    BY <1>3, <2>1, <2>2 DEF Tables, CommitCancellation, TypeOK, VisitStatus
  <2> QED BY <1>3, <2>3, CommitTypes DEF CommitCancellation
<1>4. ASSUME NEW p \in Participants, LockForRemoval(t, p) PROVE TypeOK'
  <2>1. Begin(t, "cancelParticipant", {p}) /\ Hold(t, "exclusive", {p}, {}) /\ want' = want
    BY <1>4 DEF LockForRemoval
  <2> QED BY <2>1, BeginHoldTypes
<1>5. CASE CountRemaining(t)
  <2>1. Proceed(t) /\ Hold(t, mode[t], guests[t], who[t]) /\ done[t] \in 0..2 /\ Look(t) /\ who' = who
    BY <1>5 DEF CountRemaining, In
  <2>2. mode[t] \in Mode /\ guests[t] \in SUBSET Participants /\ who[t] \in SUBSET Participants
    BY DEF TypeOK
  <2>3. who' \in [Sessions -> SUBSET Participants]
    BY <2>1 DEF TypeOK
  <2> QED BY <2>1, <2>2, <2>3, ProceedHoldTypes
<1>6. CASE CommitRemoval(t)
  <2>1. participant' \in [Participants -> VisitStatus]
    BY <1>6, BecomingTypes DEF CommitRemoval, VisitStatus
  <2>2. pass' \in [Participants -> Pass]
    BY <1>6, RevokingTypes DEF CommitRemoval
  <2>3. End(t) /\ UNCHANGED <<today, sched, entries>> /\ visit' \in {"CANCELLED", visit}
    BY <1>6 DEF CommitRemoval
  <2>4. Tables'
    BY <2>1, <2>2, <2>3 DEF Tables, TypeOK, VisitStatus
  <2> QED BY <2>3, <2>4, CommitTypes
<1> QED BY <1>1, <1>2, <1>3, <1>4, <1>5, <1>6 DEF Cancellation

LEMMA ScheduleTypes ==
  ASSUME TypeOK, SessionsAgree, NEW t \in Sessions, Schedule(t)
  PROVE  TypeOK'
<1> USE DEF Job, Mode
<1>1. ASSUME NEW day \in Days, CheckMove(t, day) PROVE TypeOK'
  <2>1. Begin(t, "updateVisit", {}) /\ want' = [want EXCEPT ![t] = day] /\ UNCHANGED <<mode, guests, passes>>
    BY <1>1 DEF CheckMove, locks
  <2>2. /\ want' \in [Sessions -> {0} \cup Days] /\ mode' \in [Sessions -> Mode]
        /\ guests' \in [Sessions -> SUBSET Participants] /\ passes' \in [Sessions -> SUBSET Participants]
    BY <2>1 DEF TypeOK
  <2> QED BY <2>1, <2>2, BeginTypes
<1>2. CASE MoveVisit(t)
  <2>1. Proceed(t) /\ Hold(t, "change", {}, {}) /\ done[t] \in 0..2 /\ saw' = saw /\ who' = who
    BY <1>2 DEF MoveVisit, In
  <2>2. who' \in [Sessions -> SUBSET Participants]
    BY <2>1 DEF TypeOK
  <2> QED BY <2>1, <2>2, ProceedHoldTypes
<1>3. CASE LookAtPasses(t)
  <2>1. Proceed(t) /\ Look(t) /\ done[t] \in 0..2 /\ UNCHANGED <<mode, guests, passes>>
    BY <1>3 DEF LookAtPasses, In, locks
  <2>2. who' = [who EXCEPT ![t] = {p \in Participants : Live(p)}]
    BY <1>3 DEF LookAtPasses
  <2>3. /\ who' \in [Sessions -> SUBSET Participants] /\ mode' \in [Sessions -> Mode]
        /\ guests' \in [Sessions -> SUBSET Participants] /\ passes' \in [Sessions -> SUBSET Participants]
    BY <2>1, <2>2 DEF TypeOK
  <2> QED BY <2>1, <2>3, ProceedTypes
<1>4. CASE CommitMove(t)
  <2>1. want[t] \in Days
    BY <1>4 DEF SessionsAgree, SessionAgrees, MoveAgrees, CommitMove, In
  <2>2. \A p \in Participants : pass[p] \in Pass /\ Moved(p, want[t]) \in Pass
    BY <2>1 DEF TypeOK, Moved, Pass
  <2>3. pass' \in [Participants -> Pass]
    BY <1>4, <2>2 DEF CommitMove
  <2>4. End(t) /\ UNCHANGED <<today, visit, participant, entries>> /\ sched' = want[t]
    BY <1>4 DEF CommitMove
  <2>5. Tables'
    BY <2>1, <2>3, <2>4 DEF Tables, TypeOK
  <2> QED BY <2>4, <2>5, CommitTypes
<1>5. ASSUME NEW p \in Participants, LockForReissue(t, p) PROVE TypeOK'
  <2>1. Begin(t, "reissueQR", {p}) /\ Hold(t, "none", {p}, {}) /\ want' = want
    BY <1>5 DEF LockForReissue
  <2> QED BY <2>1, BeginHoldTypes
<1>6. CASE ReadVisit(t)
  <2>1. Proceed(t) /\ Look(t) /\ done[t] \in 0..2 /\ UNCHANGED <<mode, guests, passes, who>>
    BY <1>6 DEF ReadVisit, In, locks
  <2>2. /\ who' \in [Sessions -> SUBSET Participants] /\ mode' \in [Sessions -> Mode]
        /\ guests' \in [Sessions -> SUBSET Participants] /\ passes' \in [Sessions -> SUBSET Participants]
    BY <2>1 DEF TypeOK
  <2> QED BY <2>1, <2>2, ProceedTypes
<1>7. CASE CommitReissue(t)
  <2>1. saw[t].day \in Days
    BY <1>7 DEF SessionsAgree, SessionAgrees, ReissueAgrees, CommitReissue, In, View
  <2>2. \A p \in Participants : pass[p] \in Pass
    BY DEF TypeOK
  <2>3. \A p \in who[t] : Issued(p, saw[t].day) \in Pass
    BY <1>7, <2>1, IssuedTypes DEF CommitReissue, TypeOK
  <2>4. pass' \in [Participants -> Pass]
    BY <1>7, <2>2, <2>3 DEF CommitReissue
  <2>5. End(t) /\ UNCHANGED <<today, visit, sched, participant, entries>>
    BY <1>7 DEF CommitReissue
  <2>6. Tables'
    BY <2>4, <2>5 DEF Tables, TypeOK
  <2> QED BY <2>5, <2>6, CommitTypes
<1> QED BY <1>1, <1>2, <1>3, <1>4, <1>5, <1>6, <1>7 DEF Schedule

LEMMA SweepTypes ==
  ASSUME TypeOK, NEW t \in Sessions, Sweep(t)
  PROVE  TypeOK'
<1> USE DEF Job, Mode
<1>1. ASSUME NEW j \in Job, NEW P \in SUBSET Participants, Begin(t, j, P), UNCHANGED <<locks, want>>
      PROVE  TypeOK'
  <2>1. /\ want' \in [Sessions -> {0} \cup Days] /\ mode' \in [Sessions -> Mode]
        /\ guests' \in [Sessions -> SUBSET Participants] /\ passes' \in [Sessions -> SUBSET Participants]
    BY <1>1 DEF TypeOK, locks
  <2> QED BY <1>1, <2>1, BeginTypes
<1>2. CASE LookForMissed(t)
  <2> DEFINE P == {p \in Participants : participant[p] = "SCHEDULED" /\ sched < today}
  <2>1. Begin(t, "noShow", P) /\ UNCHANGED <<locks, want>>
    BY <1>2 DEF LookForMissed
  <2>2. P \in SUBSET Participants
    OBVIOUS
  <2> QED BY <1>1, <2>1, <2>2
<1>3. CASE LookForClosed(t)
  BY <1>1, <1>3 DEF LookForClosed
<1>4. CASE CommitNoShows(t)
  <2>1. participant' \in [Participants -> VisitStatus]
    BY <1>4, BecomingTypes DEF CommitNoShows, VisitStatus
  <2>2. Tables'
    BY <1>4, <2>1 DEF Tables, CommitNoShows, TypeOK
  <2> QED BY <1>4, <2>2, CommitTypes DEF CommitNoShows
<1>5. CASE CommitClosing(t)
  <2>1. End(t) /\ UNCHANGED <<today, sched, participant, pass, entries>> /\ visit' \in {"NO_SHOW", visit}
    BY <1>5 DEF CommitClosing
  <2>2. Tables'
    BY <2>1 DEF Tables, TypeOK, VisitStatus
  <2> QED BY <2>1, <2>2, CommitTypes
<1> QED BY <1>2, <1>3, <1>4, <1>5 DEF Sweep

(* Every step leaves the variables well-typed. *)
LEMMA TypesStay ==
  ASSUME TypeOK, SessionsAgree, [Next]_vars
  PROVE  TypeOK'
<1>1. ASSUME NEW t \in Sessions, RollBack(t) PROVE TypeOK'
  <2>1. End(t) /\ today' = today /\ Tables'
    BY <1>1 DEF RollBack, committed, Tables, TypeOK
  <2> QED BY <2>1, CommitTypes
<1>2. CASE NextDay
  BY <1>2, TransactionsAssumption DEF NextDay, committed, session, locks, TypeOK, Days
<1>3. CASE UNCHANGED vars
  BY <1>3 DEF vars, committed, session, locks, TypeOK
<1> QED BY <1>1, <1>2, <1>3, DoorTypes, ApprovalTypes, CancellationTypes, ScheduleTypes, SweepTypes DEF Next

-----------------------------------------------------------------------------
(* What a transaction relies on. *)

(* Nothing happens to the transaction of u. *)
Kept(u) ==
  /\ job'[u] = job[u] /\ done'[u] = done[u] /\ who'[u] = who[u] /\ want'[u] = want[u]
  /\ saw'[u] = saw[u] /\ mode'[u] = mode[u] /\ guests'[u] = guests[u]

OthersKept(t) == \A u \in Sessions \ {t} : Kept(u)

(* The session of t is in statement n of handler j, about P, with these locks. *)
Is(t, j, n, P, m, G) ==
  /\ job[t] = j /\ done[t] = n /\ who[t] = P /\ mode[t] = m /\ guests[t] = G

LEMMA EndingKeeps ==
  ASSUME TypeOK, NEW t \in Sessions, End(t)
  PROVE  OthersKept(t) /\ job'[t] = "idle" /\ SessionAgrees(t)'
<1>1. OthersKept(t) /\ job'[t] = "idle"
  BY DEF TypeOK, End, Hold, OthersKept, Kept
<1> QED
  BY <1>1 DEF SessionAgrees, DoorAgrees, LeavingAgrees, DecisionAgrees, CancellationAgrees, RemovalAgrees,
              MoveAgrees, ReissueAgrees, ClosingAgrees

LEMMA BeginningKeeps ==
  ASSUME TypeOK, NEW t \in Sessions, NEW j, NEW P, NEW m, NEW G, NEW Q,
         Begin(t, j, P), Hold(t, m, G, Q), want' = want
  PROVE  OthersKept(t) /\ Is(t, j, 1, P, m, G)'
<1>1. /\ job' = [job EXCEPT ![t] = j] /\ done' = [done EXCEPT ![t] = 1]
      /\ who' = [who EXCEPT ![t] = P] /\ saw' = saw /\ want' = want
      /\ mode' = [mode EXCEPT ![t] = m] /\ guests' = [guests EXCEPT ![t] = G]
  BY DEF Begin, Hold
<1>2. /\ DOMAIN job = Sessions /\ DOMAIN done = Sessions /\ DOMAIN who = Sessions
      /\ DOMAIN mode = Sessions /\ DOMAIN guests = Sessions
      /\ job = [u \in Sessions |-> job[u]] /\ done = [u \in Sessions |-> done[u]]
      /\ who = [u \in Sessions |-> who[u]] /\ mode = [u \in Sessions |-> mode[u]]
      /\ guests = [u \in Sessions |-> guests[u]]
  BY DEF TypeOK
<1>3. OthersKept(t)
  BY <1>1, <1>2 DEF OthersKept, Kept
<1>4. /\ job'[t] = j /\ done'[t] = 1 /\ who'[t] = P /\ mode'[t] = m /\ guests'[t] = G
  BY <1>1, <1>2
<1> QED BY <1>3, <1>4 DEF Is

(* A step that commits nothing disturbs nobody else. *)
LEMMA ReadingAgrees ==
  ASSUME SessionsAgree, NEW t \in Sessions, UNCHANGED committed, OthersKept(t), SessionAgrees(t)'
  PROVE  SessionsAgree'
<1> SUFFICES ASSUME NEW u \in Sessions, u # t PROVE SessionAgrees(u)'
  BY DEF SessionsAgree
<1>1. Kept(u) /\ SessionAgrees(u)
  BY DEF OthersKept, SessionsAgree
<1>2. UNCHANGED <<visit, participant>>
  BY DEF committed
<1>3. /\ (DoorAgrees(u) => DoorAgrees(u)') /\ (LeavingAgrees(u) => LeavingAgrees(u)')
      /\ (DecisionAgrees(u) => DecisionAgrees(u)') /\ (CancellationAgrees(u) => CancellationAgrees(u)')
  BY <1>1, <1>2 DEF Kept, DoorAgrees, LeavingAgrees, DecisionAgrees, CancellationAgrees
<1>4. /\ (RemovalAgrees(u) => RemovalAgrees(u)') /\ (MoveAgrees(u) => MoveAgrees(u)')
      /\ (ReissueAgrees(u) => ReissueAgrees(u)') /\ (ClosingAgrees(u) => ClosingAgrees(u)')
  BY <1>1, <1>2 DEF Kept, RemovalAgrees, MoveAgrees, ReissueAgrees, ClosingAgrees
<1> QED BY <1>1, <1>3, <1>4 DEF SessionAgrees

(* Each fact about t follows from what its handler does. *)
LEMMA OneJob ==
  ASSUME NEW t \in Sessions
  PROVE  /\ job'[t] \in {"checkIn", "manualCheckIn"} => (DoorAgrees(t)' => SessionAgrees(t)')
         /\ job'[t] = "checkOut" => (LeavingAgrees(t)' => SessionAgrees(t)')
         /\ job'[t] \in {"approve", "reject"} => (DecisionAgrees(t)' => SessionAgrees(t)')
         /\ job'[t] = "cancelVisit" => (CancellationAgrees(t)' => SessionAgrees(t)')
         /\ job'[t] = "cancelParticipant" => (RemovalAgrees(t)' => SessionAgrees(t)')
         /\ job'[t] = "updateVisit" => (MoveAgrees(t)' => SessionAgrees(t)')
         /\ job'[t] = "reissueQR" => (ReissueAgrees(t)' => SessionAgrees(t)')
         /\ job'[t] = "closeVisit" => (ClosingAgrees(t)' => SessionAgrees(t)')
BY DEF SessionAgrees, DoorAgrees, LeavingAgrees, DecisionAgrees, CancellationAgrees, RemovalAgrees,
       MoveAgrees, ReissueAgrees, ClosingAgrees

LEMMA BegunAgrees ==
  ASSUME IInv, NEW t \in Sessions, NEW j, NEW P, NEW m, NEW G, NEW Q,
         Begin(t, j, P), Hold(t, m, G, Q), want' = want,
         Is(t, j, 1, P, m, G)' => SessionAgrees(t)'
  PROVE  SessionsAgree'
<1>1. OthersKept(t) /\ Is(t, j, 1, P, m, G)'
  BY BeginningKeeps DEF IInv
<1>2. UNCHANGED committed /\ SessionsAgree
  BY DEF Begin, IInv
<1> QED BY <1>1, <1>2, ReadingAgrees

LEMMA DoorReads ==
  ASSUME IInv, NEW t \in Sessions, NEW p \in Participants, LockForCheckIn(t, p) \/ LockForManualCheckIn(t, p)
  PROVE  SessionsAgree'
<1>1. RecordAgrees(p)
  BY DEF IInv, RecordsAgree
<1>2. visit \in {"SCHEDULED", "CHECKED_IN"} /\ participant[p] = "SCHEDULED"
  BY <1>1 DEF RecordAgrees, Compatible, LockForCheckIn, LockForManualCheckIn, Terminal, IInv, TypeOK, VisitStatus
<1>3. UNCHANGED <<visit, participant>>
  BY DEF LockForCheckIn, LockForManualCheckIn, Begin, committed
<1>4. ASSUME NEW j \in {"checkIn", "manualCheckIn"}, Is(t, j, 1, {p}, "exclusive", {p})'
      PROVE  SessionAgrees(t)'
  BY <1>2, <1>3, <1>4, OneJob DEF DoorAgrees, Is
<1>5. CASE LockForCheckIn(t, p)
  <2>1. Begin(t, "checkIn", {p}) /\ Hold(t, "exclusive", {p}, {p}) /\ want' = want
    BY <1>5 DEF LockForCheckIn
  <2>2. Is(t, "checkIn", 1, {p}, "exclusive", {p})' => SessionAgrees(t)'
    BY <1>4
  <2> QED BY <2>1, <2>2, BegunAgrees
<1>6. CASE LockForManualCheckIn(t, p)
  <2>1. Begin(t, "manualCheckIn", {p}) /\ Hold(t, "exclusive", {p}, {}) /\ want' = want
    BY <1>6 DEF LockForManualCheckIn
  <2>2. Is(t, "manualCheckIn", 1, {p}, "exclusive", {p})' => SessionAgrees(t)'
    BY <1>4
  <2> QED BY <2>1, <2>2, BegunAgrees
<1> QED BY <1>5, <1>6

LEMMA LeaversReads ==
  ASSUME IInv, NEW t \in Sessions, NEW P \in SUBSET Participants, TakeLeavers(t, P)
  PROVE  SessionsAgree'
<1>1. Begin(t, "checkOut", P) /\ Hold(t, "none", P, {}) /\ want' = want /\ participant' = participant
  BY DEF TakeLeavers, Begin, committed
<1>2. P # {} /\ \A p \in P : participant[p] = "CHECKED_IN"
  BY DEF TakeLeavers
<1>3. ASSUME Is(t, "checkOut", 1, P, "none", P)' PROVE SessionAgrees(t)'
  BY <1>1, <1>2, <1>3, OneJob DEF LeavingAgrees, Is
<1> QED BY <1>1, <1>3, BegunAgrees

LEMMA DecisionReads ==
  ASSUME IInv, NEW t \in Sessions, NEW d \in {"approve", "reject"}, Decide(t, d)
  PROVE  SessionsAgree'
<1>1. Begin(t, d, Participants) /\ Hold(t, "change", {}, {}) /\ want' = want /\ visit' = visit
  BY DEF Decide, Begin, committed
<1>2. ASSUME Is(t, d, 1, Participants, "change", {})' PROVE SessionAgrees(t)'
  BY <1>1, <1>2, OneJob DEF DecisionAgrees, Is, Decide
<1> QED BY <1>1, <1>2, BegunAgrees

LEMMA CancellationReads ==
  ASSUME IInv, NEW t \in Sessions, CancelVisit(t)
  PROVE  SessionsAgree'
<1>1. Begin(t, "cancelVisit", {}) /\ Hold(t, "change", {}, {}) /\ want' = want /\ visit' = visit
  BY DEF CancelVisit, Begin, committed
<1>2. ASSUME Is(t, "cancelVisit", 1, {}, "change", {})' PROVE SessionAgrees(t)'
  BY <1>1, <1>2, OneJob DEF CancellationAgrees, Is, CancelVisit
<1> QED BY <1>1, <1>2, BegunAgrees

LEMMA RemovalReads ==
  ASSUME IInv, NEW t \in Sessions, NEW p \in Participants, LockForRemoval(t, p)
  PROVE  SessionsAgree'
<1>1. /\ Begin(t, "cancelParticipant", {p}) /\ Hold(t, "exclusive", {p}, {}) /\ want' = want
      /\ visit' = visit /\ participant' = participant
  BY DEF LockForRemoval, Begin, committed
<1>2. visit \notin Terminal /\ participant[p] \in {"PENDING_APPROVAL", "SCHEDULED"}
  BY DEF LockForRemoval, Terminal, IInv, TypeOK, VisitStatus
<1>3. ASSUME Is(t, "cancelParticipant", 1, {p}, "exclusive", {p})' PROVE SessionAgrees(t)'
  BY <1>1, <1>2, <1>3, OneJob DEF RemovalAgrees, Is
<1> QED BY <1>1, <1>3, BegunAgrees

LEMMA ReissueReads ==
  ASSUME IInv, NEW t \in Sessions, NEW p \in Participants, LockForReissue(t, p)
  PROVE  SessionsAgree'
<1>1. Begin(t, "reissueQR", {p}) /\ Hold(t, "none", {p}, {}) /\ want' = want /\ participant' = participant
  BY DEF LockForReissue, Begin, committed
<1>2. participant[p] \notin Terminal
  BY DEF LockForReissue
<1>3. ASSUME Is(t, "reissueQR", 1, {p}, "none", {p})' PROVE SessionAgrees(t)'
  BY <1>1, <1>2, <1>3, OneJob DEF ReissueAgrees, Is
<1> QED BY <1>1, <1>3, BegunAgrees

(* First statements that take no lock. *)
LEMMA UnlockedReads ==
  ASSUME IInv, NEW t \in Sessions,
         LookForMissed(t) \/ LookForClosed(t) \/ \E day \in Days : CheckMove(t, day)
  PROVE  SessionsAgree'
<1>1. PICK j \in {"noShow", "closeVisit", "updateVisit"}, P \in SUBSET Participants :
        /\ Begin(t, j, P) /\ UNCHANGED locks
        /\ want' = want \/ \E day \in Days : want' = [want EXCEPT ![t] = day]
        /\ j = "updateVisit" => \E day \in Days : want' = [want EXCEPT ![t] = day]
        /\ j = "closeVisit" => \A p \in Participants : participant[p] = "NO_SHOW"
  BY DEF LookForMissed, LookForClosed, CheckMove
<1>2. /\ OthersKept(t) /\ job'[t] = j /\ done'[t] = 1
      /\ j = "updateVisit" => want'[t] \in Days
  BY <1>1 DEF Begin, locks, OthersKept, Kept, IInv, TypeOK
<1>3. UNCHANGED committed /\ participant' = participant /\ SessionsAgree
  BY <1>1 DEF Begin, committed, IInv
<1>4. SessionAgrees(t)'
  <2>1. j = "updateVisit" => MoveAgrees(t)'
    BY <1>2 DEF MoveAgrees
  <2>2. j = "closeVisit" => ClosingAgrees(t)'
    BY <1>1, <1>3 DEF ClosingAgrees
  <2>3. j = "noShow" => SessionAgrees(t)'
    BY <1>2 DEF SessionAgrees, DoorAgrees, LeavingAgrees, DecisionAgrees, CancellationAgrees, RemovalAgrees,
                MoveAgrees, ReissueAgrees, ClosingAgrees
  <2> QED BY <1>2, <2>1, <2>2, <2>3, OneJob
<1> QED BY <1>2, <1>3, <1>4, ReadingAgrees

(* Later statements. *)
LEMMA ProceedingKeeps ==
  ASSUME TypeOK, NEW t \in Sessions, Proceed(t),
         \A u \in Sessions \ {t} : /\ who'[u] = who[u] /\ saw'[u] = saw[u]
                                   /\ mode'[u] = mode[u] /\ guests'[u] = guests[u]
  PROVE  /\ OthersKept(t) /\ job'[t] = job[t] /\ done'[t] = done[t] + 1 /\ want'[t] = want[t]
         /\ UNCHANGED <<committed, visit, participant>>
BY DEF Proceed, OthersKept, Kept, TypeOK, committed

LEMMA LeavingProceeds ==
  ASSUME IInv, NEW t \in Sessions, RecordLeaving(t) \/ LookAtParty(t)
  PROVE  SessionsAgree'
<1>1. TypeOK /\ SessionsAgree /\ LeavingAgrees(t)
  BY DEF IInv, SessionsAgree, SessionAgrees
<1>2. CASE RecordLeaving(t)
  <2>1. /\ Proceed(t) /\ UNCHANGED <<who, saw>> /\ job[t] = "checkOut" /\ done[t] = 1
        /\ mode' = [mode EXCEPT ![t] = "share"] /\ guests' = [guests EXCEPT ![t] = guests[t]]
    BY <1>2 DEF RecordLeaving, Hold, In
  <2>2. /\ mode'[t] = "share" /\ guests'[t] = guests[t] /\ who'[t] = who[t]
        /\ \A u \in Sessions \ {t} : /\ who'[u] = who[u] /\ saw'[u] = saw[u]
                                     /\ mode'[u] = mode[u] /\ guests'[u] = guests[u]
    BY <1>1, <2>1 DEF TypeOK
  <2>3. /\ OthersKept(t) /\ job'[t] = "checkOut" /\ done'[t] = 2
        /\ UNCHANGED <<committed, visit, participant>>
    BY <1>1, <2>1, <2>2, ProceedingKeeps
  <2>4. LeavingAgrees(t)'
    BY <1>1, <2>1, <2>2, <2>3 DEF LeavingAgrees
  <2> QED BY <1>1, <2>3, <2>4, OneJob, ReadingAgrees
<1>3. CASE LookAtParty(t)
  <2>1. /\ Proceed(t) /\ UNCHANGED <<who, mode, guests>> /\ job[t] = "checkOut" /\ done[t] = 2
        /\ saw' = [saw EXCEPT ![t] = Snapshot]
    BY <1>3 DEF LookAtParty, Look, In, locks
  <2>2. /\ saw'[t] = Snapshot
        /\ \A u \in Sessions \ {t} : /\ who'[u] = who[u] /\ saw'[u] = saw[u]
                                     /\ mode'[u] = mode[u] /\ guests'[u] = guests[u]
    BY <1>1, <2>1 DEF TypeOK
  <2>3. /\ OthersKept(t) /\ job'[t] = "checkOut" /\ done'[t] = 3
        /\ UNCHANGED <<committed, visit, participant>>
    BY <1>1, <2>1, <2>2, ProceedingKeeps
  <2>4. saw'[t] \in View /\ saw'[t].party = participant
    BY <1>1, <2>2, SnapshotIsView DEF Snapshot
  <2>5. LeavingAgrees(t)'
    BY <1>1, <2>1, <2>3, <2>4 DEF LeavingAgrees, View
  <2> QED BY <1>1, <2>3, <2>5, OneJob, ReadingAgrees
<1> QED BY <1>2, <1>3

LEMMA DecisionProceeds ==
  ASSUME IInv, NEW t \in Sessions, DecideGuests(t)
  PROVE  SessionsAgree'
<1>1. TypeOK /\ SessionsAgree /\ DecisionAgrees(t)
  BY DEF IInv, SessionsAgree, SessionAgrees
<1>2. /\ Proceed(t) /\ UNCHANGED <<who, saw>> /\ job[t] \in {"approve", "reject"}
      /\ mode' = [mode EXCEPT ![t] = mode[t]] /\ guests' = [guests EXCEPT ![t] = Participants]
  BY DEF DecideGuests, Hold, In
<1>3. /\ mode'[t] = mode[t] /\ guests'[t] = Participants
      /\ \A u \in Sessions \ {t} : /\ who'[u] = who[u] /\ saw'[u] = saw[u]
                                   /\ mode'[u] = mode[u] /\ guests'[u] = guests[u]
  BY <1>1, <1>2 DEF TypeOK
<1>4. OthersKept(t) /\ job'[t] = job[t] /\ UNCHANGED <<committed, visit, participant>>
  BY <1>1, <1>2, <1>3, ProceedingKeeps
<1>5. DecisionAgrees(t)'
  BY <1>1, <1>2, <1>3, <1>4 DEF DecisionAgrees
<1> QED BY <1>1, <1>2, <1>4, <1>5, OneJob, ReadingAgrees

LEMMA CancellationProceeds ==
  ASSUME IInv, NEW t \in Sessions, CancelGuests(t)
  PROVE  SessionsAgree'
<1> DEFINE P == {p \in Participants : participant[p] \notin {"CHECKED_OUT", "CANCELLED"}}
<1>1. TypeOK /\ SessionsAgree /\ CancellationAgrees(t)
  BY DEF IInv, SessionsAgree, SessionAgrees
<1>2. /\ Proceed(t) /\ saw' = saw /\ job[t] = "cancelVisit"
      /\ who' = [who EXCEPT ![t] = P]
      /\ mode' = [mode EXCEPT ![t] = mode[t]] /\ guests' = [guests EXCEPT ![t] = P]
  BY DEF CancelGuests, Hold, In
<1>3. \A p \in Participants \ P : participant[p] \in {"CHECKED_OUT", "CANCELLED"}
  OBVIOUS
<1> HIDE DEF P
<1>4. /\ mode'[t] = mode[t] /\ guests'[t] = P /\ who'[t] = P
      /\ \A u \in Sessions \ {t} : /\ who'[u] = who[u] /\ saw'[u] = saw[u]
                                   /\ mode'[u] = mode[u] /\ guests'[u] = guests[u]
  BY <1>1, <1>2 DEF TypeOK
<1>5. OthersKept(t) /\ job'[t] = "cancelVisit" /\ UNCHANGED <<committed, visit, participant>>
  BY <1>1, <1>2, <1>4, ProceedingKeeps
<1>6. CancellationAgrees(t)'
  BY <1>1, <1>2, <1>3, <1>4, <1>5 DEF CancellationAgrees
<1> QED BY <1>1, <1>5, <1>6, OneJob, ReadingAgrees

LEMMA RemovalProceeds ==
  ASSUME IInv, NEW t \in Sessions, CountRemaining(t)
  PROVE  SessionsAgree'
<1>1. TypeOK /\ SessionsAgree /\ RemovalAgrees(t)
  BY DEF IInv, SessionsAgree, SessionAgrees
<1>2. /\ Proceed(t) /\ who' = who /\ job[t] = "cancelParticipant"
      /\ saw' = [saw EXCEPT ![t] = Snapshot]
      /\ mode' = [mode EXCEPT ![t] = mode[t]] /\ guests' = [guests EXCEPT ![t] = guests[t]]
  BY DEF CountRemaining, Hold, Look, In
<1>3. /\ mode'[t] = mode[t] /\ guests'[t] = guests[t] /\ saw'[t] = Snapshot
      /\ \A u \in Sessions \ {t} : /\ who'[u] = who[u] /\ saw'[u] = saw[u]
                                   /\ mode'[u] = mode[u] /\ guests'[u] = guests[u]
  BY <1>1, <1>2 DEF TypeOK
<1>4. OthersKept(t) /\ job'[t] = "cancelParticipant" /\ UNCHANGED <<committed, visit, participant>>
  BY <1>1, <1>2, <1>3, ProceedingKeeps
<1>5. saw'[t] \in View /\ saw'[t].party = participant
  BY <1>1, <1>3, SnapshotIsView DEF Snapshot
<1>6. RemovalAgrees(t)'
  BY <1>1, <1>2, <1>3, <1>4, <1>5 DEF RemovalAgrees
<1> QED BY <1>1, <1>4, <1>6, OneJob, ReadingAgrees

LEMMA MoveProceeds ==
  ASSUME IInv, NEW t \in Sessions, MoveVisit(t) \/ LookAtPasses(t)
  PROVE  SessionsAgree'
<1>1. TypeOK /\ SessionsAgree /\ MoveAgrees(t)
  BY DEF IInv, SessionsAgree, SessionAgrees
<1>2. CASE MoveVisit(t)
  <2>1. /\ Proceed(t) /\ UNCHANGED <<who, saw>> /\ job[t] = "updateVisit" /\ done[t] = 1
        /\ mode' = [mode EXCEPT ![t] = "change"] /\ guests' = [guests EXCEPT ![t] = {}]
    BY <1>2 DEF MoveVisit, Hold, In
  <2>2. \A u \in Sessions \ {t} : /\ who'[u] = who[u] /\ saw'[u] = saw[u]
                                  /\ mode'[u] = mode[u] /\ guests'[u] = guests[u]
    BY <1>1, <2>1 DEF TypeOK
  <2>3. /\ OthersKept(t) /\ job'[t] = "updateVisit" /\ done'[t] = 2 /\ want'[t] = want[t]
        /\ UNCHANGED committed
    BY <1>1, <2>1, <2>2, ProceedingKeeps
  <2>4. MoveAgrees(t)'
    BY <1>1, <2>1, <2>3 DEF MoveAgrees
  <2> QED BY <1>1, <2>3, <2>4, OneJob, ReadingAgrees
<1>3. CASE LookAtPasses(t)
  <2>1. /\ Proceed(t) /\ UNCHANGED <<mode, guests>> /\ job[t] = "updateVisit"
        /\ who' = [who EXCEPT ![t] = {p \in Participants : Live(p)}]
        /\ saw' = [saw EXCEPT ![t] = Snapshot]
    BY <1>3 DEF LookAtPasses, Look, In, locks
  <2>2. /\ saw'[t] = Snapshot
        /\ \A u \in Sessions \ {t} : /\ who'[u] = who[u] /\ saw'[u] = saw[u]
                                     /\ mode'[u] = mode[u] /\ guests'[u] = guests[u]
    BY <1>1, <2>1 DEF TypeOK
  <2>3. /\ OthersKept(t) /\ job'[t] = "updateVisit" /\ want'[t] = want[t]
        /\ UNCHANGED committed
    BY <1>1, <2>1, <2>2, ProceedingKeeps
  <2>4. MoveAgrees(t)'
    BY <1>1, <2>1, <2>2, <2>3, SnapshotIsView DEF MoveAgrees
  <2> QED BY <1>1, <2>3, <2>4, OneJob, ReadingAgrees
<1> QED BY <1>2, <1>3

LEMMA ReissueProceeds ==
  ASSUME IInv, NEW t \in Sessions, ReadVisit(t)
  PROVE  SessionsAgree'
<1>1. TypeOK /\ SessionsAgree /\ ReissueAgrees(t) /\ RecordsAgree
  BY DEF IInv, SessionsAgree, SessionAgrees
<1>2. /\ Proceed(t) /\ UNCHANGED <<who, mode, guests>> /\ job[t] = "reissueQR" /\ visit = "SCHEDULED"
      /\ saw' = [saw EXCEPT ![t] = Snapshot]
  BY DEF ReadVisit, Look, In, locks
<1>3. /\ saw'[t] = Snapshot
      /\ \A u \in Sessions \ {t} : /\ who'[u] = who[u] /\ saw'[u] = saw[u]
                                   /\ mode'[u] = mode[u] /\ guests'[u] = guests[u]
  BY <1>1, <1>2 DEF TypeOK
<1>4. OthersKept(t) /\ job'[t] = "reissueQR" /\ UNCHANGED <<committed, visit, participant>>
  BY <1>1, <1>2, <1>3, ProceedingKeeps
<1>5. \A p \in who[t] : participant[p] = "SCHEDULED"
  BY <1>1, <1>2 DEF ReissueAgrees, Terminal, RecordsAgree, RecordAgrees, Compatible, TypeOK
<1>6. ReissueAgrees(t)'
  BY <1>1, <1>2, <1>3, <1>4, <1>5, SnapshotIsView DEF ReissueAgrees
<1> QED BY <1>1, <1>4, <1>6, OneJob, ReadingAgrees

-----------------------------------------------------------------------------
(* Commits. *)

(* What all but the types and locks say. *)
Agreement == RecordsAgree /\ InsideIsOnRoster /\ NoVisitWithoutVisitors /\ SessionsAgree

(* Transactions that cannot overlap one that has the visit. *)
LEMMA Excluding ==
  ASSUME IInv, NEW t \in Sessions, NEW u \in Sessions, u # t
  PROVE  /\ mode[t] = "exclusive" => mode[u] = "none"
         /\ mode[t] = "change" => mode[u] \in {"none", "share"}
         /\ VisitFree(t, "change") => mode[u] \in {"none", "share"}
         /\ VisitFree(t, "share") => mode[u] # "exclusive"
         /\ guests[t] \cap guests[u] = {}
BY DEF IInv, LocksExclude, TypeOK, Mode, Conflict, VisitFree

(* The facts about u that a commit of t keeps because of the locks u has. *)
LEMMA OthersAgree ==
  ASSUME IInv, NEW t \in Sessions, OthersKept(t), SessionAgrees(t)',
         \A u \in Sessions \ {t} :
           Kept(u) /\ SessionAgrees(u) =>
             /\ DoorAgrees(u)' /\ LeavingAgrees(u)' /\ DecisionAgrees(u)' /\ CancellationAgrees(u)'
             /\ RemovalAgrees(u)' /\ ReissueAgrees(u)' /\ ClosingAgrees(u)'
  PROVE  SessionsAgree'
<1> SUFFICES ASSUME NEW u \in Sessions, u # t PROVE SessionAgrees(u)'
  BY DEF SessionsAgree
<1>1. Kept(u) /\ SessionAgrees(u)
  BY DEF OthersKept, IInv, SessionsAgree
<1>2. MoveAgrees(u)'
  BY <1>1 DEF Kept, SessionAgrees, MoveAgrees
<1> QED BY <1>1, <1>2 DEF SessionAgrees

LEMMA CheckInCommits ==
  ASSUME IInv, NEW t \in Sessions, CommitCheckIn(t)
  PROVE  Agreement'
<1>1. TypeOK /\ RecordsAgree /\ InsideIsOnRoster /\ SessionsAgree
  BY DEF IInv
<1>2. /\ mode[t] = "exclusive" /\ who[t] \subseteq guests[t] /\ who[t] # {}
      /\ visit \in {"SCHEDULED", "CHECKED_IN"}
      /\ \A p \in who[t] : participant[p] = "SCHEDULED"
      /\ who[t] \subseteq Participants
  BY <1>1 DEF SessionsAgree, SessionAgrees, DoorAgrees, CommitCheckIn, In, TypeOK
<1>3. /\ visit' = "CHECKED_IN"
      /\ \A p \in Participants :
           /\ participant'[p] = IF p \in who[t] THEN "CHECKED_IN" ELSE participant[p]
           /\ pass'[p] = IF p \in who[t] /\ Live(p) THEN Marked(p, "used") ELSE pass[p]
           /\ entries'[p] = IF p \in who[t] THEN Counted(entries[p]) ELSE entries[p]
  BY <1>2 DEF CommitCheckIn, Becoming
<1>4. RecordsAgree'
  <2> SUFFICES ASSUME NEW p \in Participants PROVE RecordAgrees(p)'
    BY DEF RecordsAgree
  <2>1. RecordAgrees(p)
    BY <1>1 DEF RecordsAgree
  <2>2. CASE p \in who[t]
    <3>1. pass[p].state = "fresh" /\ entries[p] = 0
      BY <1>2, <2>1, <2>2 DEF RecordAgrees
    <3>2. entries'[p] = Counted(0) /\ participant'[p] = "CHECKED_IN"
      BY <1>3, <2>2, <3>1
    <3>3. pass'[p] = Marked(p, "used")
      BY <1>3, <2>2, <3>1 DEF Live
    <3> QED BY <1>3, <3>2, <3>3 DEF RecordAgrees, Compatible, Marked, Counted, Live
  <2>3. CASE p \notin who[t]
    <3>1. pass'[p] = pass[p] /\ entries'[p] = entries[p] /\ participant'[p] = participant[p]
      BY <1>3, <2>3
    <3> QED BY <1>1, <1>2, <1>3, <2>1, <3>1 DEF RecordAgrees, Compatible, Live, TypeOK, VisitStatus
  <2> QED BY <2>2, <2>3
<1>5. InsideIsOnRoster' /\ NoVisitWithoutVisitors'
  BY <1>2, <1>3 DEF InsideIsOnRoster, NoVisitWithoutVisitors
<1>6. OthersKept(t) /\ SessionAgrees(t)'
  BY <1>1, EndingKeeps DEF CommitCheckIn
<1>7. ASSUME NEW u \in Sessions, u # t, Kept(u), SessionAgrees(u)
      PROVE  /\ DoorAgrees(u)' /\ LeavingAgrees(u)' /\ DecisionAgrees(u)' /\ CancellationAgrees(u)'
             /\ RemovalAgrees(u)' /\ ReissueAgrees(u)' /\ ClosingAgrees(u)'
  <2>1. mode[u] = "none" /\ guests[t] \cap guests[u] = {}
    BY <1>2, <1>7, Excluding
  <2>2. who[u] \subseteq Participants
    BY <1>1 DEF TypeOK
  <2>3. DoorAgrees(u)' /\ DecisionAgrees(u)' /\ CancellationAgrees(u)' /\ RemovalAgrees(u)'
    BY <1>7, <2>1 DEF Kept, SessionAgrees, DoorAgrees, DecisionAgrees, CancellationAgrees, RemovalAgrees
  <2>4. LeavingAgrees(u)'
    BY <1>2, <1>3, <1>7, <2>1, <2>2 DEF Kept, SessionAgrees, LeavingAgrees
  <2>5. ReissueAgrees(u)'
    BY <1>2, <1>3, <1>7, <2>1, <2>2 DEF Kept, SessionAgrees, ReissueAgrees
  <2>6. ClosingAgrees(u)'
    <3>1. ClosingAgrees(u)
      BY <1>7 DEF SessionAgrees
    <3>2. PICK p \in Participants : participant[p] = "SCHEDULED"
      BY <1>2
    <3>3. job[u] # "closeVisit"
      BY <1>2, <3>1, <3>2 DEF ClosingAgrees
    <3> QED BY <1>7, <3>3 DEF Kept, ClosingAgrees
  <2> QED BY <2>3, <2>4, <2>5, <2>6
<1> QED BY <1>4, <1>5, <1>6, <1>7, OthersAgree DEF Agreement

LEMMA CheckOutCommits ==
  ASSUME IInv, NEW t \in Sessions, CommitCheckOut(t)
  PROVE  Agreement'
<1>1. TypeOK /\ RecordsAgree /\ InsideIsOnRoster /\ SessionsAgree
  BY DEF IInv
<1> DEFINE after == Becoming(saw[t].party, who[t], "CHECKED_OUT")
<1>2. /\ who[t] \subseteq guests[t] /\ who[t] # {} /\ who[t] \subseteq Participants
      /\ \A p \in who[t] : participant[p] = "CHECKED_IN"
      /\ \A p \in Participants \ who[t] :
           /\ participant[p] = "CHECKED_IN" => saw[t].party[p] = "CHECKED_IN"
           /\ participant[p] = "SCHEDULED" => saw[t].party[p] = "SCHEDULED"
  BY <1>1 DEF SessionsAgree, SessionAgrees, LeavingAgrees, CommitCheckOut, In, TypeOK
<1>3. visit = "CHECKED_IN"
  BY <1>1, <1>2 DEF InsideIsOnRoster
<1>4. \A p \in Participants : after[p] = IF p \in who[t] THEN "CHECKED_OUT" ELSE saw[t].party[p]
  BY DEF Becoming
<1>5. /\ visit' = Recount(after) /\ UNCHANGED <<sched, pass, entries>>
      /\ \A p \in Participants :
           participant'[p] = IF p \in who[t] THEN "CHECKED_OUT" ELSE participant[p]
  BY DEF CommitCheckOut, Becoming
<1> HIDE DEF after
<1>6. /\ visit' \in {"CHECKED_IN", "SCHEDULED", "CHECKED_OUT"}
      /\ visit' # "CHECKED_IN" => \A p \in Participants : participant'[p] # "CHECKED_IN"
      /\ visit' = "CHECKED_OUT" => \A p \in Participants : participant'[p] # "SCHEDULED"
  BY <1>2, <1>4, <1>5 DEF Recount
<1>7. RecordsAgree'
  <2> SUFFICES ASSUME NEW p \in Participants PROVE RecordAgrees(p)'
    BY DEF RecordsAgree
  <2>1. RecordAgrees(p)
    BY <1>1 DEF RecordsAgree
  <2>2. participant'[p] \in {"CHECKED_OUT", participant[p]} /\ participant[p] \in VisitStatus
    BY <1>1, <1>5 DEF TypeOK
  <2>3. Compatible(visit', participant'[p])
    BY <1>3, <1>6, <2>1, <2>2 DEF RecordAgrees, Compatible, VisitStatus
  <2>4. p \in who[t] => pass[p].state # "fresh"
    BY <1>2, <2>1 DEF RecordAgrees
  <2> QED BY <1>5, <1>6, <2>1, <2>2, <2>3, <2>4 DEF RecordAgrees, Live
<1>8. InsideIsOnRoster' /\ NoVisitWithoutVisitors'
  BY <1>2, <1>5, <1>6 DEF InsideIsOnRoster, NoVisitWithoutVisitors
<1>9. OthersKept(t) /\ SessionAgrees(t)'
  BY <1>1, EndingKeeps DEF CommitCheckOut
<1>10. ASSUME NEW u \in Sessions, u # t, Kept(u), SessionAgrees(u)
       PROVE  /\ DoorAgrees(u)' /\ LeavingAgrees(u)' /\ DecisionAgrees(u)' /\ CancellationAgrees(u)'
              /\ RemovalAgrees(u)' /\ ReissueAgrees(u)' /\ ClosingAgrees(u)'
  <2>1. mode[u] \in {"none", "share"} /\ guests[t] \cap guests[u] = {}
    BY <1>10, Excluding DEF CommitCheckOut
  <2>2. who[u] \subseteq Participants
    BY <1>1 DEF TypeOK
  <2>3. DoorAgrees(u)' /\ DecisionAgrees(u)' /\ CancellationAgrees(u)' /\ RemovalAgrees(u)'
    BY <1>10, <2>1 DEF Kept, SessionAgrees, DoorAgrees, DecisionAgrees, CancellationAgrees, RemovalAgrees
  <2>4. LeavingAgrees(u)'
    BY <1>2, <1>5, <1>10, <2>1, <2>2 DEF Kept, SessionAgrees, LeavingAgrees
  <2>5. ReissueAgrees(u)'
    BY <1>2, <1>5, <1>10, <2>1, <2>2 DEF Kept, SessionAgrees, ReissueAgrees
  <2>6. ClosingAgrees(u)'
    <3>1. ClosingAgrees(u)
      BY <1>10 DEF SessionAgrees
    <3>2. PICK p \in Participants : participant[p] = "CHECKED_IN"
      BY <1>2
    <3>3. job[u] # "closeVisit"
      BY <1>3, <3>1, <3>2 DEF ClosingAgrees
    <3> QED BY <1>10, <3>3 DEF Kept, ClosingAgrees
  <2> QED BY <2>3, <2>4, <2>5, <2>6
<1> QED BY <1>7, <1>8, <1>9, <1>10, OthersAgree DEF Agreement

LEMMA DecisionCommits ==
  ASSUME IInv, NEW t \in Sessions, CommitApproval(t) \/ CommitRejection(t)
  PROVE  Agreement'
<1>1. TypeOK /\ RecordsAgree /\ SessionsAgree /\ Participants # {}
  BY TransactionsAssumption DEF IInv
<1>2. mode[t] = "change" /\ visit = "PENDING_APPROVAL" /\ guests[t] = Participants
  BY <1>1 DEF SessionsAgree, SessionAgrees, DecisionAgrees, CommitApproval, CommitRejection, In
<1>3. /\ visit' \in {"SCHEDULED", "REJECTED"} /\ UNCHANGED <<sched, entries>>
      /\ \A p \in Participants : participant'[p] = visit'
  BY DEF CommitApproval, CommitRejection, Becoming
<1>4. \A p \in Participants : ~ Live(p) /\ entries[p] = 0 /\ participant[p] \in {"PENDING_APPROVAL", "CANCELLED"}
  BY <1>1, <1>2 DEF RecordsAgree, RecordAgrees, Compatible
<1>5. \A p \in Participants :
        IF visit' = "SCHEDULED" THEN pass'[p].state = "fresh" ELSE pass'[p] = pass[p]
  BY <1>3 DEF CommitApproval, CommitRejection, Issued
<1>6. RecordsAgree'
  <2> SUFFICES ASSUME NEW p \in Participants PROVE RecordAgrees(p)'
    BY DEF RecordsAgree
  <2>1. entries'[p] = 0 /\ participant'[p] = visit' /\ ~ Live(p)
    BY <1>3, <1>4
  <2>2. CASE visit' = "SCHEDULED"
    BY <1>5, <2>1, <2>2 DEF RecordAgrees, Compatible
  <2>3. CASE visit' = "REJECTED"
    BY <1>5, <2>1, <2>3 DEF RecordAgrees, Compatible, Live
  <2> QED BY <1>3, <2>2, <2>3
<1>7. InsideIsOnRoster' /\ NoVisitWithoutVisitors'
  BY <1>1, <1>3 DEF InsideIsOnRoster, NoVisitWithoutVisitors
<1>8. OthersKept(t) /\ SessionAgrees(t)'
  BY <1>1, EndingKeeps DEF CommitApproval, CommitRejection
<1>9. ASSUME NEW u \in Sessions, u # t, Kept(u), SessionAgrees(u)
      PROVE  /\ DoorAgrees(u)' /\ LeavingAgrees(u)' /\ DecisionAgrees(u)' /\ CancellationAgrees(u)'
             /\ RemovalAgrees(u)' /\ ReissueAgrees(u)' /\ ClosingAgrees(u)'
  <2>1. mode[u] \in {"none", "share"} /\ guests[t] \cap guests[u] = {}
    BY <1>2, <1>9, Excluding
  <2>2. who[u] \subseteq Participants /\ guests[u] = {}
    BY <1>1, <1>2, <2>1 DEF TypeOK
  <2>3. DoorAgrees(u)' /\ DecisionAgrees(u)' /\ CancellationAgrees(u)' /\ RemovalAgrees(u)'
    BY <1>9, <2>1 DEF Kept, SessionAgrees, DoorAgrees, DecisionAgrees, CancellationAgrees, RemovalAgrees
  <2>4. LeavingAgrees(u)'
    BY <1>9, <2>2 DEF Kept, SessionAgrees, LeavingAgrees
  <2>5. ReissueAgrees(u)'
    BY <1>9, <2>2 DEF Kept, SessionAgrees, ReissueAgrees
  <2>6. ClosingAgrees(u)'
    <3>1. ClosingAgrees(u)
      BY <1>9 DEF SessionAgrees
    <3>2. job[u] # "closeVisit"
      BY <1>1, <1>2, <1>4, <3>1 DEF ClosingAgrees
    <3> QED BY <1>9, <3>2 DEF Kept, ClosingAgrees
  <2> QED BY <2>3, <2>4, <2>5, <2>6
<1> QED BY <1>6, <1>7, <1>8, <1>9, OthersAgree DEF Agreement

LEMMA CancellationCommits ==
  ASSUME IInv, NEW t \in Sessions, CommitCancellation(t)
  PROVE  Agreement'
<1>1. TypeOK /\ RecordsAgree /\ SessionsAgree
  BY DEF IInv
<1>2. /\ mode[t] = "change" /\ who[t] \subseteq guests[t]
      /\ \A p \in Participants \ who[t] : participant[p] \in {"CHECKED_OUT", "CANCELLED"}
  BY <1>1 DEF SessionsAgree, SessionAgrees, CancellationAgrees, CommitCancellation, In
<1>3. /\ visit' = "CANCELLED" /\ UNCHANGED <<sched, entries>>
      /\ \A p \in Participants :
           /\ participant'[p] = IF p \in who[t] THEN "CANCELLED" ELSE participant[p]
           /\ pass'[p] = IF Live(p) THEN Marked(p, "revoked") ELSE pass[p]
  BY DEF CommitCancellation, Becoming, Revoking
<1>4. \A p \in Participants : participant'[p] \in {"CHECKED_OUT", "CANCELLED"}
  BY <1>2, <1>3
<1>5. \A p \in Participants : ~ Live(p)'
  <2> TAKE p \in Participants
  <2>1. pass'[p] = IF Live(p) THEN Marked(p, "revoked") ELSE pass[p]
    BY <1>3
  <2>2. Marked(p, "revoked").state = "revoked"
    BY DEF Marked
  <2> QED BY <2>1, <2>2 DEF Live
<1>6. RecordsAgree'
  BY <1>1, <1>3, <1>4, <1>5 DEF RecordsAgree, RecordAgrees, Compatible, Live
<1>7. InsideIsOnRoster' /\ NoVisitWithoutVisitors'
  BY <1>3, <1>4 DEF InsideIsOnRoster, NoVisitWithoutVisitors
<1>8. OthersKept(t) /\ SessionAgrees(t)'
  BY <1>1, EndingKeeps DEF CommitCancellation
<1>9. ASSUME NEW u \in Sessions, u # t, Kept(u), SessionAgrees(u)
      PROVE  /\ DoorAgrees(u)' /\ LeavingAgrees(u)' /\ DecisionAgrees(u)' /\ CancellationAgrees(u)'
             /\ RemovalAgrees(u)' /\ ReissueAgrees(u)' /\ ClosingAgrees(u)'
  <2>1. mode[u] \in {"none", "share"} /\ guests[t] \cap guests[u] = {}
    BY <1>2, <1>9, Excluding
  <2>2. who[u] \subseteq Participants
    BY <1>1 DEF TypeOK
  <2>3. DoorAgrees(u)' /\ DecisionAgrees(u)' /\ CancellationAgrees(u)' /\ RemovalAgrees(u)'
    BY <1>9, <2>1 DEF Kept, SessionAgrees, DoorAgrees, DecisionAgrees, CancellationAgrees, RemovalAgrees
  <2>4. LeavingAgrees(u)'
    BY <1>2, <1>3, <1>4, <1>9, <2>1, <2>2 DEF Kept, SessionAgrees, LeavingAgrees
  <2>5. ReissueAgrees(u)'
    BY <1>2, <1>3, <1>9, <2>1, <2>2 DEF Kept, SessionAgrees, ReissueAgrees
  <2>6. ClosingAgrees(u)'
    BY <1>3 DEF ClosingAgrees
  <2> QED BY <2>3, <2>4, <2>5, <2>6
<1> QED BY <1>6, <1>7, <1>8, <1>9, OthersAgree DEF Agreement

LEMMA RemovalCommits ==
  ASSUME IInv, NEW t \in Sessions, CommitRemoval(t)
  PROVE  Agreement'
<1>1. TypeOK /\ RecordsAgree /\ InsideIsOnRoster /\ SessionsAgree
  BY DEF IInv
<1> DEFINE others == Participants \ who[t]
           none == \A p \in others : saw[t].party[p] \in {"CANCELLED", "REJECTED"}
           P == IF none THEN {p \in others : participant[p] \notin {"CHECKED_OUT", "CANCELLED"}} ELSE {}
<1>2. /\ mode[t] = "exclusive" /\ who[t] \subseteq guests[t] /\ who[t] # {}
      /\ who[t] \subseteq Participants /\ visit \notin Terminal
      /\ \A p \in who[t] : participant[p] \in {"PENDING_APPROVAL", "SCHEDULED"}
      /\ saw[t].party = participant
  BY <1>1 DEF SessionsAgree, SessionAgrees, RemovalAgrees, CommitRemoval, In, TypeOK
<1>3. none => \A p \in others : participant[p] = "CANCELLED"
  <2> SUFFICES ASSUME none, NEW p \in others PROVE participant[p] = "CANCELLED"
    OBVIOUS
  <2>1. participant[p] \in {"CANCELLED", "REJECTED"}
    BY <1>2
  <2>2. Compatible(visit, participant[p]) /\ visit \in VisitStatus
    BY <1>1 DEF RecordsAgree, RecordAgrees, TypeOK
  <2> QED BY <1>2, <2>1, <2>2 DEF Compatible, Terminal, VisitStatus
<1>4. P = {}
  BY <1>3
<1>5. /\ visit' = IF none THEN "CANCELLED" ELSE visit
      /\ participant' = Becoming(participant, who[t] \cup P, "CANCELLED")
      /\ pass' = Revoking(IF none THEN Participants ELSE who[t])
      /\ UNCHANGED <<sched, entries>> /\ End(t)
  BY DEF CommitRemoval
<1>6. /\ visit' = "CANCELLED" \/ visit' = visit
      /\ visit' = "CANCELLED" => \A p \in Participants : participant'[p] = "CANCELLED"
      /\ \A p \in Participants : participant'[p] = IF p \in who[t] THEN "CANCELLED" ELSE participant[p]
      /\ visit' = visit => \E p \in others : participant[p] # "CANCELLED"
  <2>1. \A p \in Participants : participant'[p] = IF p \in who[t] THEN "CANCELLED" ELSE participant[p]
    BY <1>4, <1>5 DEF Becoming
  <2>2. CASE none
    BY <1>2, <1>3, <1>5, <2>1, <2>2 DEF Terminal
  <2>3. CASE ~ none
    BY <1>2, <1>5, <2>1, <2>3 DEF Terminal
  <2> QED BY <2>2, <2>3
<1>7. \A p \in Participants :
        IF p \in who[t] THEN ~ Live(p)' ELSE pass'[p] = pass[p] \/ ~ Live(p)'
  <2> TAKE p \in Participants
  <2>1. p \in who[t] => p \in IF none THEN Participants ELSE who[t]
    BY <1>2
  <2> HIDE DEF none
  <2>2. pass'[p] = IF p \in (IF none THEN Participants ELSE who[t]) /\ Live(p)
                   THEN Marked(p, "revoked") ELSE pass[p]
    BY <1>5 DEF Revoking
  <2>3. Marked(p, "revoked").state = "revoked"
    BY DEF Marked
  <2> QED BY <2>1, <2>2, <2>3 DEF Live
<1>8. RecordsAgree'
  <2> SUFFICES ASSUME NEW p \in Participants PROVE RecordAgrees(p)'
    BY DEF RecordsAgree
  <2>1. RecordAgrees(p) /\ visit \in VisitStatus
    BY <1>1 DEF RecordsAgree, TypeOK
  <2>2. CASE participant'[p] = "CANCELLED"
    <3>1. ~ Live(p)'
      BY <1>6, <1>7, <2>1, <2>2 DEF RecordAgrees, Live
    <3>2. Compatible(visit', "CANCELLED")
      BY <1>2, <1>6, <2>1 DEF Compatible, Terminal, VisitStatus
    <3>3. entries'[p] = entries[p] /\ (visit' = "PENDING_APPROVAL" => visit = "PENDING_APPROVAL")
      BY <1>5, <1>6
    <3> QED BY <2>1, <2>2, <3>1, <3>2, <3>3 DEF RecordAgrees, Live
  <2>3. CASE participant'[p] # "CANCELLED"
    <3>1. p \notin who[t] /\ participant'[p] = participant[p] /\ visit' = visit
      BY <1>6, <2>3
    <3>2. p \in others
      BY <3>1
    <3>3. pass'[p] = pass[p] \/ (~ Live(p)' /\ participant[p] = "CANCELLED")
      <4>1. ~ none
        BY <1>3, <2>3, <3>1, <3>2
      <4> HIDE DEF none
      <4> QED BY <1>5, <3>1, <4>1 DEF Revoking
    <3> QED BY <1>5, <2>1, <2>3, <3>1, <3>3 DEF RecordAgrees, Live
  <2> QED BY <2>2, <2>3
<1>9. InsideIsOnRoster' /\ NoVisitWithoutVisitors'
  BY <1>1, <1>6 DEF InsideIsOnRoster, NoVisitWithoutVisitors
<1>10. OthersKept(t) /\ SessionAgrees(t)'
  BY <1>1, <1>5, EndingKeeps
<1>11. ASSUME NEW u \in Sessions, u # t, Kept(u), SessionAgrees(u)
       PROVE  /\ DoorAgrees(u)' /\ LeavingAgrees(u)' /\ DecisionAgrees(u)' /\ CancellationAgrees(u)'
              /\ RemovalAgrees(u)' /\ ReissueAgrees(u)' /\ ClosingAgrees(u)'
  <2>1. mode[u] = "none" /\ guests[t] \cap guests[u] = {}
    BY <1>2, <1>11, Excluding
  <2>2. who[u] \subseteq Participants
    BY <1>1 DEF TypeOK
  <2>3. DoorAgrees(u)' /\ DecisionAgrees(u)' /\ CancellationAgrees(u)' /\ RemovalAgrees(u)'
    BY <1>11, <2>1 DEF Kept, SessionAgrees, DoorAgrees, DecisionAgrees, CancellationAgrees, RemovalAgrees
  <2>4. LeavingAgrees(u)'
    BY <1>2, <1>6, <1>11, <2>1, <2>2 DEF Kept, SessionAgrees, LeavingAgrees
  <2>5. ReissueAgrees(u)'
    BY <1>2, <1>6, <1>11, <2>1, <2>2 DEF Kept, SessionAgrees, ReissueAgrees
  <2>6. ClosingAgrees(u)'
    <3>1. ClosingAgrees(u)
      BY <1>11 DEF SessionAgrees
    <3>2. PICK p \in Participants : participant[p] \in {"PENDING_APPROVAL", "SCHEDULED"}
      BY <1>2
    <3>3. job[u] # "closeVisit"
      BY <1>2, <3>1, <3>2 DEF ClosingAgrees, Terminal
    <3> QED BY <1>11, <3>3 DEF Kept, ClosingAgrees
  <2> QED BY <2>3, <2>4, <2>5, <2>6
<1> QED BY <1>8, <1>9, <1>10, <1>11, OthersAgree DEF Agreement

(* What a commit that leaves the statuses alone keeps. *)
LEMMA StatusesKept ==
  ASSUME IInv, NEW t \in Sessions, End(t), UNCHANGED <<visit, participant, entries>>,
         \A p \in Participants :
           \/ pass'[p].state = pass[p].state
           \/ pass'[p].state = "fresh" /\ participant[p] = "SCHEDULED"
  PROVE  Agreement'
<1>1. TypeOK /\ RecordsAgree /\ InsideIsOnRoster /\ NoVisitWithoutVisitors /\ SessionsAgree
  BY DEF IInv
<1>2. RecordsAgree'
  <2> SUFFICES ASSUME NEW p \in Participants PROVE RecordAgrees(p)'
    BY DEF RecordsAgree
  <2>1. RecordAgrees(p)
    BY <1>1 DEF RecordsAgree
  <2> QED BY <2>1 DEF RecordAgrees, Live, Compatible
<1>3. InsideIsOnRoster' /\ NoVisitWithoutVisitors'
  BY <1>1 DEF InsideIsOnRoster, NoVisitWithoutVisitors
<1>4. OthersKept(t) /\ SessionAgrees(t)'
  BY <1>1, EndingKeeps
<1>5. ASSUME NEW u \in Sessions, u # t, Kept(u), SessionAgrees(u)
      PROVE  /\ DoorAgrees(u)' /\ LeavingAgrees(u)' /\ DecisionAgrees(u)' /\ CancellationAgrees(u)'
             /\ RemovalAgrees(u)' /\ ReissueAgrees(u)' /\ ClosingAgrees(u)'
  <2>1. DoorAgrees(u)' /\ LeavingAgrees(u)' /\ DecisionAgrees(u)' /\ CancellationAgrees(u)'
    BY <1>5 DEF Kept, SessionAgrees, DoorAgrees, LeavingAgrees, DecisionAgrees, CancellationAgrees
  <2>2. RemovalAgrees(u)' /\ ReissueAgrees(u)' /\ ClosingAgrees(u)'
    BY <1>5 DEF Kept, SessionAgrees, RemovalAgrees, ReissueAgrees, ClosingAgrees
  <2> QED BY <2>1, <2>2
<1> QED BY <1>2, <1>3, <1>4, <1>5, OthersAgree DEF Agreement

LEMMA ScheduleCommits ==
  ASSUME IInv, NEW t \in Sessions, CommitMove(t) \/ CommitReissue(t)
  PROVE  Agreement'
<1>1. End(t) /\ UNCHANGED <<visit, participant, entries>>
  BY DEF CommitMove, CommitReissue
<1>2. CASE CommitMove(t)
  <2>1. \A p \in Participants : pass'[p] = Moved(p, want[t]) \/ pass'[p] = pass[p]
    BY <1>2 DEF CommitMove
  <2>2. \A p \in Participants : pass'[p].state = pass[p].state
    <3>1. \A p \in Participants : Moved(p, want[t]).state = pass[p].state
      BY DEF Moved
    <3> QED BY <2>1, <3>1
  <2> QED BY <1>1, <2>2, StatusesKept
<1>3. CASE CommitReissue(t)
  <2>1. \A p \in who[t] : participant[p] = "SCHEDULED"
    BY <1>3 DEF IInv, SessionsAgree, SessionAgrees, ReissueAgrees, CommitReissue, In
  <2>2. \A p \in Participants :
          IF p \in who[t] THEN pass'[p] = Issued(p, saw[t].day) ELSE pass'[p] = pass[p]
    BY <1>3 DEF CommitReissue
  <2>3. \A p \in Participants : Issued(p, saw[t].day).state = "fresh"
    BY DEF Issued
  <2>4. \A p \in Participants :
          \/ pass'[p].state = pass[p].state
          \/ pass'[p].state = "fresh" /\ participant[p] = "SCHEDULED"
    BY <2>1, <2>2, <2>3
  <2> QED BY <1>1, <2>4, StatusesKept
<1> QED BY <1>2, <1>3

LEMMA NoShowCommits ==
  ASSUME IInv, NEW t \in Sessions, CommitNoShows(t)
  PROVE  Agreement'
<1>1. TypeOK /\ RecordsAgree /\ InsideIsOnRoster /\ NoVisitWithoutVisitors /\ SessionsAgree
  BY DEF IInv
<1>2. /\ UNCHANGED <<visit, sched, pass, entries>> /\ End(t)
      /\ GuestsFree(t, who[t]) /\ VisitFree(t, "share")
      /\ \A p \in Participants :
           IF p \in who[t] /\ participant[p] = "SCHEDULED" THEN participant'[p] = "NO_SHOW"
           ELSE participant'[p] = participant[p]
  BY DEF CommitNoShows, Becoming, Free
<1>3. RecordsAgree'
  <2> SUFFICES ASSUME NEW p \in Participants PROVE RecordAgrees(p)'
    BY DEF RecordsAgree
  <2>1. RecordAgrees(p)
    BY <1>1 DEF RecordsAgree
  <2>2. participant'[p] = participant[p] \/ (participant[p] = "SCHEDULED" /\ participant'[p] = "NO_SHOW")
    BY <1>2
  <2> QED BY <1>2, <2>1, <2>2 DEF RecordAgrees, Live, Compatible
<1>4. InsideIsOnRoster' /\ NoVisitWithoutVisitors'
  BY <1>1, <1>2 DEF InsideIsOnRoster, NoVisitWithoutVisitors
<1>5. OthersKept(t) /\ SessionAgrees(t)'
  BY <1>1, <1>2, EndingKeeps
<1>6. ASSUME NEW u \in Sessions, u # t, Kept(u), SessionAgrees(u)
      PROVE  /\ DoorAgrees(u)' /\ LeavingAgrees(u)' /\ DecisionAgrees(u)' /\ CancellationAgrees(u)'
             /\ RemovalAgrees(u)' /\ ReissueAgrees(u)' /\ ClosingAgrees(u)'
  <2>1. mode[u] # "exclusive" /\ who[t] \cap guests[u] = {}
    BY <1>2, <1>6, Excluding DEF GuestsFree
  <2>2. who[u] \subseteq Participants
    BY <1>1 DEF TypeOK
  <2>3. DoorAgrees(u)' /\ DecisionAgrees(u)' /\ RemovalAgrees(u)'
    BY <1>2, <1>6, <2>1 DEF Kept, SessionAgrees, DoorAgrees, DecisionAgrees, RemovalAgrees
  <2>4. LeavingAgrees(u)'
    BY <1>2, <1>6, <2>1, <2>2 DEF Kept, SessionAgrees, LeavingAgrees
  <2>5. ReissueAgrees(u)'
    BY <1>2, <1>6, <2>1, <2>2 DEF Kept, SessionAgrees, ReissueAgrees
  <2>6. CancellationAgrees(u)'
    BY <1>2, <1>6 DEF Kept, SessionAgrees, CancellationAgrees
  <2>7. ClosingAgrees(u)'
    BY <1>2, <1>6 DEF Kept, SessionAgrees, ClosingAgrees
  <2> QED BY <2>3, <2>4, <2>5, <2>6, <2>7
<1> QED BY <1>3, <1>4, <1>5, <1>6, OthersAgree DEF Agreement

LEMMA ClosingCommits ==
  ASSUME IInv, NEW t \in Sessions, CommitClosing(t)
  PROVE  Agreement'
<1>1. TypeOK /\ RecordsAgree /\ InsideIsOnRoster /\ NoVisitWithoutVisitors /\ SessionsAgree
  BY DEF IInv
<1>2. /\ UNCHANGED <<sched, participant, pass, entries>> /\ End(t) /\ VisitFree(t, "change")
      /\ visit' = IF visit = "SCHEDULED" THEN "NO_SHOW" ELSE visit
  BY DEF CommitClosing
<1>3. CASE visit # "SCHEDULED"
  <2>1. UNCHANGED <<visit, participant, entries>> /\ \A p \in Participants : pass'[p].state = pass[p].state
    BY <1>2, <1>3
  <2> QED BY <1>2, <2>1, StatusesKept
<1>4. CASE visit = "SCHEDULED"
  <2>1. visit' = "NO_SHOW" /\ \A p \in Participants : participant[p] = "NO_SHOW"
    BY <1>1, <1>2, <1>4 DEF SessionsAgree, SessionAgrees, ClosingAgrees, CommitClosing, In
  <2>2. RecordsAgree'
    BY <1>1, <1>2, <2>1 DEF RecordsAgree, RecordAgrees, Compatible, Live
  <2>3. InsideIsOnRoster' /\ NoVisitWithoutVisitors'
    BY <1>2, <2>1, TransactionsAssumption DEF InsideIsOnRoster, NoVisitWithoutVisitors
  <2>4. OthersKept(t) /\ SessionAgrees(t)'
    BY <1>1, <1>2, EndingKeeps
  <2>5. ASSUME NEW u \in Sessions, u # t, Kept(u), SessionAgrees(u)
        PROVE  /\ DoorAgrees(u)' /\ LeavingAgrees(u)' /\ DecisionAgrees(u)' /\ CancellationAgrees(u)'
               /\ RemovalAgrees(u)' /\ ReissueAgrees(u)' /\ ClosingAgrees(u)'
    <3>1. mode[u] \in {"none", "share"}
      BY <1>2, <2>5, Excluding
    <3>2. DoorAgrees(u)' /\ DecisionAgrees(u)' /\ CancellationAgrees(u)' /\ RemovalAgrees(u)'
      BY <2>5, <3>1 DEF Kept, SessionAgrees, DoorAgrees, DecisionAgrees, CancellationAgrees, RemovalAgrees
    <3>3. LeavingAgrees(u)' /\ ReissueAgrees(u)' /\ ClosingAgrees(u)'
      BY <1>2, <2>1, <2>5 DEF Kept, SessionAgrees, LeavingAgrees, ReissueAgrees, ClosingAgrees
    <3> QED BY <3>2, <3>3
  <2> QED BY <2>2, <2>3, <2>4, <2>5, OthersAgree DEF Agreement
<1> QED BY <1>3, <1>4

-----------------------------------------------------------------------------
(* Every step of a session keeps the agreement. *)

LEMMA NothingCommitted ==
  ASSUME IInv, UNCHANGED committed, SessionsAgree'
  PROVE  Agreement'
<1>1. UNCHANGED <<visit, participant, pass, entries>>
  BY DEF committed
<1>2. RecordsAgree'
  BY <1>1 DEF IInv, RecordsAgree, RecordAgrees, Compatible, Live
<1>3. InsideIsOnRoster' /\ NoVisitWithoutVisitors'
  BY <1>1 DEF IInv, InsideIsOnRoster, NoVisitWithoutVisitors
<1> QED BY <1>2, <1>3 DEF Agreement

LEMMA DoorAgreement ==
  ASSUME IInv, NEW t \in Sessions, Door(t)
  PROVE  Agreement'
<1>1. ASSUME NEW p \in Participants, LockForCheckIn(t, p) \/ LockForManualCheckIn(t, p) PROVE Agreement'
  <2>1. UNCHANGED committed
    BY <1>1 DEF LockForCheckIn, LockForManualCheckIn, Begin
  <2> QED BY <1>1, <2>1, DoorReads, NothingCommitted
<1>2. ASSUME NEW P \in SUBSET Participants, TakeLeavers(t, P) PROVE Agreement'
  <2>1. UNCHANGED committed
    BY <1>2 DEF TakeLeavers, Begin
  <2> QED BY <1>2, <2>1, LeaversReads, NothingCommitted
<1>3. CASE RecordLeaving(t) \/ LookAtParty(t)
  <2>1. UNCHANGED committed
    BY <1>3 DEF RecordLeaving, LookAtParty, Proceed
  <2> QED BY <1>3, <2>1, LeavingProceeds, NothingCommitted
<1>4. {p \in Participants : participant[p] = "CHECKED_IN"} \in SUBSET Participants
  OBVIOUS
<1> QED BY <1>1, <1>2, <1>3, <1>4, CheckInCommits, CheckOutCommits DEF Door, CheckOut, AutoCheckout

LEMMA ApprovalAgreement ==
  ASSUME IInv, NEW t \in Sessions, Approval(t)
  PROVE  Agreement'
<1>1. ASSUME NEW d \in {"approve", "reject"}, Decide(t, d) PROVE Agreement'
  <2>1. UNCHANGED committed
    BY <1>1 DEF Decide, Begin
  <2> QED BY <1>1, <2>1, DecisionReads, NothingCommitted
<1>2. CASE DecideGuests(t)
  <2>1. UNCHANGED committed
    BY <1>2 DEF DecideGuests, Proceed
  <2> QED BY <1>2, <2>1, DecisionProceeds, NothingCommitted
<1> QED BY <1>1, <1>2, DecisionCommits DEF Approval

LEMMA CancellationAgreement ==
  ASSUME IInv, NEW t \in Sessions, Cancellation(t)
  PROVE  Agreement'
<1>1. CASE CancelVisit(t)
  <2>1. UNCHANGED committed
    BY <1>1 DEF CancelVisit, Begin
  <2> QED BY <1>1, <2>1, CancellationReads, NothingCommitted
<1>2. CASE CancelGuests(t)
  <2>1. UNCHANGED committed
    BY <1>2 DEF CancelGuests, Proceed
  <2> QED BY <1>2, <2>1, CancellationProceeds, NothingCommitted
<1>3. ASSUME NEW p \in Participants, LockForRemoval(t, p) PROVE Agreement'
  <2>1. UNCHANGED committed
    BY <1>3 DEF LockForRemoval, Begin
  <2> QED BY <1>3, <2>1, RemovalReads, NothingCommitted
<1>4. CASE CountRemaining(t)
  <2>1. UNCHANGED committed
    BY <1>4 DEF CountRemaining, Proceed
  <2> QED BY <1>4, <2>1, RemovalProceeds, NothingCommitted
<1> QED BY <1>1, <1>2, <1>3, <1>4, CancellationCommits, RemovalCommits DEF Cancellation

LEMMA ScheduleAgreement ==
  ASSUME IInv, NEW t \in Sessions, Schedule(t)
  PROVE  Agreement'
<1>1. CASE \E day \in Days : CheckMove(t, day)
  <2>1. UNCHANGED committed
    BY <1>1 DEF CheckMove, Begin
  <2> QED BY <1>1, <2>1, UnlockedReads, NothingCommitted
<1>2. CASE MoveVisit(t) \/ LookAtPasses(t)
  <2>1. UNCHANGED committed
    BY <1>2 DEF MoveVisit, LookAtPasses, Proceed
  <2> QED BY <1>2, <2>1, MoveProceeds, NothingCommitted
<1>3. ASSUME NEW p \in Participants, LockForReissue(t, p) PROVE Agreement'
  <2>1. UNCHANGED committed
    BY <1>3 DEF LockForReissue, Begin
  <2> QED BY <1>3, <2>1, ReissueReads, NothingCommitted
<1>4. CASE ReadVisit(t)
  <2>1. UNCHANGED committed
    BY <1>4 DEF ReadVisit, Proceed
  <2> QED BY <1>4, <2>1, ReissueProceeds, NothingCommitted
<1> QED BY <1>1, <1>2, <1>3, <1>4, ScheduleCommits DEF Schedule

LEMMA SweepAgreement ==
  ASSUME IInv, NEW t \in Sessions, Sweep(t)
  PROVE  Agreement'
<1>1. CASE LookForMissed(t) \/ LookForClosed(t)
  <2>1. UNCHANGED committed
    BY <1>1 DEF LookForMissed, LookForClosed, Begin
  <2> QED BY <1>1, <2>1, UnlockedReads, NothingCommitted
<1> QED BY <1>1, NoShowCommits, ClosingCommits DEF Sweep

LEMMA RollBackAgreement ==
  ASSUME IInv, NEW t \in Sessions, RollBack(t)
  PROVE  Agreement'
<1>1. End(t) /\ UNCHANGED committed
  BY DEF RollBack
<1>2. OthersKept(t) /\ SessionAgrees(t)'
  BY <1>1, EndingKeeps DEF IInv
<1> QED BY <1>1, <1>2, ReadingAgrees, NothingCommitted DEF IInv

LEMMA StandingAgreement ==
  ASSUME IInv, NextDay \/ UNCHANGED vars
  PROVE  Agreement'
<1>1. UNCHANGED committed /\ UNCHANGED session
  BY DEF NextDay, vars, session
<1>2. ASSUME NEW t \in Sessions PROVE SessionAgrees(t)'
  <2>1. UNCHANGED <<visit, participant, job, done, who, want, saw, mode, guests>>
    BY <1>1 DEF committed, session, locks
  <2>2. SessionAgrees(t)
    BY DEF IInv, SessionsAgree
  <2>3. /\ DoorAgrees(t)' /\ LeavingAgrees(t)' /\ DecisionAgrees(t)' /\ CancellationAgrees(t)'
        /\ RemovalAgrees(t)' /\ MoveAgrees(t)' /\ ReissueAgrees(t)' /\ ClosingAgrees(t)'
    BY <2>1, <2>2 DEF SessionAgrees, DoorAgrees, LeavingAgrees, DecisionAgrees, CancellationAgrees,
                      RemovalAgrees, MoveAgrees, ReissueAgrees, ClosingAgrees
  <2> QED BY <2>3 DEF SessionAgrees
<1> QED BY <1>1, <1>2, NothingCommitted DEF SessionsAgree

-----------------------------------------------------------------------------
(* The theorems. *)

LEMMA InitAgrees == Init => IInv
<1> SUFFICES ASSUME Init PROVE IInv
  OBVIOUS
<1>1. TypeOK
  BY InitTypes
<1>2. LocksExclude
  BY DEF Init, LocksExclude, Conflict
<1>3. RecordsAgree
  <2> SUFFICES ASSUME NEW p \in Participants PROVE RecordAgrees(p)
    BY DEF RecordsAgree
  <2>1. participant[p] = visit /\ entries[p] = 0 /\ visit \in {"PENDING_APPROVAL", "SCHEDULED"}
    BY DEF Init
  <2>2. pass[p].state = IF visit = "SCHEDULED" THEN "fresh" ELSE "none"
    BY DEF Init
  <2> QED BY <2>1, <2>2 DEF RecordAgrees, Compatible, Live
<1>4. InsideIsOnRoster /\ NoVisitWithoutVisitors
  BY TransactionsAssumption DEF Init, InsideIsOnRoster, NoVisitWithoutVisitors
<1>5. SessionsAgree
  BY DEF Init, SessionsAgree, SessionAgrees, DoorAgrees, LeavingAgrees, DecisionAgrees, CancellationAgrees,
         RemovalAgrees, MoveAgrees, ReissueAgrees, ClosingAgrees
<1> QED BY <1>1, <1>2, <1>3, <1>4, <1>5 DEF IInv

LEMMA NextAgrees == IInv /\ [Next]_vars => IInv'
<1> SUFFICES ASSUME IInv, [Next]_vars PROVE IInv'
  OBVIOUS
<1>1. TypeOK'
  BY TypesStay DEF IInv
<1>2. LocksExclude'
  BY LocksStayExclusive DEF IInv
<1>3. Agreement'
  BY DoorAgreement, ApprovalAgreement, CancellationAgreement, ScheduleAgreement, SweepAgreement,
     RollBackAgreement, StandingAgreement DEF Next
<1> QED BY <1>1, <1>2, <1>3 DEF IInv, Agreement

(* Whatever transactions overlap, the tables agree, and what each of them has *)
(* found under its locks is still so when it commits.                         *)
THEOREM TransactionsAgree == Spec => []IInv
BY InitAgrees, NextAgrees, PTL DEF Spec

(* Every variable keeps its type. *)
THEOREM TransactionTypes == Spec => []TypeOK
<1>1. IInv => TypeOK
  BY DEF IInv
<1> QED BY <1>1, TransactionsAgree, PTL

(* Everybody who is inside is on the roster: checkIn and checkOut of one party *)
(* never pass each other.                                                     *)
THEOREM InsideStaysOnRoster == Spec => []InsideIsOnRoster
<1>1. IInv => InsideIsOnRoster
  BY DEF IInv
<1> QED BY <1>1, TransactionsAgree, PTL

(* Nobody is admitted twice. *)
THEOREM NobodyEntersTwice == Spec => []AdmittedOnce
<1>1. IInv => AdmittedOnce
  BY DEF IInv, RecordsAgree, RecordAgrees, AdmittedOnce
<1> QED BY <1>1, TransactionsAgree, PTL

(* Cancelled and rejected visits have nobody expected or inside and no passes. *)
THEOREM ClosedStaysClosed == Spec => []ClosedIsClosed
<1>1. IInv => ClosedIsClosed
  BY DEF IInv, RecordsAgree, RecordAgrees, Compatible, ClosedIsClosed, Live
<1> QED BY <1>1, TransactionsAgree, PTL

(* Whoever is expected holds a pass that opens the door. *)
THEOREM ExpectedGuestsKeepPasses == Spec => []ExpectedGuestsHavePasses
<1>1. IInv => ExpectedGuestsHavePasses
  BY DEF IInv, RecordsAgree, RecordAgrees, ExpectedGuestsHavePasses
<1> QED BY <1>1, TransactionsAgree, PTL

(* A visit all of whose visitors were removed is cancelled. *)
THEOREM NoVisitIsLeftEmpty == Spec => []NoVisitWithoutVisitors
<1>1. IInv => NoVisitWithoutVisitors
  BY DEF IInv
<1> QED BY <1>1, TransactionsAgree, PTL

(* No commit writes over a cancellation or a rejection. *)
LEMMA EndStays ==
  ASSUME IInv, [Next]_vars, visit \in {"CANCELLED", "REJECTED"}
  PROVE  visit' = visit
<1>1. ASSUME UNCHANGED committed PROVE visit' = visit
  BY <1>1 DEF committed
<1>2. ASSUME NEW t \in Sessions PROVE SessionAgrees(t)
  BY DEF IInv, SessionsAgree
<1>3. ASSUME NEW t \in Sessions, Door(t) PROVE visit' = visit
  <2>1. ~ CommitCheckOut(t)
    BY <1>2 DEF IInv, InsideIsOnRoster, SessionAgrees, LeavingAgrees, CommitCheckOut, In, TypeOK
  <2> QED BY <1>1, <1>3, <2>1 DEF Door, LockForCheckIn, LockForManualCheckIn, CheckOut, AutoCheckout,
            TakeLeavers, RecordLeaving, LookAtParty, CommitCheckIn, Begin, Proceed
<1>4. ASSUME NEW t \in Sessions, Approval(t) PROVE visit' = visit
  <2>1. ~ CommitApproval(t) /\ ~ CommitRejection(t)
    BY <1>2 DEF SessionAgrees, DecisionAgrees, CommitApproval, CommitRejection, In
  <2> QED BY <1>1, <1>4, <2>1 DEF Approval, Decide, DecideGuests, Begin, Proceed
<1>5. ASSUME NEW t \in Sessions, Cancellation(t) PROVE visit' = visit
  <2>1. ~ CommitCancellation(t)
    BY <1>2 DEF SessionAgrees, CancellationAgrees, CommitCancellation, In
  <2>2. ~ CommitRemoval(t)
    BY <1>2 DEF SessionAgrees, RemovalAgrees, CommitRemoval, In, Terminal
  <2> QED BY <1>1, <1>5, <2>1, <2>2 DEF Cancellation, CancelVisit, CancelGuests, LockForRemoval,
            CountRemaining, Begin, Proceed
<1>6. ASSUME NEW t \in Sessions, Schedule(t) PROVE visit' = visit
  BY <1>1, <1>6 DEF Schedule, CheckMove, MoveVisit, LookAtPasses, CommitMove, LockForReissue, ReadVisit,
     CommitReissue, Begin, Proceed
<1>7. ASSUME NEW t \in Sessions, Sweep(t) PROVE visit' = visit
  BY <1>1, <1>7 DEF Sweep, LookForMissed, LookForClosed, CommitNoShows, CommitClosing, Begin
<1>8. ASSUME NEW t \in Sessions, RollBack(t) PROVE visit' = visit
  BY <1>1, <1>8 DEF RollBack
<1> QED BY <1>1, <1>3, <1>4, <1>5, <1>6, <1>7, <1>8 DEF Next, NextDay, vars

(* The end of a visit is final. *)
THEOREM TransactionsRespectTheEnd == Spec => EndIsFinal
<1>1. IInv /\ [Next]_vars => [(visit \in {"CANCELLED", "REJECTED"}) => visit' = visit]_visit
  BY EndStays
<1> QED BY <1>1, TransactionsAgree, PTL DEF Spec, EndIsFinal

-----------------------------------------------------------------------------
(* The statements implement Occupancy. *)

Places == [p \in Participants |-> Place(p)]

(* Whoever is inside has been recorded as entering. *)
InsideIsLogged ==
  \A p \in Participants : participant[p] = "CHECKED_IN" => entries[p] # 0

(* Only the commit of a check-in lets somebody in, or counts an entry. *)
LEMMA OnlyCheckInEnters ==
  ASSUME IInv, [Next]_vars, \A t \in Sessions : ~ CommitCheckIn(t)
  PROVE  /\ entries' = entries
         /\ \A p \in Participants :
              participant'[p] = "CHECKED_IN" => participant[p] = "CHECKED_IN"
<1> DEFINE Stay == /\ entries' = entries
                   /\ \A p \in Participants :
                        participant'[p] = "CHECKED_IN" => participant[p] = "CHECKED_IN"
<1>1. ASSUME UNCHANGED committed PROVE Stay
  BY <1>1 DEF committed
<1> SUFFICES Stay
  OBVIOUS
<1> HIDE DEF Stay
<1>2. ASSUME NEW t \in Sessions, Door(t) PROVE Stay
  <2>1. CASE CommitCheckOut(t)
    BY <2>1 DEF CommitCheckOut, Becoming, Stay
  <2> QED BY <1>1, <1>2, <2>1 DEF Door, LockForCheckIn, LockForManualCheckIn, CheckOut, AutoCheckout,
            TakeLeavers, RecordLeaving, LookAtParty, Begin, Proceed
<1>3. ASSUME NEW t \in Sessions, Approval(t) PROVE Stay
  <2>1. CASE CommitApproval(t) \/ CommitRejection(t)
    BY <2>1 DEF CommitApproval, CommitRejection, Becoming, Stay
  <2> QED BY <1>1, <1>3, <2>1 DEF Approval, Decide, DecideGuests, Begin, Proceed
<1>4. ASSUME NEW t \in Sessions, Cancellation(t) PROVE Stay
  <2>1. CASE CommitCancellation(t) \/ CommitRemoval(t)
    BY <2>1 DEF CommitCancellation, CommitRemoval, Becoming, Stay
  <2> QED BY <1>1, <1>4, <2>1 DEF Cancellation, CancelVisit, CancelGuests, LockForRemoval,
            CountRemaining, Begin, Proceed
<1>5. ASSUME NEW t \in Sessions, Schedule(t) PROVE Stay
  <2>1. CASE CommitMove(t) \/ CommitReissue(t)
    BY <2>1 DEF CommitMove, CommitReissue, Stay
  <2> QED BY <1>1, <1>5, <2>1 DEF Schedule, CheckMove, MoveVisit, LookAtPasses, LockForReissue,
            ReadVisit, Begin, Proceed
<1>6. ASSUME NEW t \in Sessions, Sweep(t) PROVE Stay
  <2>1. CASE CommitNoShows(t) \/ CommitClosing(t)
    BY <2>1 DEF CommitNoShows, CommitClosing, Becoming, Stay
  <2> QED BY <1>1, <1>6, <2>1 DEF Sweep, LookForMissed, LookForClosed, Begin
<1>7. ASSUME NEW t \in Sessions, RollBack(t) PROVE Stay
  BY <1>1, <1>7 DEF RollBack
<1>8. CASE NextDay \/ UNCHANGED vars
  BY <1>1, <1>8 DEF NextDay, vars
<1> QED BY <1>2, <1>3, <1>4, <1>5, <1>6, <1>7, <1>8 DEF Next

(* What a check-in commits: its visitors were expected, and had not entered. *)
LEMMA CheckInEnters ==
  ASSUME IInv, NEW t \in Sessions, CommitCheckIn(t)
  PROVE  /\ who[t] \in SUBSET Participants
         /\ \A p \in who[t] : /\ participant[p] = "SCHEDULED" /\ entries[p] = 0
                              /\ participant'[p] = "CHECKED_IN" /\ entries'[p] = 1
         /\ \A p \in Participants \ who[t] :
              participant'[p] = participant[p] /\ entries'[p] = entries[p]
<1>1. who[t] \in SUBSET Participants
  BY DEF IInv, TypeOK
<1>2. \A p \in who[t] : participant[p] = "SCHEDULED"
  BY DEF IInv, SessionsAgree, SessionAgrees, DoorAgrees, CommitCheckIn, In
<1>3. \A p \in who[t] : entries[p] = 0
  BY <1>1, <1>2 DEF IInv, RecordsAgree, RecordAgrees
<1> QED BY <1>1, <1>2, <1>3 DEF CommitCheckIn, Becoming, Counted

LEMMA LoggedStays == IInv /\ InsideIsLogged /\ [Next]_vars => InsideIsLogged'
<1> SUFFICES ASSUME IInv, InsideIsLogged, [Next]_vars PROVE InsideIsLogged'
  OBVIOUS
<1>1. CASE \E t \in Sessions : CommitCheckIn(t)
  BY <1>1, CheckInEnters DEF InsideIsLogged
<1>2. CASE \A t \in Sessions : ~ CommitCheckIn(t)
  BY <1>2, OnlyCheckInEnters DEF InsideIsLogged
<1> QED BY <1>1, <1>2

LEMMA Logged == Spec => []InsideIsLogged
<1>1. Init => InsideIsLogged
  BY DEF Init, InsideIsLogged
<1> QED BY <1>1, LoggedStays, TransactionsAgree, PTL DEF Spec

LEMMA NextImplements ==
  ASSUME IInv, InsideIsLogged, [Next]_vars
  PROVE  Occ!Next
<1>1. ASSUME NEW t \in Sessions, CommitCheckIn(t) PROVE Occ!Next
  <2> DEFINE S == who[t]
  <2>1. S \in SUBSET Participants /\ S \subseteq Occ!Away
    BY <1>1, CheckInEnters DEF Occ!Away, Place
  <2>2. \A p \in Participants : Place(p)' = IF p \in S THEN "inside" ELSE Place(p)
    BY <1>1, CheckInEnters DEF Place
  <2>3. Places' = [p \in Participants |-> IF p \in S THEN "inside" ELSE Places[p]]
    BY <2>2 DEF Places
  <2>4. Occ!Enter(S)
    BY <2>1, <2>3 DEF Occ!Enter, Occ!Move, Places
  <2> QED BY <2>1, <2>4 DEF Occ!Next
<1>2. CASE \A t \in Sessions : ~ CommitCheckIn(t)
  <2> DEFINE S == {p \in Participants : participant[p] = "CHECKED_IN" /\ participant'[p] # "CHECKED_IN"}
  <2>1. S \in SUBSET Participants /\ S \subseteq Occ!Inside
    BY DEF Occ!Inside, Place
  <2>2. \A p \in Participants : Place(p)' = IF p \in S THEN "gone" ELSE Place(p)
    BY <1>2, OnlyCheckInEnters DEF Place, InsideIsLogged
  <2>3. Places' = [p \in Participants |-> IF p \in S THEN "gone" ELSE Places[p]]
    BY <2>2 DEF Places
  <2> HIDE DEF S
  <2>4. Occ!Leave(S)
    BY <2>1, <2>3 DEF Occ!Leave, Occ!Move, Places
  <2> QED BY <2>1, <2>4 DEF Occ!Next
<1> QED BY <1>1, <1>2

(* For any party and any number of sessions, whatever the statements of their *)
(* transactions see: everybody comes in once and goes out once.               *)
THEOREM OccupancyImplemented == Spec => ImplementsOccupancy
<1>1. Init => Occ!Init
  BY DEF Init, Occ!Init, Place
<1> QED BY <1>1, TransactionsAgree, Logged, NextImplements, PTL DEF Spec, ImplementsOccupancy, Occ!Spec
=============================================================================
