--------------------------- MODULE VisitLifecycle ---------------------------
(***************************************************************************)
(* The life of a visit: request, approval, pass, arrival, departure,       *)
(* cancellation and the periodic maintenance that closes what nobody       *)
(* closed (internal/app/visits.go, visits_ops.go, background.go).          *)
(*                                                                         *)
(* The rows of the tables visits, visitor_visits and qr_tokens are the     *)
(* variables.  One action is one committed database transaction of one     *)
(* handler, so this module says what the handlers do when no two of them   *)
(* overlap; VisitTransactions takes the overlapping ones apart.  A request *)
(* the handler refuses changes nothing and is no step; the caller's rights *)
(* (host, delegate, administrator, site scope) only decide who may ask and *)
(* are left out.                                                           *)
(***************************************************************************)
EXTENDS Integers, FiniteSets

CONSTANTS
  Visits,         \* rows of the table visits that may come to exist
  Participants,   \* rows of visitor_visits, one per visitor of a visit
  VisitOf,        \* visitor_visits.visit_id
  SeriesOf,       \* recurrence->>'seriesId'; a visit alone in its series has none
  Shift,          \* how much later than the first occurrence a visit starts
  Slots,          \* the [start, end] pairs a client may ask for
  Early, Late,    \* visit.early_checkin_minutes, visit.late_grace_minutes
  MaxTime,        \* bound: the clock stops counting here
  DayLength,      \* clock units of a day
  CutoffHour,     \* visit.auto_checkout_hour
  Zone,           \* offset of the time zone of the visit's site
  SingleUse,      \* visit.single_use_qr
  Nodes           \* server processes, each running RunBackground

ASSUME LifecycleAssumption ==
  /\ VisitOf \in [Participants -> Visits]
  /\ \A v \in Visits : \E p \in Participants : VisitOf[p] = v
  /\ Slots \subseteq [start : Nat, end : Nat]
  /\ Shift \in [Visits -> Nat]
  /\ Early \in Nat /\ Late \in Nat
  /\ MaxTime \in Nat
  /\ DayLength \in Nat \ {0}
  /\ CutoffHour \in Nat
  /\ Zone \in [Visits -> Nat]
  /\ SingleUse \in BOOLEAN

VARIABLES
  now,          \* wall clock, up to MaxTime
  hour,         \* hour of the day, which keeps turning
  visit,        \* visits.status
  participant,  \* visitor_visits.status
  sched,        \* visits.start_at, end_at
  pass,         \* newest qr_tokens row of a participant; older ones are revoked
  window,       \* its valid_from, valid_until
  entries,      \* CHECKED_IN rows in visit_events: 0, 1 or "2 or more"
  sweep         \* how far each node is in runVisitMaintenance

vars == <<now, hour, visit, participant, sched, pass, window, entries, sweep>>
clock == <<now, hour>>

-----------------------------------------------------------------------------

VisitStatus == {"absent", "PENDING_APPROVAL", "SCHEDULED", "CHECKED_IN",
                "CHECKED_OUT", "CANCELLED", "REJECTED", "NO_SHOW"}
PassState == {"none", "fresh", "used", "revoked"}
Period == [start : Int, end : Int]

(* Mutant: who has left is not refused. *)
TerminalForgetsDeparture == {"CANCELLED", "REJECTED", "NO_SHOW"}

(* qrParticipantStatusTerminal *)
Terminal == {"CHECKED_OUT", "CANCELLED", "REJECTED", "NO_SHOW"}

(* The row has revoked_at IS NULL. *)
LivePass == {"fresh", "used"}

Party(v) == {p \in Participants : VisitOf[p] = v}
Occurrences(s) == {v \in Visits : SeriesOf[v] = s}

Planned(v, slot) == [start |-> slot.start + Shift[v], end |-> slot.end + Shift[v]]

(* valid_from and valid_until as issueQRTx and updateVisit compute them. *)
Window(plan) == [start |-> plan.start - Early, end |-> plan.end + Late]
Open(w) == w.start <= now /\ now <= w.end

(* Mutant: the sweep forgets the grace of late guests. *)
MissedWithoutGrace(p) ==
  participant[p] = "SCHEDULED" /\ sched[VisitOf[p]].end < now

(* Mutant: only a party nobody of which came is swept. *)
MissedAltogether(p) ==
  /\ \A q \in Party(VisitOf[p]) : participant[q] = "SCHEDULED"
  /\ sched[VisitOf[p]].end + Late < now

(* end_at + late grace < now(), the test of the no-show statement. *)
Missed(p) ==
  participant[p] = "SCHEDULED" /\ sched[VisitOf[p]].end + Late < now

LocalHour(v) == (hour + Zone[v]) % DayLength

Revoked(q) == IF q \in LivePass THEN "revoked" ELSE q
Counted(n) == IF n = 0 THEN 1 ELSE 2

(* The CASE expression with which both check-outs recompute visits.status. *)
Recount(v, status) ==
  IF \E p \in Party(v) : status[p] = "CHECKED_IN" THEN "CHECKED_IN"
  ELSE IF \E p \in Party(v) : status[p] = "SCHEDULED" THEN "SCHEDULED"
  ELSE "CHECKED_OUT"

(* issueQRTx for every participant of P; plan is the schedule it is given. *)
IssuePasses(P, plan, state) ==
  /\ pass' = [p \in Participants |-> IF p \in P THEN state ELSE pass[p]]
  /\ window' = [p \in Participants |->
                  IF p \in P THEN Window(plan[VisitOf[p]]) ELSE window[p]]

Init ==
  /\ now = 0 /\ hour = 0
  /\ visit = [v \in Visits |-> "absent"]
  /\ participant = [p \in Participants |-> "absent"]
  /\ sched = [v \in Visits |-> [start |-> 0, end |-> 0]]
  /\ pass = [p \in Participants |-> "none"]
  /\ window = [p \in Participants |-> [start |-> 0, end |-> 0]]
  /\ entries = [p \in Participants |-> 0]
  /\ sweep = [n \in Nodes |-> "idle"]

-----------------------------------------------------------------------------
(* Requests. *)

(* The rows createVisitRecord inserts for the visits V, planned from slot. *)
InsertVisits(V, slot, status) ==
  /\ \A v \in V : visit[v] = "absent"
  /\ visit' = [v \in Visits |-> IF v \in V THEN status ELSE visit[v]]
  /\ participant' = [p \in Participants |->
                       IF VisitOf[p] \in V THEN status ELSE participant[p]]
  /\ sched' = [v \in Visits |-> IF v \in V THEN Planned(v, slot) ELSE sched[v]]

(* A request of one visit, or of all occurrences of a weekly series.  It   *)
(* waits for approval when the workflow or the visit's type asks for it.   *)
CreateVisit(s, slot, approval) ==
  /\ Occurrences(s) # {}
  /\ slot.start < slot.end
  /\ IF approval
     THEN /\ InsertVisits(Occurrences(s), slot, "PENDING_APPROVAL")
          /\ UNCHANGED <<pass, window>>
     ELSE /\ InsertVisits(Occurrences(s), slot, "SCHEDULED")
          /\ IssuePasses({p \in Participants : SeriesOf[VisitOf[p]] = s}, sched', "fresh")
  /\ UNCHANGED <<clock, entries, sweep>>

(* The lobby registers visitors who are already there. *)
CreateWalkIn(v, slot) ==
  /\ Occurrences(SeriesOf[v]) = {v}
  /\ slot.start < slot.end
  /\ InsertVisits({v}, slot, "CHECKED_IN")
  /\ IssuePasses(Party(v), sched', "used")
  /\ entries' = [p \in Participants |->
                   IF p \in Party(v) THEN Counted(entries[p]) ELSE entries[p]]
  /\ UNCHANGED <<clock, sweep>>

(* Approval writes SCHEDULED into every participant row of the visit,      *)
(* whatever it held, and issues a pass to each.                            *)
ApproveVisit(v) ==
  /\ visit[v] = "PENDING_APPROVAL"
  /\ visit' = [visit EXCEPT ![v] = "SCHEDULED"]
  /\ participant' = [p \in Participants |->
                       IF p \in Party(v) THEN "SCHEDULED" ELSE participant[p]]
  /\ IssuePasses(Party(v), sched, "fresh")
  /\ UNCHANGED <<clock, sched, entries, sweep>>

RejectVisit(v) ==
  /\ visit[v] = "PENDING_APPROVAL"
  /\ visit' = [visit EXCEPT ![v] = "REJECTED"]
  /\ participant' = [p \in Participants |->
                       IF p \in Party(v) THEN "REJECTED" ELSE participant[p]]
  /\ UNCHANGED <<clock, sched, pass, window, entries, sweep>>

(* A new schedule moves the window of the passes that are not revoked. *)
UpdateVisit(v, slot) ==
  /\ visit[v] \in {"PENDING_APPROVAL", "SCHEDULED"}
  /\ slot.start < slot.end
  /\ sched' = [sched EXCEPT ![v] = Planned(v, slot)]
  /\ window' = [p \in Participants |->
                  IF p \in Party(v) /\ pass[p] \in LivePass
                  THEN Window(Planned(v, slot)) ELSE window[p]]
  /\ UNCHANGED <<clock, visit, participant, pass, entries, sweep>>

-----------------------------------------------------------------------------
(* Cancellation. *)

Cancellable(v) ==
  visit[v] \notin {"absent", "CHECKED_OUT", "CANCELLED", "REJECTED"}

(* Mutant: a visitor who is inside is left as they are. *)
CancelVisitsButInside(V) ==
  /\ visit' = [v \in Visits |-> IF v \in V THEN "CANCELLED" ELSE visit[v]]
  /\ participant' = [p \in Participants |->
       IF VisitOf[p] \in V /\ participant[p] \notin {"CHECKED_IN", "CHECKED_OUT", "CANCELLED"}
       THEN "CANCELLED" ELSE participant[p]]
  /\ pass' = [p \in Participants |->
                IF VisitOf[p] \in V THEN Revoked(pass[p]) ELSE pass[p]]
  /\ UNCHANGED <<clock, sched, window, entries, sweep>>

(* Mutant: the whole party is cancelled, whoever of it has left already. *)
CancelVisitsAndDeparted(V) ==
  /\ visit' = [v \in Visits |-> IF v \in V THEN "CANCELLED" ELSE visit[v]]
  /\ participant' = [p \in Participants |->
                       IF VisitOf[p] \in V THEN "CANCELLED" ELSE participant[p]]
  /\ pass' = [p \in Participants |->
                IF VisitOf[p] \in V THEN Revoked(pass[p]) ELSE pass[p]]
  /\ UNCHANGED <<clock, sched, window, entries, sweep>>

(* cancelVisitTx on each visit of V, in one transaction. *)
CancelVisits(V) ==
  /\ visit' = [v \in Visits |-> IF v \in V THEN "CANCELLED" ELSE visit[v]]
  /\ participant' = [p \in Participants |->
       IF VisitOf[p] \in V /\ participant[p] \notin {"CHECKED_OUT", "CANCELLED"}
       THEN "CANCELLED" ELSE participant[p]]
  /\ pass' = [p \in Participants |->
                IF VisitOf[p] \in V THEN Revoked(pass[p]) ELSE pass[p]]
  /\ UNCHANGED <<clock, sched, window, entries, sweep>>

CancelVisit(v) ==
  /\ Cancellable(v)
  /\ CancelVisits({v})

(* This occurrence and the later ones of the series. *)
CancelSeries(v) ==
  LET V == {w \in Occurrences(SeriesOf[v]) :
              Cancellable(w) /\ sched[w].start >= sched[v].start}
  IN  /\ visit[v] # "absent"
      /\ Occurrences(SeriesOf[v]) # {v}
      /\ V # {}
      /\ CancelVisits(V)

(* Mutant: the pass of the visitor who was removed is not revoked. *)
CancelParticipantKeepsPass(p) ==
  LET v == VisitOf[p]
      remaining == {q \in Party(v) \ {p} :
                      participant[q] \notin {"CANCELLED", "REJECTED"}}
  IN  /\ participant[p] \notin Terminal \cup {"absent", "CHECKED_IN"}
      /\ visit[v] \notin Terminal
      /\ IF remaining = {}
         THEN CancelVisits({v})
         ELSE /\ participant' = [participant EXCEPT ![p] = "CANCELLED"]
              /\ UNCHANGED <<clock, visit, sched, pass, window, entries, sweep>>

(* One visitor of a group.  remaining counts who is neither CANCELLED nor  *)
(* REJECTED; when it is 0 the whole visit is cancelled with cancelVisitTx. *)
CancelParticipant(p) ==
  LET v == VisitOf[p]
      remaining == {q \in Party(v) \ {p} :
                      participant[q] \notin {"CANCELLED", "REJECTED"}}
  IN  /\ participant[p] \notin Terminal \cup {"absent", "CHECKED_IN"}
      /\ visit[v] \notin Terminal
      /\ IF remaining = {}
         THEN CancelVisits({v})
         ELSE /\ participant' = [participant EXCEPT ![p] = "CANCELLED"]
              /\ pass' = [pass EXCEPT ![p] = Revoked(@)]
              /\ UNCHANGED <<clock, visit, sched, window, entries, sweep>>

-----------------------------------------------------------------------------
(* Passes and the door. *)

(* The old pass is revoked and a new one issued for the current schedule. *)
ReissueQR(p) ==
  /\ participant[p] \notin Terminal \cup {"absent"}
  /\ visit[VisitOf[p]] = "SCHEDULED"
  /\ IssuePasses({p}, sched, "fresh")
  /\ UNCHANGED <<clock, visit, participant, sched, entries, sweep>>

(* Mutant: a used pass opens the door again. *)
PassAdmitsAgain(p) ==
  /\ pass[p] \in LivePass
  /\ Open(window[p])
  /\ visit[VisitOf[p]] \notin {"CANCELLED", "REJECTED"}
  /\ participant[p] \notin Terminal

(* Mutant: the window of the pass is not looked at. *)
PassAdmitsAnytime(p) ==
  /\ pass[p] \in LivePass
  /\ visit[VisitOf[p]] \notin {"CANCELLED", "REJECTED"}
  /\ participant[p] \notin Terminal
  /\ SingleUse => pass[p] # "used"

(* What checkIn demands of the pass it is shown. *)
PassAdmits(p) ==
  /\ pass[p] \in LivePass
  /\ Open(window[p])
  /\ visit[VisitOf[p]] \notin {"CANCELLED", "REJECTED"}
  /\ participant[p] \notin Terminal
  /\ SingleUse => pass[p] # "used"

(* The writes checkIn and manualCheckIn share. *)
Admit(p) ==
  /\ pass' = [pass EXCEPT ![p] = IF @ \in LivePass THEN "used" ELSE @]
  /\ participant' = [participant EXCEPT ![p] = "CHECKED_IN"]
  /\ visit' = [visit EXCEPT ![VisitOf[p]] = IF @ = "SCHEDULED" THEN "CHECKED_IN" ELSE @]
  /\ entries' = [entries EXCEPT ![p] = Counted(@)]
  /\ UNCHANGED <<clock, sched, window, sweep>>

CheckIn(p) == PassAdmits(p) /\ Admit(p)

(* The lobby admits a scheduled visitor who cannot show the pass. *)
ManualCheckIn(p) ==
  /\ visit[VisitOf[p]] \notin {"CANCELLED", "REJECTED", "PENDING_APPROVAL"}
  /\ participant[p] = "SCHEDULED"
  /\ Open(Window(sched[VisitOf[p]]))
  /\ Admit(p)

CheckOut(p) ==
  /\ participant[p] = "CHECKED_IN"
  /\ participant' = [participant EXCEPT ![p] = "CHECKED_OUT"]
  /\ visit' = [visit EXCEPT ![VisitOf[p]] = Recount(VisitOf[p], participant')]
  /\ UNCHANGED <<clock, sched, pass, window, entries, sweep>>

-----------------------------------------------------------------------------
(* runVisitMaintenance: three statements that commit one after the other. *)

(* Scheduled participants whose grace has passed. *)
MarkNoShows(n) ==
  /\ sweep[n] = "idle"
  /\ participant' = [p \in Participants |->
                       IF Missed(p) THEN "NO_SHOW" ELSE participant[p]]
  /\ sweep' = [sweep EXCEPT ![n] = "marked"]
  /\ UNCHANGED <<clock, visit, sched, pass, window, entries>>

(* Mutant: one missed participant closes the visit. *)
CloseVisitsWithAMiss(n) ==
  /\ sweep[n] = "marked"
  /\ visit' = [v \in Visits |->
                 IF visit[v] = "SCHEDULED" /\ \E p \in Party(v) : participant[p] = "NO_SHOW"
                 THEN "NO_SHOW" ELSE visit[v]]
  /\ sweep' = [sweep EXCEPT ![n] = "closed"]
  /\ UNCHANGED <<clock, participant, sched, pass, window, entries>>

(* Scheduled visits no participant of which is anything but NO_SHOW. *)
CloseMissedVisits(n) ==
  /\ sweep[n] = "marked"
  /\ visit' = [v \in Visits |->
                 IF visit[v] = "SCHEDULED" /\ \A p \in Party(v) : participant[p] = "NO_SHOW"
                 THEN "NO_SHOW" ELSE visit[v]]
  /\ sweep' = [sweep EXCEPT ![n] = "closed"]
  /\ UNCHANGED <<clock, participant, sched, pass, window, entries>>

(* Mutant: the hour of the cutoff itself is not past it. *)
PastCutoffHour(p) ==
  participant[p] = "CHECKED_IN" /\ LocalHour(VisitOf[p]) > CutoffHour

(* Everybody inside at a site whose own clock is past the cutoff hour; that *)
(* they came in on this local day or an earlier one is always so.           *)
PastCutoff(p) ==
  participant[p] = "CHECKED_IN" /\ LocalHour(VisitOf[p]) >= CutoffHour

(* Mutant: the visits of those who are checked out are not counted again. *)
AutoCheckoutWithoutRecount(n) ==
  /\ sweep[n] = "closed"
  /\ participant' = [p \in Participants |->
                       IF PastCutoff(p) THEN "CHECKED_OUT" ELSE participant[p]]
  /\ sweep' = [sweep EXCEPT ![n] = "idle"]
  /\ UNCHANGED <<clock, visit, sched, pass, window, entries>>

AutoCheckout(n) ==
  LET ended == {p \in Participants : PastCutoff(p)}
  IN  /\ sweep[n] = "closed"
      /\ participant' = [p \in Participants |->
                           IF PastCutoff(p) THEN "CHECKED_OUT" ELSE participant[p]]
      /\ visit' = [v \in Visits |->
                     IF ended \cap Party(v) # {} THEN Recount(v, participant')
                     ELSE visit[v]]
      /\ sweep' = [sweep EXCEPT ![n] = "idle"]
      /\ UNCHANGED <<clock, sched, pass, window, entries>>

(* A statement fails: its error is logged and the sweep goes on, except     *)
(* that without the first statement the second one is skipped.              *)
StatementFails(n) ==
  /\ sweep' = [sweep EXCEPT ![n] = IF @ = "closed" THEN "idle" ELSE "closed"]
  /\ UNCHANGED <<clock, visit, participant, sched, pass, window, entries>>

(* The process is stopped between two statements and later started again. *)
NodeStops(n) ==
  /\ sweep[n] # "idle"
  /\ sweep' = [sweep EXCEPT ![n] = "idle"]
  /\ UNCHANGED <<clock, visit, participant, sched, pass, window, entries>>

(* The unit of the clock is an hour: longer than a sweep takes. *)
Tick ==
  /\ \A n \in Nodes : sweep[n] = "idle"
  /\ now' = IF now < MaxTime THEN now + 1 ELSE now
  /\ hour' = (hour + 1) % DayLength
  /\ UNCHANGED <<visit, participant, sched, pass, window, entries, sweep>>

-----------------------------------------------------------------------------

HostOrApprover(v) ==
  \/ ApproveVisit(v) \/ RejectVisit(v)
  \/ CancelVisit(v) \/ CancelSeries(v)
  \/ \E slot \in Slots : CreateWalkIn(v, slot) \/ UpdateVisit(v, slot)

Guest(p) ==
  CheckIn(p) \/ ManualCheckIn(p) \/ CheckOut(p) \/ ReissueQR(p) \/ CancelParticipant(p)

Maintenance(n) == MarkNoShows(n) \/ CloseMissedVisits(n) \/ AutoCheckout(n)

Next ==
  \/ \E v \in Visits, slot \in Slots, approval \in BOOLEAN :
       CreateVisit(SeriesOf[v], slot, approval)
  \/ \E v \in Visits : HostOrApprover(v)
  \/ \E p \in Participants : Guest(p)
  \/ \E n \in Nodes : Maintenance(n) \/ StatementFails(n) \/ NodeStops(n)
  \/ Tick

Spec == Init /\ [][Next]_vars

(* Time passes and the ticker of RunBackground keeps starting sweeps, every *)
(* ten minutes and so in every hour of the day; a statement that failed or  *)
(* was cut off is tried again and succeeds sooner or later in that hour of  *)
(* some day.  What people do is not assumed.                                *)
Fairness ==
  /\ SF_vars(Tick)
  /\ \A n \in Nodes :
       /\ WF_vars(Maintenance(n))
       /\ \A h \in 0..(DayLength - 1) :
            /\ SF_vars(hour = h /\ MarkNoShows(n))
            /\ SF_vars(hour = h /\ CloseMissedVisits(n))
            /\ SF_vars(hour = h /\ AutoCheckout(n))

FairSpec == Spec /\ Fairness

-----------------------------------------------------------------------------
(* Invariants. *)

TypeOK ==
  /\ now \in 0..MaxTime /\ hour \in 0..(DayLength - 1)
  /\ visit \in [Visits -> VisitStatus]
  /\ participant \in [Participants -> VisitStatus]
  /\ sched \in [Visits -> Period]
  /\ pass \in [Participants -> PassState]
  /\ window \in [Participants -> Period]
  /\ entries \in [Participants -> 0..2]
  /\ sweep \in [Nodes -> {"idle", "marked", "closed"}]

(* A visit is shown as CHECKED_IN exactly while one of its visitors is in   *)
(* the building: the two tables, recomputed by five handlers, never differ. *)
RosterAgrees ==
  \A v \in Visits :
    visit[v] = "CHECKED_IN" <=> \E p \in Party(v) : participant[p] = "CHECKED_IN"

(* While a visit waits for approval nobody of its party has a pass, somebody *)
(* is still waiting, and the others have been cancelled one by one.          *)
PendingIsSealed ==
  \A v \in Visits : visit[v] = "PENDING_APPROVAL" =>
    /\ \A p \in Party(v) :
         participant[p] \in {"PENDING_APPROVAL", "CANCELLED"} /\ pass[p] \notin LivePass
    /\ \E p \in Party(v) : participant[p] = "PENDING_APPROVAL"

(* A visit that is over has no visitor still expected or inside. *)
ClosedIsClosed ==
  \A v \in Visits, p \in Participants : VisitOf[p] = v =>
    /\ visit[v] = "CANCELLED" => participant[p] \in {"CANCELLED", "CHECKED_OUT"}
    /\ visit[v] = "REJECTED" => participant[p] = "REJECTED"
    /\ visit[v] = "NO_SHOW" => participant[p] = "NO_SHOW"
    /\ visit[v] = "CHECKED_OUT" => participant[p] \in {"CHECKED_OUT", "CANCELLED", "NO_SHOW"}

(* Whoever is still expected holds a pass that the door has not consumed,   *)
(* so no guest is turned away with "already used"; a visitor who was        *)
(* cancelled or rejected holds none.                                        *)
ExpectedGuestsCanEnter ==
  \A p \in Participants :
    /\ participant[p] = "SCHEDULED" => pass[p] = "fresh"
    /\ participant[p] \in {"CANCELLED", "REJECTED"} => pass[p] \notin LivePass

(* The window copied into the pass follows the schedule, so the door and the *)
(* no-show sweep, which read different columns, never both claim a guest.    *)
DoorAndSweepDisjoint ==
  \A p \in Participants : ~ (Missed(p) /\ PassAdmits(p))

(* With single-use passes nobody is admitted a second time, by whatever mix *)
(* of pass, reissued pass, manual check-in and walk-in registration.        *)
AdmittedOnce == SingleUse => \A p \in Participants : entries[p] <= 1

(* Which participant rows may stand under a visit of a given status. *)
Compatible(of, status) ==
  /\ of = "absent" => status = "absent"
  /\ of = "PENDING_APPROVAL" => status \in {"PENDING_APPROVAL", "CANCELLED"}
  /\ of = "SCHEDULED" => status \in {"SCHEDULED", "CHECKED_OUT", "CANCELLED", "NO_SHOW"}
  /\ of = "CHECKED_IN" => status \notin {"absent", "PENDING_APPROVAL", "REJECTED"}
  /\ of = "CHECKED_OUT" => status \in {"CHECKED_OUT", "CANCELLED", "NO_SHOW"}
  /\ of = "CANCELLED" => status \in {"CHECKED_OUT", "CANCELLED"}
  /\ of = "REJECTED" => status = "REJECTED"
  /\ of = "NO_SHOW" => status = "NO_SHOW"

(* The three tables and the event log agree row by row: the participant's   *)
(* status fits the visit's, the pass is what that status calls for, and the *)
(* log holds an arrival exactly for who came.                               *)
RecordAgrees(p) ==
  /\ Compatible(visit[VisitOf[p]], participant[p])
  /\ participant[p] \in {"absent", "PENDING_APPROVAL", "REJECTED"} \/ visit[VisitOf[p]] = "PENDING_APPROVAL"
       => pass[p] = "none" /\ entries[p] = 0
  /\ participant[p] \in {"SCHEDULED", "NO_SHOW"} => pass[p] = "fresh" /\ entries[p] = 0
  /\ participant[p] = "CHECKED_IN" => pass[p] = "used" /\ entries[p] > 0
  /\ participant[p] = "CHECKED_OUT" => pass[p] \in {"used", "revoked"} /\ entries[p] > 0
  /\ participant[p] = "CANCELLED" => pass[p] \in {"none", "revoked"}

RecordsAgree == \A p \in Participants : RecordAgrees(p)

(* A pass that is not revoked is valid for the schedule its visit has now. *)
WindowFollowsSchedule ==
  \A p \in Participants :
    pass[p] \in LivePass => window[p] = Window(sched[VisitOf[p]])

(* Some visitor keeps a visit open. *)
SomebodyWaits ==
  \A v \in Visits :
    visit[v] = "PENDING_APPROVAL" => \E p \in Party(v) : participant[p] = "PENDING_APPROVAL"

(* The inductive invariant of VisitLifecycleProofs. *)
IInv ==
  /\ TypeOK
  /\ RecordsAgree
  /\ RosterAgrees
  /\ WindowFollowsSchedule
  /\ SomebodyWaits
  /\ AdmittedOnce

-----------------------------------------------------------------------------
(* Action properties. *)

(* Who has left stays CHECKED_OUT: no cancellation, rejection, approval or   *)
(* sweep rewrites the record of a completed visit.                           *)
DepartureIsFinal ==
  [][\A p \in Participants :
       participant[p] = "CHECKED_OUT" => participant'[p] = "CHECKED_OUT"]_participant

(* A visitor comes in only on the day's plan: the visit was approved and not *)
(* over, and the current schedule was open with its tolerances - or the      *)
(* lobby has just registered the visit as a walk-in.                         *)
AdmissionIsPlanned ==
  [][\A p \in Participants : entries'[p] # entries[p] =>
       LET v == VisitOf[p]
       IN  \/ visit[v] = "absent" /\ visit'[v] = "CHECKED_IN"
           \/ visit[v] \in {"SCHEDULED", "CHECKED_IN"} /\ Open(Window(sched[v]))]_vars

-----------------------------------------------------------------------------
(* Liveness, under FairSpec. *)

(* An expected guest does not stay expected for ever: they come, or the host *)
(* cancels, or the sweep marks them as missing.                              *)
ExpectationEnds ==
  \A p \in Participants : participant[p] = "SCHEDULED" ~> participant[p] # "SCHEDULED"

(* Nobody stays on the roster for ever: the cutoff of the site's own clock   *)
(* checks out who did not leave through the lobby.                           *)
StayEnds ==
  \A p \in Participants : participant[p] = "CHECKED_IN" ~> participant[p] # "CHECKED_IN"

-----------------------------------------------------------------------------
(* The abstract specification this one implements. *)

Place(p) == IF participant[p] = "CHECKED_IN" THEN "inside"
            ELSE IF entries[p] = 0 THEN "away" ELSE "gone"

Occ == INSTANCE Occupancy WITH place <- [p \in Participants |-> Place(p)]

(* Whatever the handlers do, seen from the door each visitor comes   *)
(* in once and goes out once: no sequence of cancellations, approvals,      *)
(* reissued passes and check-outs brings back who has left.                 *)
ImplementsOccupancy == Occ!Spec
=============================================================================
