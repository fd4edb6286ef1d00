------------------------ MODULE VisitLifecycleProofs ------------------------
(* Proofs about VisitLifecycle, for all visits, participants and schedules. *)
EXTENDS VisitLifecycle, TLAPS

-----------------------------------------------------------------------------
(* Typing. *)

LEMMA InitTypeOK == Init => TypeOK
  BY LifecycleAssumption
  DEF LifecycleAssumption, Init, TypeOK, VisitStatus, PassState, Period

(* A planned schedule and the window of a plan are periods. *)
LEMMA PlannedType ==
  ASSUME NEW v \in Visits, NEW slot \in Slots
  PROVE  Planned(v, slot) \in Period
  BY LifecycleAssumption DEF LifecycleAssumption, Planned, Period

LEMMA WindowType ==
  ASSUME NEW plan \in Period
  PROVE  Window(plan) \in Period
  BY LifecycleAssumption DEF LifecycleAssumption, Window, Period

LEMMA NextTypeOK == TypeOK /\ [Next]_vars => TypeOK'
  <1> SUFFICES ASSUME TypeOK, [Next]_vars PROVE TypeOK'
    OBVIOUS
  <1> USE LifecycleAssumption DEF LifecycleAssumption, VisitStatus, PassState
  <1>1. ASSUME NEW s, NEW slot \in Slots, NEW approval \in BOOLEAN,
               CreateVisit(s, slot, approval)
        PROVE  TypeOK'
    BY <1>1, PlannedType, WindowType
    DEF CreateVisit, InsertVisits, IssuePasses, TypeOK, clock
  <1>2. ASSUME NEW v \in Visits, NEW slot \in Slots, CreateWalkIn(v, slot)
        PROVE  TypeOK'
    BY <1>2, PlannedType, WindowType
    DEF CreateWalkIn, InsertVisits, IssuePasses, Counted, TypeOK, clock
  <1>3. ASSUME NEW v \in Visits, ApproveVisit(v) PROVE TypeOK'
    BY <1>3, WindowType DEF ApproveVisit, IssuePasses, TypeOK, clock
  <1>4. ASSUME NEW v \in Visits, RejectVisit(v) PROVE TypeOK'
    BY <1>4 DEF RejectVisit, TypeOK, clock
  <1>5. ASSUME NEW v \in Visits, NEW slot \in Slots, UpdateVisit(v, slot)
        PROVE  TypeOK'
    BY <1>5, PlannedType, WindowType DEF UpdateVisit, TypeOK, clock
  <1>6. ASSUME NEW V, CancelVisits(V) PROVE TypeOK'
    BY <1>6 DEF CancelVisits, Revoked, LivePass, TypeOK, clock
  <1>7. ASSUME NEW p \in Participants, CancelParticipant(p) PROVE TypeOK'
    BY <1>6, <1>7 DEF CancelParticipant, Revoked, LivePass, TypeOK, clock
  <1>8. ASSUME NEW p \in Participants, ReissueQR(p) PROVE TypeOK'
    BY <1>8, WindowType DEF ReissueQR, IssuePasses, TypeOK, clock
  <1>9. ASSUME NEW p \in Participants, Admit(p) PROVE TypeOK'
    BY <1>9 DEF Admit, Counted, LivePass, TypeOK, clock
  <1>10. ASSUME NEW p \in Participants, CheckOut(p) PROVE TypeOK'
    BY <1>10 DEF CheckOut, Recount, TypeOK, clock
  <1>11. ASSUME NEW n \in Nodes, MarkNoShows(n) PROVE TypeOK'
    BY <1>11 DEF MarkNoShows, TypeOK, clock
  <1>12. ASSUME NEW n \in Nodes, CloseMissedVisits(n) PROVE TypeOK'
    BY <1>12 DEF CloseMissedVisits, TypeOK, clock
  <1>13. ASSUME NEW n \in Nodes, AutoCheckout(n) PROVE TypeOK'
    BY <1>13 DEF AutoCheckout, Recount, TypeOK, clock
  <1>14. ASSUME NEW n \in Nodes, StatementFails(n) \/ NodeStops(n) PROVE TypeOK'
    BY <1>14 DEF StatementFails, NodeStops, TypeOK, clock
  <1>15. ASSUME Tick PROVE TypeOK'
    BY <1>15 DEF Tick, TypeOK
  <1>16. CASE UNCHANGED vars
    BY <1>16 DEF vars, TypeOK
  <1>17. ASSUME NEW v \in Visits, HostOrApprover(v) PROVE TypeOK'
    BY <1>17, <1>2, <1>3, <1>4, <1>5, <1>6 DEF HostOrApprover, CancelVisit, CancelSeries
  <1>18. ASSUME NEW p \in Participants, Guest(p) PROVE TypeOK'
    BY <1>18, <1>7, <1>8, <1>9, <1>10 DEF Guest, CheckIn, ManualCheckIn
  <1>19. ASSUME NEW n \in Nodes, Maintenance(n) PROVE TypeOK'
    BY <1>19, <1>11, <1>12, <1>13 DEF Maintenance
  <1> QED
    BY <1>1, <1>14, <1>15, <1>16, <1>17, <1>18, <1>19 DEF Next

(* The rows always hold values the schema and the code allow. *)
THEOREM Typing == Spec => []TypeOK
  BY InitTypeOK, NextTypeOK, PTL DEF Spec

-----------------------------------------------------------------------------
(* The inductive invariant.  RecordsAgree is what makes it inductive: it    *)
(* ties each participant's status to the visit's status, to the newest pass *)
(* and to the log of arrivals, which is what every handler's guard relies   *)
(* on when it looks at one of the four tables only.                         *)

LEMMA InitIInv == Init => IInv
  <1> SUFFICES ASSUME Init PROVE IInv
    OBVIOUS
  <1> USE LifecycleAssumption DEF LifecycleAssumption, Init
  <1>1. RecordsAgree
    BY DEF RecordsAgree, RecordAgrees, Compatible
  <1>2. RosterAgrees /\ SomebodyWaits
    BY DEF RosterAgrees, SomebodyWaits, Party
  <1>3. WindowFollowsSchedule /\ AdmittedOnce
    BY DEF WindowFollowsSchedule, AdmittedOnce, LivePass
  <1> QED
    BY <1>1, <1>2, <1>3, InitTypeOK DEF IInv

(* The part of IInv that speaks of the records, without their types. *)
Agreement ==
  RecordsAgree /\ RosterAgrees /\ WindowFollowsSchedule /\ SomebodyWaits /\ AdmittedOnce

LEMMA CreateVisitStep ==
  ASSUME IInv, NEW s, NEW slot \in Slots, NEW approval \in BOOLEAN,
         CreateVisit(s, slot, approval)
  PROVE  Agreement'
  <1> USE LifecycleAssumption
      DEF LifecycleAssumption, IInv, TypeOK, CreateVisit, InsertVisits, Occurrences, clock
  <1>1. RecordsAgree'
    <2> SUFFICES ASSUME NEW p \in Participants PROVE RecordAgrees(p)'
      BY DEF RecordsAgree
    <2>1. CASE SeriesOf[VisitOf[p]] = s
      <3>1. pass[p] = "none" /\ entries[p] = 0
        BY <2>1 DEF RecordsAgree, RecordAgrees, Compatible
      <3>2. CASE approval
        BY <2>1, <3>1, <3>2 DEF RecordAgrees, Compatible
      <3>3. CASE ~ approval
        BY <2>1, <3>1, <3>3 DEF IssuePasses, RecordAgrees, Compatible
      <3> QED
        BY <3>2, <3>3
    <2>2. CASE SeriesOf[VisitOf[p]] # s
      BY <2>2 DEF IssuePasses, RecordsAgree, RecordAgrees, Compatible
    <2> QED
      BY <2>1, <2>2
  <1>2. RosterAgrees' /\ SomebodyWaits'
    BY DEF IssuePasses, RosterAgrees, SomebodyWaits, Party
  <1>3. WindowFollowsSchedule'
    <2> SUFFICES ASSUME NEW p \in Participants, pass'[p] \in LivePass
                 PROVE  window'[p] = Window(sched'[VisitOf[p]])
      BY DEF WindowFollowsSchedule
    <2>1. CASE SeriesOf[VisitOf[p]] = s
      <3>1. participant[p] = "absent" /\ pass[p] = "none"
        BY <2>1 DEF RecordsAgree, RecordAgrees, Compatible
      <3> QED
        BY <3>1, <2>1 DEF IssuePasses, LivePass
    <2>2. CASE SeriesOf[VisitOf[p]] # s
      BY <2>2 DEF IssuePasses, WindowFollowsSchedule
    <2> QED
      BY <2>1, <2>2
  <1>4. AdmittedOnce'
    BY DEF AdmittedOnce
  <1> QED
    BY <1>1, <1>2, <1>3, <1>4 DEF Agreement

LEMMA CreateWalkInStep ==
  ASSUME IInv, NEW v \in Visits, NEW slot \in Slots, CreateWalkIn(v, slot)
  PROVE  Agreement'
  <1> USE LifecycleAssumption
      DEF LifecycleAssumption, IInv, TypeOK, CreateWalkIn, InsertVisits, IssuePasses, Party, clock
  <1>1. RecordsAgree'
    <2> SUFFICES ASSUME NEW p \in Participants PROVE RecordAgrees(p)'
      BY DEF RecordsAgree
    <2>1. CASE VisitOf[p] = v
      BY <2>1 DEF RecordAgrees, Compatible, Counted
    <2>2. CASE VisitOf[p] # v
      BY <2>2 DEF RecordsAgree, RecordAgrees, Compatible
    <2> QED
      BY <2>1, <2>2
  <1>2. RosterAgrees' /\ SomebodyWaits'
    BY DEF RosterAgrees, SomebodyWaits
  <1>3. WindowFollowsSchedule'
    BY DEF WindowFollowsSchedule, LivePass, Planned, Window
  <1>4. AdmittedOnce'
    BY DEF AdmittedOnce, RecordsAgree, RecordAgrees, Compatible, Counted
  <1> QED
    BY <1>1, <1>2, <1>3, <1>4 DEF Agreement

LEMMA ApproveVisitStep ==
  ASSUME IInv, NEW v \in Visits, ApproveVisit(v)
  PROVE  Agreement'
  <1> USE LifecycleAssumption
      DEF LifecycleAssumption, IInv, TypeOK, ApproveVisit, IssuePasses, Party, clock
  <1>1. RecordsAgree'
    BY DEF RecordsAgree, RecordAgrees, Compatible
  <1>2. RosterAgrees' /\ SomebodyWaits'
    BY DEF RosterAgrees, SomebodyWaits
  <1>3. WindowFollowsSchedule'
    BY DEF WindowFollowsSchedule, LivePass
  <1>4. AdmittedOnce'
    BY DEF AdmittedOnce
  <1> QED
    BY <1>1, <1>2, <1>3, <1>4 DEF Agreement

LEMMA RejectVisitStep ==
  ASSUME IInv, NEW v \in Visits, RejectVisit(v)
  PROVE  Agreement'
  <1> USE LifecycleAssumption
      DEF LifecycleAssumption, IInv, TypeOK, RejectVisit, Party, clock
  <1>1. RecordsAgree'
    BY DEF RecordsAgree, RecordAgrees, Compatible
  <1>2. RosterAgrees' /\ SomebodyWaits'
    BY DEF RosterAgrees, SomebodyWaits
  <1>3. WindowFollowsSchedule' /\ AdmittedOnce'
    BY DEF WindowFollowsSchedule, AdmittedOnce
  <1> QED
    BY <1>1, <1>2, <1>3 DEF Agreement

LEMMA UpdateVisitStep ==
  ASSUME IInv, NEW v \in Visits, NEW slot \in Slots, UpdateVisit(v, slot)
  PROVE  Agreement'
  <1> USE LifecycleAssumption
      DEF LifecycleAssumption, IInv, TypeOK, UpdateVisit, Party, clock
  <1>1. RecordsAgree'
    BY DEF RecordsAgree, RecordAgrees
  <1>2. RosterAgrees' /\ SomebodyWaits' /\ AdmittedOnce'
    BY DEF RosterAgrees, SomebodyWaits, AdmittedOnce
  <1>3. WindowFollowsSchedule'
    BY PlannedType DEF WindowFollowsSchedule
  <1> QED
    BY <1>1, <1>2, <1>3 DEF Agreement

(* Of the visits that are cancelled none may be absent or rejected. *)
LEMMA CancelVisitsStep ==
  ASSUME IInv, NEW V, \A v \in V \cap Visits : visit[v] \notin {"absent", "REJECTED"},
         CancelVisits(V)
  PROVE  Agreement'
  <1> USE LifecycleAssumption
      DEF LifecycleAssumption, IInv, TypeOK, CancelVisits, Party, clock
  <1>1. RecordsAgree'
    <2> SUFFICES ASSUME NEW p \in Participants PROVE RecordAgrees(p)'
      BY DEF RecordsAgree
    <2>1. CASE VisitOf[p] \in V
      <3>1. visit'[VisitOf[p]] = "CANCELLED" /\ pass'[p] \notin LivePass
        BY <2>1 DEF Revoked, LivePass
      <3>2. participant[p] \notin {"absent", "REJECTED"}
        BY <2>1 DEF RecordsAgree, RecordAgrees, Compatible, VisitStatus
      <3>3. CASE participant[p] \in {"CHECKED_OUT", "CANCELLED"}
        BY <2>1, <3>1, <3>3 DEF RecordsAgree, RecordAgrees, Compatible, Revoked, LivePass
      <3>4. CASE participant[p] \notin {"CHECKED_OUT", "CANCELLED"}
        BY <2>1, <3>1, <3>4 DEF RecordsAgree, RecordAgrees, Compatible, Revoked, LivePass, PassState
      <3> QED
        BY <3>3, <3>4
    <2>2. CASE VisitOf[p] \notin V
      BY <2>2 DEF RecordsAgree, RecordAgrees, Compatible
    <2> QED
      BY <2>1, <2>2
  <1>2. RosterAgrees' /\ SomebodyWaits'
    BY DEF RosterAgrees, SomebodyWaits
  <1>3. WindowFollowsSchedule' /\ AdmittedOnce'
    BY DEF WindowFollowsSchedule, AdmittedOnce, Revoked, LivePass
  <1> QED
    BY <1>1, <1>2, <1>3 DEF Agreement

LEMMA CancelParticipantStep ==
  ASSUME IInv, NEW p \in Participants, CancelParticipant(p)
  PROVE  Agreement'
  <1> DEFINE v == VisitOf[p]
             remaining == {q \in Party(v) \ {p} :
                             participant[q] \notin {"CANCELLED", "REJECTED"}}
  <1> USE LifecycleAssumption DEF LifecycleAssumption, IInv, TypeOK, clock
  <1>1. visit[v] \notin {"absent", "REJECTED"}
    BY DEF CancelParticipant, Terminal, RecordsAgree, RecordAgrees, Compatible
  <1>2. CASE remaining = {}
    <2>1. CancelVisits({v})
      BY <1>2 DEF CancelParticipant
    <2> QED
      BY <1>1, <2>1, CancelVisitsStep
  <1>3. CASE remaining # {}
    <2>1. /\ participant' = [participant EXCEPT ![p] = "CANCELLED"]
          /\ pass' = [pass EXCEPT ![p] = Revoked(@)]
          /\ UNCHANGED <<clock, visit, sched, window, entries, sweep>>
          /\ participant[p] \notin Terminal \cup {"absent", "CHECKED_IN"}
      BY <1>3 DEF CancelParticipant
    <2>2. participant[p] \in {"PENDING_APPROVAL", "SCHEDULED"}
      BY <2>1 DEF Terminal, VisitStatus
    <2> HIDE DEF v, remaining
    <2>3. RecordsAgree'
      <3> SUFFICES ASSUME NEW q \in Participants PROVE RecordAgrees(q)'
        BY DEF RecordsAgree
      <3>1. CASE q = p
        BY <2>1, <2>2, <3>1 DEF RecordsAgree, RecordAgrees, Compatible, Revoked, LivePass
      <3>2. CASE q # p
        BY <2>1, <3>2 DEF RecordsAgree, RecordAgrees
      <3> QED
        BY <3>1, <3>2
    <2>4. RosterAgrees'
      BY <2>1, <2>2 DEF RosterAgrees, Party
    <2>5. SomebodyWaits'
      <3> SUFFICES ASSUME NEW w \in Visits, visit[w] = "PENDING_APPROVAL"
                   PROVE  \E q \in Party(w) : participant'[q] = "PENDING_APPROVAL"
        BY <2>1 DEF SomebodyWaits, Party
      <3>1. CASE w = v
        <4>1. PICK q \in Party(v) \ {p} : participant[q] \notin {"CANCELLED", "REJECTED"}
          BY <1>3 DEF remaining
        <4>2. participant[q] = "PENDING_APPROVAL"
          BY <3>1, <4>1 DEF Party, RecordsAgree, RecordAgrees, Compatible
        <4> QED
          BY <2>1, <3>1, <4>1, <4>2
      <3>2. CASE w # v
        BY <2>1, <3>2 DEF SomebodyWaits, Party, v
      <3> QED
        BY <3>1, <3>2
    <2>6. WindowFollowsSchedule' /\ AdmittedOnce'
      BY <2>1 DEF WindowFollowsSchedule, AdmittedOnce, Revoked, LivePass
    <2> QED
      BY <2>3, <2>4, <2>5, <2>6 DEF Agreement
  <1> QED
    BY <1>2, <1>3

LEMMA ReissueQRStep ==
  ASSUME IInv, NEW p \in Participants, ReissueQR(p)
  PROVE  Agreement'
  <1> USE LifecycleAssumption
      DEF LifecycleAssumption, IInv, TypeOK, ReissueQR, IssuePasses, clock
  <1>1. participant[p] = "SCHEDULED"
    BY DEF Terminal, RecordsAgree, RecordAgrees, Compatible
  <1>2. RecordsAgree'
    BY <1>1 DEF RecordsAgree, RecordAgrees
  <1>3. RosterAgrees' /\ SomebodyWaits' /\ AdmittedOnce'
    BY DEF RosterAgrees, SomebodyWaits, AdmittedOnce, Party
  <1>4. WindowFollowsSchedule'
    BY DEF WindowFollowsSchedule
  <1> QED
    BY <1>2, <1>3, <1>4 DEF Agreement

(* Both doors: the visitor is expected, or inside already and let in again. *)
LEMMA AdmitStep ==
  ASSUME IInv, NEW p \in Participants, Admit(p),
         \/ participant[p] = "SCHEDULED"
         \/ ~ SingleUse /\ participant[p] = "CHECKED_IN"
  PROVE  Agreement'
  <1> USE LifecycleAssumption DEF LifecycleAssumption, IInv, TypeOK, Admit, clock
  <1>1. visit[VisitOf[p]] \in {"SCHEDULED", "CHECKED_IN"}
    <2>1. participant[p] \in {"SCHEDULED", "CHECKED_IN"} /\ VisitOf[p] \in Visits
      OBVIOUS
    <2>2. RecordAgrees(p) /\ visit[VisitOf[p]] \in VisitStatus
      BY <2>1 DEF RecordsAgree
    <2> QED
      BY <2>1, <2>2 DEF RecordAgrees, Compatible, VisitStatus
  <1>2. RecordsAgree'
    <2> SUFFICES ASSUME NEW q \in Participants PROVE RecordAgrees(q)'
      BY DEF RecordsAgree
    <2>1. CASE q = p
      <3>1. visit'[VisitOf[p]] = "CHECKED_IN" /\ participant'[p] = "CHECKED_IN"
        BY <1>1
      <3>2. pass'[p] = "used" /\ entries'[p] > 0
        BY DEF RecordsAgree, RecordAgrees, LivePass, Counted
      <3> QED
        BY <2>1, <3>1, <3>2 DEF RecordAgrees, Compatible
    <2>2. CASE q # p
      <3>1. /\ participant'[q] = participant[q] /\ pass'[q] = pass[q]
            /\ entries'[q] = entries[q]
        BY <2>2
      <3>2. CASE VisitOf[q] = VisitOf[p]
        BY <1>1, <3>1, <3>2 DEF RecordsAgree, RecordAgrees, Compatible
      <3>3. CASE VisitOf[q] # VisitOf[p]
        BY <3>1, <3>3 DEF RecordsAgree, RecordAgrees
      <3> QED
        BY <3>2, <3>3
    <2> QED
      BY <2>1, <2>2
  <1>3. RosterAgrees'
    <2> SUFFICES ASSUME NEW v \in Visits
                 PROVE  visit'[v] = "CHECKED_IN"
                          <=> \E q \in Party(v) : participant'[q] = "CHECKED_IN"
      BY DEF RosterAgrees, Party
    <2>1. CASE v = VisitOf[p]
      BY <1>1, <2>1 DEF Party
    <2>2. CASE v # VisitOf[p]
      BY <2>2 DEF RosterAgrees, Party
    <2> QED
      BY <2>1, <2>2
  <1>4. SomebodyWaits'
    BY <1>1 DEF SomebodyWaits, Party
  <1>5. WindowFollowsSchedule'
    BY DEF WindowFollowsSchedule, LivePass
  <1>6. AdmittedOnce'
    BY DEF AdmittedOnce, RecordsAgree, RecordAgrees, Counted
  <1> QED
    BY <1>2, <1>3, <1>4, <1>5, <1>6 DEF Agreement

LEMMA CheckInStep ==
  ASSUME IInv, NEW p \in Participants, CheckIn(p)
  PROVE  Agreement'
  <1>1. participant[p] \in VisitStatus /\ SingleUse \in BOOLEAN
    BY LifecycleAssumption DEF IInv, TypeOK, LifecycleAssumption
  <1>2. RecordAgrees(p)
    BY DEF IInv, RecordsAgree
  <1>3. participant[p] \in {"SCHEDULED", "CHECKED_IN"}
    BY <1>1, <1>2
    DEF CheckIn, PassAdmits, Terminal, LivePass, RecordAgrees, VisitStatus
  <1>4. SingleUse => participant[p] # "CHECKED_IN"
    BY <1>2 DEF CheckIn, PassAdmits, RecordAgrees
  <1> QED
    BY <1>1, <1>3, <1>4, AdmitStep DEF CheckIn

LEMMA ManualCheckInStep ==
  ASSUME IInv, NEW p \in Participants, ManualCheckIn(p)
  PROVE  Agreement'
  BY AdmitStep DEF ManualCheckIn

(* Both check-outs: the participants of P leave, and every visit they belong *)
(* to is counted again.                                                      *)
LEMMA DepartureStep ==
  ASSUME IInv, NEW P \in SUBSET Participants,
         \A p \in P : participant[p] = "CHECKED_IN",
         participant' = [p \in Participants |->
                           IF p \in P THEN "CHECKED_OUT" ELSE participant[p]],
         visit' = [v \in Visits |->
                     IF P \cap Party(v) # {} THEN Recount(v, participant') ELSE visit[v]],
         UNCHANGED <<sched, pass, window, entries>>
  PROVE  Agreement'
  <1> USE LifecycleAssumption DEF LifecycleAssumption, IInv, TypeOK
  <1>1. \A p \in P : visit[VisitOf[p]] = "CHECKED_IN"
    BY DEF RosterAgrees, Party
  <1>2. ASSUME NEW v \in Visits, P \cap Party(v) # {}
        PROVE  visit[v] = "CHECKED_IN"
    BY <1>1, <1>2 DEF Party
  <1>3. RecordsAgree'
    <2> SUFFICES ASSUME NEW q \in Participants PROVE RecordAgrees(q)'
      BY DEF RecordsAgree
    <2> DEFINE v == VisitOf[q]
    <2>1. CASE P \cap Party(v) = {}
      <3>1. q \notin P /\ participant'[q] = participant[q] /\ visit'[v] = visit[v]
        BY <2>1 DEF Party
      <3> QED
        BY <3>1 DEF RecordsAgree, RecordAgrees
    <2>2. CASE P \cap Party(v) # {}
      <3>1. visit[v] = "CHECKED_IN" /\ RecordAgrees(q)
        BY <1>2, <2>2 DEF RecordsAgree
      <3>2. /\ visit'[v] = Recount(v, participant')
            /\ q \in Party(v)
        BY <2>2 DEF Party
      <3>3. visit'[v] \in {"CHECKED_IN", "SCHEDULED", "CHECKED_OUT"}
        BY <3>2 DEF Recount
      <3>4. /\ participant'[q] = "CHECKED_IN" => visit'[v] = "CHECKED_IN"
            /\ participant'[q] = "SCHEDULED" => visit'[v] # "CHECKED_OUT"
        BY <3>2 DEF Recount
      <3>5. CASE q \in P
        BY <3>1, <3>3, <3>5 DEF RecordAgrees, Compatible
      <3>6. CASE q \notin P
        <4>1. participant'[q] = participant[q]
          BY <3>6
        <4> HIDE DEF v
        <4>2. Compatible(visit'[v], participant[q])
          BY <3>1, <3>3, <3>4, <4>1 DEF RecordAgrees, Compatible, VisitStatus, v
        <4> QED
          BY <3>1, <3>3, <4>1, <4>2 DEF RecordAgrees, v
      <3> QED
        BY <3>5, <3>6
    <2> QED
      BY <2>1, <2>2
  <1>4. RosterAgrees'
    <2> SUFFICES ASSUME NEW v \in Visits
                 PROVE  visit'[v] = "CHECKED_IN"
                          <=> \E q \in Party(v) : participant'[q] = "CHECKED_IN"
      BY DEF RosterAgrees, Party
    <2>1. CASE P \cap Party(v) = {}
      BY <2>1 DEF RosterAgrees, Party
    <2>2. CASE P \cap Party(v) # {}
      BY <2>2 DEF Recount
    <2> QED
      BY <2>1, <2>2
  <1>5. SomebodyWaits'
    <2> SUFFICES ASSUME NEW v \in Visits, visit'[v] = "PENDING_APPROVAL"
                 PROVE  \E q \in Party(v) : participant'[q] = "PENDING_APPROVAL"
      BY DEF SomebodyWaits, Party
    <2>1. P \cap Party(v) = {}
      BY DEF Recount
    <2> QED
      BY <2>1 DEF SomebodyWaits, Party
  <1>6. WindowFollowsSchedule' /\ AdmittedOnce'
    BY DEF WindowFollowsSchedule, AdmittedOnce
  <1> QED
    BY <1>3, <1>4, <1>5, <1>6 DEF Agreement

LEMMA CheckOutStep ==
  ASSUME IInv, NEW p \in Participants, CheckOut(p)
  PROVE  Agreement'
  <1> USE LifecycleAssumption DEF LifecycleAssumption, IInv, TypeOK
  <1>1. participant' = [q \in Participants |->
                          IF q \in {p} THEN "CHECKED_OUT" ELSE participant[q]]
    BY DEF CheckOut
  <1>2. visit' = [v \in Visits |->
                    IF {p} \cap Party(v) # {} THEN Recount(v, participant') ELSE visit[v]]
    BY DEF CheckOut, Party
  <1>3. UNCHANGED <<sched, pass, window, entries>>
    BY DEF CheckOut
  <1>4. {p} \in SUBSET Participants /\ \A q \in {p} : participant[q] = "CHECKED_IN"
    BY DEF CheckOut
  <1> QED
    BY <1>1, <1>2, <1>3, <1>4, DepartureStep

LEMMA AutoCheckoutStep ==
  ASSUME IInv, NEW n \in Nodes, AutoCheckout(n)
  PROVE  Agreement'
  <1> DEFINE P == {p \in Participants : PastCutoff(p)}
  <1>1. \A p \in P : participant[p] = "CHECKED_IN"
    BY DEF PastCutoff
  <1>2. participant' = [p \in Participants |->
                          IF p \in P THEN "CHECKED_OUT" ELSE participant[p]]
    BY DEF AutoCheckout
  <1>3. visit' = [v \in Visits |->
                    IF P \cap Party(v) # {} THEN Recount(v, participant') ELSE visit[v]]
    BY Zenon DEF AutoCheckout
  <1>4. UNCHANGED <<sched, pass, window, entries>>
    BY DEF AutoCheckout
  <1> HIDE DEF P
  <1>5. P \in SUBSET Participants
    BY DEF P
  <1> QED
    BY <1>1, <1>2, <1>3, <1>4, <1>5, DepartureStep

LEMMA MarkNoShowsStep ==
  ASSUME IInv, NEW n \in Nodes, MarkNoShows(n)
  PROVE  Agreement'
  <1> USE LifecycleAssumption
      DEF LifecycleAssumption, IInv, TypeOK, MarkNoShows, Missed, clock
  <1>1. RecordsAgree'
    BY DEF RecordsAgree, RecordAgrees, Compatible
  <1>2. RosterAgrees' /\ SomebodyWaits'
    BY DEF RosterAgrees, SomebodyWaits, Party
  <1>3. WindowFollowsSchedule' /\ AdmittedOnce'
    BY DEF WindowFollowsSchedule, AdmittedOnce
  <1> QED
    BY <1>1, <1>2, <1>3 DEF Agreement

LEMMA CloseMissedVisitsStep ==
  ASSUME IInv, NEW n \in Nodes, CloseMissedVisits(n)
  PROVE  Agreement'
  <1> USE LifecycleAssumption
      DEF LifecycleAssumption, IInv, TypeOK, CloseMissedVisits, clock
  <1>1. RecordsAgree'
    BY DEF RecordsAgree, RecordAgrees, Compatible, Party
  <1>2. RosterAgrees' /\ SomebodyWaits'
    BY DEF RosterAgrees, SomebodyWaits, Party
  <1>3. WindowFollowsSchedule' /\ AdmittedOnce'
    BY DEF WindowFollowsSchedule, AdmittedOnce
  <1> QED
    BY <1>1, <1>2, <1>3 DEF Agreement

(* A step that leaves the records alone. *)
LEMMA OtherStep ==
  ASSUME IInv, UNCHANGED <<visit, participant, sched, pass, window, entries>>
  PROVE  Agreement'
  BY DEF IInv, Agreement, RecordsAgree, RecordAgrees, RosterAgrees,
         WindowFollowsSchedule, SomebodyWaits, AdmittedOnce, Party

LEMMA CancelStep ==
  ASSUME IInv, NEW v \in Visits, CancelVisit(v) \/ CancelSeries(v)
  PROVE  Agreement'
  <1>1. CASE CancelVisit(v)
    BY <1>1, CancelVisitsStep DEF CancelVisit, Cancellable
  <1>2. CASE CancelSeries(v)
    <2> DEFINE V == {w \in Occurrences(SeriesOf[v]) :
                       Cancellable(w) /\ sched[w].start >= sched[v].start}
    <2>1. CancelVisits(V)
      BY <1>2 DEF CancelSeries
    <2>2. \A w \in V \cap Visits : visit[w] \notin {"absent", "REJECTED"}
      BY DEF Cancellable
    <2> QED
      BY <2>1, <2>2, CancelVisitsStep
  <1> QED
    BY <1>1, <1>2

LEMMA NextIInv == IInv /\ [Next]_vars => IInv'
  <1> SUFFICES ASSUME IInv, [Next]_vars PROVE IInv'
    OBVIOUS
  <1>1. TypeOK'
    BY NextTypeOK DEF IInv
  <1>2. ASSUME NEW v \in Visits, HostOrApprover(v) PROVE Agreement'
    BY <1>2, ApproveVisitStep, RejectVisitStep, CancelStep, CreateWalkInStep, UpdateVisitStep
    DEF HostOrApprover
  <1>3. ASSUME NEW p \in Participants, Guest(p) PROVE Agreement'
    BY <1>3, CheckInStep, ManualCheckInStep, CheckOutStep, ReissueQRStep, CancelParticipantStep
    DEF Guest
  <1>4. ASSUME NEW n \in Nodes, Maintenance(n) \/ StatementFails(n) \/ NodeStops(n)
        PROVE  Agreement'
    BY <1>4, MarkNoShowsStep, CloseMissedVisitsStep, AutoCheckoutStep, OtherStep
    DEF Maintenance, StatementFails, NodeStops
  <1>5. ASSUME Tick \/ UNCHANGED vars PROVE Agreement'
    BY <1>5, OtherStep DEF Tick, vars
  <1>6. Agreement'
    BY <1>2, <1>3, <1>4, <1>5, CreateVisitStep DEF Next
  <1> QED
    BY <1>1, <1>6 DEF IInv, Agreement

(* The three tables and the log of arrivals always agree. *)
THEOREM Records == Spec => []IInv
  BY InitIInv, NextIInv, PTL DEF Spec

(* A visit is shown as CHECKED_IN exactly while one of its party is inside. *)
THEOREM Roster == Spec => []RosterAgrees
  <1>1. IInv => RosterAgrees
    BY DEF IInv
  <1> QED
    BY <1>1, Records, PTL

(* With single-use passes every visitor is admitted at most once. *)
THEOREM SingleAdmission == Spec => []AdmittedOnce
  <1>1. IInv => AdmittedOnce
    BY DEF IInv
  <1> QED
    BY <1>1, Records, PTL

(* A visit that is over has nobody expected or inside. *)
THEOREM Closure == Spec => []ClosedIsClosed
  <1>1. IInv => ClosedIsClosed
    BY DEF IInv, TypeOK, RecordsAgree, RecordAgrees, Compatible, ClosedIsClosed
  <1> QED
    BY <1>1, Records, PTL

(* A visit that waits for approval has no pass out. *)
THEOREM Sealed == Spec => []PendingIsSealed
  <1>1. IInv => PendingIsSealed
    BY DEF IInv, RecordsAgree, RecordAgrees, Compatible, SomebodyWaits, PendingIsSealed,
           Party, LivePass
  <1> QED
    BY <1>1, Records, PTL

(* Whoever is expected holds an unused pass; who was turned away holds none. *)
THEOREM Expected == Spec => []ExpectedGuestsCanEnter
  <1>1. IInv => ExpectedGuestsCanEnter
    BY DEF IInv, RecordsAgree, RecordAgrees, ExpectedGuestsCanEnter, LivePass
  <1> QED
    BY <1>1, Records, PTL

(* The door and the no-show sweep never both claim a visitor. *)
THEOREM DoorAgainstSweep == Spec => []DoorAndSweepDisjoint
  <1>1. IInv => DoorAndSweepDisjoint
    <2> SUFFICES ASSUME IInv, NEW p \in Participants, Missed(p), PassAdmits(p)
                 PROVE  FALSE
      BY DEF DoorAndSweepDisjoint
    <2>1. sched[VisitOf[p]].end \in Int /\ now \in Int /\ Late \in Int
      BY LifecycleAssumption DEF LifecycleAssumption, IInv, TypeOK, Period
    <2>2. window[p] = Window(sched[VisitOf[p]])
      BY DEF IInv, WindowFollowsSchedule, PassAdmits
    <2>3. now <= sched[VisitOf[p]].end + Late
      BY <2>2 DEF PassAdmits, Open, Window
    <2> QED
      BY <2>1, <2>3 DEF Missed
  <1> QED
    BY <1>1, Records, PTL

(* Nothing rewrites the record of a visitor who has left. *)
THEOREM Departure == Spec => DepartureIsFinal
  <1>1. ASSUME IInv, [Next]_vars, NEW p \in Participants, participant[p] = "CHECKED_OUT"
        PROVE  participant'[p] = "CHECKED_OUT"
    <2> USE LifecycleAssumption DEF LifecycleAssumption
    <2>1. /\ participant \in [Participants -> VisitStatus] /\ VisitOf[p] \in Visits
          /\ visit[VisitOf[p]] \notin {"absent", "PENDING_APPROVAL", "REJECTED"}
      BY <1>1 DEF IInv, TypeOK, RecordsAgree, RecordAgrees, Compatible
    <2>2. ASSUME NEW s, NEW slot \in Slots, NEW approval \in BOOLEAN,
                 CreateVisit(s, slot, approval)
          PROVE  participant'[p] = "CHECKED_OUT"
      BY <1>1, <2>1, <2>2 DEF CreateVisit, InsertVisits, Occurrences
    <2>3. ASSUME NEW V, CancelVisits(V) PROVE participant'[p] = "CHECKED_OUT"
      BY <1>1, <2>1, <2>3 DEF CancelVisits
    <2>4. ASSUME NEW v \in Visits, HostOrApprover(v)
          PROVE  participant'[p] = "CHECKED_OUT"
      BY <1>1, <2>1, <2>3, <2>4
      DEF HostOrApprover, ApproveVisit, RejectVisit, CancelVisit, CancelSeries,
          CreateWalkIn, InsertVisits, UpdateVisit, Party
    <2>5. ASSUME NEW q \in Participants, Guest(q)
          PROVE  participant'[p] = "CHECKED_OUT"
      BY <1>1, <2>1, <2>3, <2>5
      DEF Guest, CheckIn, PassAdmits, ManualCheckIn, Admit, CheckOut, ReissueQR,
          CancelParticipant, Terminal
    <2>6. ASSUME NEW n \in Nodes, Maintenance(n) \/ StatementFails(n) \/ NodeStops(n)
          PROVE  participant'[p] = "CHECKED_OUT"
      BY <1>1, <2>1, <2>6
      DEF Maintenance, MarkNoShows, Missed, CloseMissedVisits, AutoCheckout,
          StatementFails, NodeStops
    <2>7. CASE Tick \/ UNCHANGED vars
      BY <1>1, <2>7 DEF Tick, vars
    <2> QED
      BY <1>1, <2>2, <2>4, <2>5, <2>6, <2>7 DEF Next
  <1>2. IInv /\ [Next]_vars =>
          [\A p \in Participants :
             participant[p] = "CHECKED_OUT" => participant'[p] = "CHECKED_OUT"]_participant
    BY <1>1
  <1> QED
    BY <1>2, Records, PTL DEF Spec, DepartureIsFinal
-----------------------------------------------------------------------------
(* The refinement: VisitLifecycle implements Occupancy, and admits only to a *)
(* day's plan.                                                               *)

Places == [p \in Participants |-> Place(p)]

-----------------------------------------------------------------------------
(* Seen from the door there are three kinds of step. *)

(* Nobody comes in: whoever is no longer CHECKED_IN has left for good. *)
LEMMA NobodyEnters ==
  ASSUME IInv, entries' = entries,
         \A p \in Participants :
           participant'[p] = "CHECKED_IN" => participant[p] = "CHECKED_IN"
  PROVE  [Occ!Next]_Places
  <1> DEFINE S == {p \in Participants :
                     participant[p] = "CHECKED_IN" /\ participant'[p] # "CHECKED_IN"}
  <1>1. S \subseteq Occ!Inside
    BY DEF Occ!Inside, Place
  <1>2. ASSUME NEW p \in Participants
        PROVE  Place(p)' = IF p \in S THEN "gone" ELSE Place(p)
    <2>1. p \in S => entries[p] # 0
      BY DEF IInv, TypeOK, RecordsAgree, RecordAgrees
    <2> QED
      BY <2>1 DEF Place
  <1>3. Places' = [p \in Participants |-> IF p \in S THEN "gone" ELSE Places[p]]
    BY <1>2 DEF Places
  <1> HIDE DEF S
  <1>4. Occ!Leave(S)
    BY <1>1, <1>3 DEF Occ!Leave, Occ!Move, Places
  <1>5. S \in SUBSET Participants
    BY DEF S
  <1> QED
    BY <1>4, <1>5 DEF Occ!Next

(* The participants of S come in, for the first time. *)
LEMMA TheyEnter ==
  ASSUME NEW S \in SUBSET Participants,
         \A p \in S : /\ participant[p] # "CHECKED_IN" /\ entries[p] = 0
                      /\ participant'[p] = "CHECKED_IN",
         \A p \in Participants \ S :
           participant'[p] = participant[p] /\ entries'[p] = entries[p]
  PROVE  [Occ!Next]_Places
  <1>1. S \subseteq Occ!Away
    BY DEF Occ!Away, Place
  <1>2. ASSUME NEW p \in Participants
        PROVE  Place(p)' = IF p \in S THEN "inside" ELSE Place(p)
    BY DEF Place
  <1>3. Places' = [p \in Participants |-> IF p \in S THEN "inside" ELSE Places[p]]
    BY <1>2 DEF Places
  <1>4. Occ!Enter(S)
    BY <1>1, <1>3 DEF Occ!Enter, Occ!Move, Places
  <1> QED
    BY <1>4 DEF Occ!Next

(* Somebody inside shows the pass again: the door opens, nobody is counted. *)
LEMMA TheyAreInsideAlready ==
  ASSUME \A p \in Participants : participant'[p] = participant[p],
         \A p \in Participants :
           participant[p] # "CHECKED_IN" => entries'[p] = entries[p]
  PROVE  [Occ!Next]_Places
  <1>1. \A p \in Participants : Place(p)' = Place(p)
    BY DEF Place
  <1> QED
    BY <1>1 DEF Places

-----------------------------------------------------------------------------

LEMMA WalkInEnters ==
  ASSUME IInv, NEW v \in Visits, NEW slot \in Slots, CreateWalkIn(v, slot)
  PROVE  [Occ!Next]_Places
  <1> USE LifecycleAssumption
      DEF LifecycleAssumption, IInv, TypeOK, CreateWalkIn, InsertVisits, Party
  <1>1. \A p \in Party(v) : /\ participant[p] # "CHECKED_IN" /\ entries[p] = 0
                            /\ participant'[p] = "CHECKED_IN"
    BY DEF RecordsAgree, RecordAgrees, Compatible
  <1>2. \A p \in Participants \ Party(v) :
          participant'[p] = participant[p] /\ entries'[p] = entries[p]
    OBVIOUS
  <1>3. Party(v) \in SUBSET Participants
    OBVIOUS
  <1> QED
    BY <1>1, <1>2, <1>3, TheyEnter

LEMMA AdmissionEnters ==
  ASSUME IInv, NEW p \in Participants, CheckIn(p) \/ ManualCheckIn(p)
  PROVE  [Occ!Next]_Places
  <1> USE DEF IInv, TypeOK
  <1>1. participant[p] \in {"SCHEDULED", "CHECKED_IN"} /\ Admit(p)
    <2>1. RecordAgrees(p) /\ participant[p] \in VisitStatus
      BY DEF RecordsAgree
    <2> QED
      BY <2>1 DEF CheckIn, ManualCheckIn, PassAdmits, Terminal, LivePass, RecordAgrees, VisitStatus
  <1>2. /\ participant' = [participant EXCEPT ![p] = "CHECKED_IN"]
        /\ entries' = [entries EXCEPT ![p] = Counted(@)]
    BY <1>1 DEF Admit
  <1>3. CASE participant[p] = "SCHEDULED"
    <2>1. entries[p] = 0
      BY <1>3 DEF RecordsAgree, RecordAgrees
    <2>2. \A q \in {p} : /\ participant[q] # "CHECKED_IN" /\ entries[q] = 0
                         /\ participant'[q] = "CHECKED_IN"
      BY <1>2, <1>3, <2>1
    <2>3. \A q \in Participants \ {p} :
            participant'[q] = participant[q] /\ entries'[q] = entries[q]
      BY <1>2
    <2>4. {p} \in SUBSET Participants
      OBVIOUS
    <2> QED
      BY <2>2, <2>3, <2>4, TheyEnter
  <1>4. CASE participant[p] = "CHECKED_IN"
    <2>1. \A q \in Participants : participant'[q] = participant[q]
      BY <1>2, <1>4
    <2>2. \A q \in Participants :
            participant[q] # "CHECKED_IN" => entries'[q] = entries[q]
      BY <1>2, <1>4
    <2> QED
      BY <2>1, <2>2, TheyAreInsideAlready
  <1> QED
    BY <1>1, <1>3, <1>4

LEMMA NextImplements == IInv /\ [Next]_vars => [Occ!Next]_Places
  <1> SUFFICES ASSUME IInv, [Next]_vars PROVE [Occ!Next]_Places
    OBVIOUS
  <1> USE LifecycleAssumption DEF LifecycleAssumption, IInv, TypeOK
  <1> DEFINE Stay == /\ entries' = entries
                     /\ \A p \in Participants :
                          participant'[p] = "CHECKED_IN" => participant[p] = "CHECKED_IN"
  <1>1. ASSUME NEW s, NEW slot \in Slots, NEW approval \in BOOLEAN,
               CreateVisit(s, slot, approval)
        PROVE  Stay
    BY <1>1 DEF CreateVisit, InsertVisits
  <1>2. ASSUME NEW V, CancelVisits(V) PROVE Stay
    BY <1>2 DEF CancelVisits
  <1>3. ASSUME NEW v \in Visits, CancelVisit(v) \/ CancelSeries(v) PROVE Stay
    BY <1>2, <1>3 DEF CancelVisit, CancelSeries
  <1>4. ASSUME NEW v \in Visits,
               ApproveVisit(v) \/ RejectVisit(v) \/ \E slot \in Slots : UpdateVisit(v, slot)
        PROVE  Stay
    BY <1>4 DEF ApproveVisit, RejectVisit, UpdateVisit
  <1>5. ASSUME NEW p \in Participants, CheckOut(p) \/ ReissueQR(p) PROVE Stay
    BY <1>5 DEF CheckOut, ReissueQR
  <1>6. ASSUME NEW p \in Participants, CancelParticipant(p) PROVE Stay
    BY <1>2, <1>6 DEF CancelParticipant
  <1>7. ASSUME NEW n \in Nodes, MarkNoShows(n) \/ CloseMissedVisits(n) \/ AutoCheckout(n)
        PROVE  Stay
    BY <1>7 DEF MarkNoShows, CloseMissedVisits, AutoCheckout
  <1>8. ASSUME NEW n \in Nodes, StatementFails(n) \/ NodeStops(n) PROVE Stay
    BY <1>8 DEF StatementFails, NodeStops
  <1>9. ASSUME Tick \/ UNCHANGED vars PROVE Stay
    BY <1>9 DEF Tick, vars
  <1>10. Stay => [Occ!Next]_Places
    BY NobodyEnters
  <1> HIDE DEF Stay
  <1>11. ASSUME NEW v \in Visits, HostOrApprover(v) PROVE [Occ!Next]_Places
    <2>1. ASSUME NEW slot \in Slots, CreateWalkIn(v, slot) PROVE [Occ!Next]_Places
      BY <2>1, WalkInEnters
    <2> QED
      BY <2>1, <1>3, <1>4, <1>10, <1>11 DEF HostOrApprover
  <1>12. ASSUME NEW p \in Participants, Guest(p) PROVE [Occ!Next]_Places
    <2>1. CASE CheckIn(p) \/ ManualCheckIn(p)
      BY <2>1, AdmissionEnters
    <2> QED
      BY <2>1, <1>5, <1>6, <1>10, <1>12 DEF Guest
  <1> QED
    BY <1>1, <1>7, <1>8, <1>9, <1>10, <1>11, <1>12 DEF Next, Maintenance

(* Everybody comes in once and goes out once, whatever the handlers do. *)
THEOREM Implementation == Spec => ImplementsOccupancy
  <1>1. Init => Occ!Init
    BY DEF Init, Occ!Init, Place
  <1>2. [Occ!Next]_Places <=> [Occ!Next]_([p \in Participants |-> Place(p)])
    BY DEF Places
  <1> QED
    BY <1>1, <1>2, Records, NextImplements, PTL DEF Spec, ImplementsOccupancy, Occ!Spec

-----------------------------------------------------------------------------
(* A visitor is admitted while the current schedule of an approved visit is *)
(* open, or with the registration of a walk-in.                             *)
THEOREM Admission == Spec => AdmissionIsPlanned
  <1> DEFINE Plan(p) ==
        \/ visit[VisitOf[p]] = "absent" /\ visit'[VisitOf[p]] = "CHECKED_IN"
        \/ /\ visit[VisitOf[p]] \in {"SCHEDULED", "CHECKED_IN"}
           /\ Open(Window(sched[VisitOf[p]]))
  <1>1. ASSUME IInv, [Next]_vars, NEW p \in Participants, entries'[p] # entries[p]
        PROVE  Plan(p)
    <2> USE LifecycleAssumption DEF LifecycleAssumption, IInv, TypeOK
    <2>1. ASSUME NEW v \in Visits, NEW slot \in Slots, CreateWalkIn(v, slot)
          PROVE  Plan(p)
      BY <1>1, <2>1 DEF CreateWalkIn, InsertVisits, Party
    <2>2. ASSUME NEW v \in Visits, HostOrApprover(v)
          PROVE  Plan(p)
      BY <1>1, <2>1, <2>2
      DEF HostOrApprover, ApproveVisit, RejectVisit, CancelVisit, CancelSeries,
          CancelVisits, UpdateVisit
    <2>3. ASSUME NEW q \in Participants, Admit(q) PROVE q = p
      BY <1>1, <2>3 DEF Admit
    <2>4. CASE CheckIn(p)
      <3>1. RecordAgrees(p) /\ visit[VisitOf[p]] \in VisitStatus
            /\ participant[p] \in VisitStatus
        BY <1>1 DEF RecordsAgree
      <3>2. visit[VisitOf[p]] \in {"SCHEDULED", "CHECKED_IN"}
        BY <2>4, <3>1
        DEF CheckIn, PassAdmits, Terminal, LivePass, RecordAgrees, Compatible, VisitStatus
      <3>3. Open(Window(sched[VisitOf[p]]))
        BY <1>1, <2>4 DEF CheckIn, PassAdmits, WindowFollowsSchedule
      <3> QED
        BY <3>2, <3>3
    <2>5. CASE ManualCheckIn(p)
      <3>1. RecordAgrees(p) /\ visit[VisitOf[p]] \in VisitStatus
        BY <1>1 DEF RecordsAgree
      <3> QED
        BY <2>5, <3>1 DEF ManualCheckIn, RecordAgrees, Compatible, VisitStatus
    <2>6. ASSUME NEW q \in Participants, Guest(q) PROVE Plan(p)
      <3>1. CASE CheckIn(q) \/ ManualCheckIn(q)
        BY <2>3, <2>4, <2>5, <3>1 DEF CheckIn, ManualCheckIn
      <3>2. CASE CheckOut(q) \/ ReissueQR(q) \/ CancelParticipant(q)
        BY <1>1, <3>2 DEF CheckOut, ReissueQR, CancelParticipant, CancelVisits
      <3> QED
        BY <2>6, <3>1, <3>2 DEF Guest
    <2>7. ASSUME NEW s, NEW slot \in Slots, NEW approval \in BOOLEAN,
                 CreateVisit(s, slot, approval)
          PROVE  Plan(p)
      BY <1>1, <2>7 DEF CreateVisit
    <2>8. ASSUME NEW n \in Nodes, Maintenance(n) \/ StatementFails(n) \/ NodeStops(n)
          PROVE  Plan(p)
      BY <1>1, <2>8
      DEF Maintenance, MarkNoShows, CloseMissedVisits, AutoCheckout, StatementFails, NodeStops
    <2>9. CASE Tick \/ UNCHANGED vars
      BY <1>1, <2>9 DEF Tick, vars
    <2> QED
      BY <1>1, <2>2, <2>6, <2>7, <2>8, <2>9 DEF Next
  <1>2. IInv /\ [Next]_vars =>
          [\A p \in Participants : entries'[p] # entries[p] =>
             LET v == VisitOf[p]
             IN  \/ visit[v] = "absent" /\ visit'[v] = "CHECKED_IN"
                 \/ visit[v] \in {"SCHEDULED", "CHECKED_IN"} /\ Open(Window(sched[v]))]_vars
    BY <1>1
  <1> QED
    BY <1>2, Records, PTL DEF Spec, AdmissionIsPlanned
=============================================================================
