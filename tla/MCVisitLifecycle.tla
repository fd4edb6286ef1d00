-------------------------- MODULE MCVisitLifecycle --------------------------
(* Instances of VisitLifecycle for TLC. *)
EXTENDS VisitLifecycle, TLC

CONSTANTS v1, v2, p1, p2, p3

(* One group visit of two visitors. *)
GroupVisits == {v1}
GroupParticipants == {p1, p2}
GroupVisitOf == p1 :> v1 @@ p2 :> v1

(* The same next to an independent visit of one. *)
TwoVisits == {v1, v2}
TwoVisitParticipants == {p1, p2, p3}
TwoVisitVisitOf == p1 :> v1 @@ p2 :> v1 @@ p3 :> v2

(* They are the occurrences of a weekly series, or each stands alone. *)
AllOneSeries == [v \in Visits |-> "weekly"]
EachItsOwn == [v \in Visits |-> v]
NoShift == [v \in Visits |-> 0]
WeeklyShift == v1 :> 0 @@ v2 :> 2

SameZone == [v \in Visits |-> 0]
TwoZones == v1 :> 0 @@ v2 :> 2

(* Two plans to choose and to move between, and a request that is refused. *)
TwoSlots == {[start |-> 1, end |-> 2], [start |-> 3, end |-> 4], [start |-> 2, end |-> 2]}
CloseSlots == {[start |-> 1, end |-> 2], [start |-> 2, end |-> 3]}

MemberSymmetry == Permutations({p1, p2})
=============================================================================
