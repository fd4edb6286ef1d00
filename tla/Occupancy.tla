----------------------------- MODULE Occupancy ------------------------------
(***************************************************************************)
(* What the lobby promises about who is in the building, without visits,   *)
(* passes, approval or clocks: everybody comes in at most once, and who    *)
(* went out, in whatever way, does not come back under the same            *)
(* registration.  VisitLifecycle implements this module.                   *)
(***************************************************************************)
CONSTANT Participants

VARIABLE place

Away == {p \in Participants : place[p] = "away"}
Inside == {p \in Participants : place[p] = "inside"}

Init == place = [p \in Participants |-> "away"]

Move(S, to) == place' = [p \in Participants |-> IF p \in S THEN to ELSE place[p]]

(* One visitor at the door, or the whole party of a walk-in. *)
Enter(S) == S \subseteq Away /\ Move(S, "inside")

(* One visitor at the lobby, a party that is cancelled, or everybody a site *)
(* still holds in the evening.                                              *)
Leave(S) == S \subseteq Inside /\ Move(S, "gone")

Next == \E S \in SUBSET Participants : Enter(S) \/ Leave(S)

Spec == Init /\ [][Next]_place
=============================================================================
