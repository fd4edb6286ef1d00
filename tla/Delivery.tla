------------------------------ MODULE Delivery -------------------------------
(***************************************************************************)
(* What the queue promises of each message, without workers, claims,       *)
(* locks, attempts or rules: the gateway gets what is open, a message that *)
(* is called sent has been taken, and it is taken again only for a result  *)
(* that was lost.  NotificationQueue implements this module.               *)
(***************************************************************************)
EXTENDS Integers

CONSTANT Messages

VARIABLES
  state,  \* quiet, open, told (taken, as the caller knows), or sent
  taken,  \* how often the gateway took it
  lost    \* how many of these nobody will tell

vars == <<state, taken, lost>>

Init ==
  /\ state = [m \in Messages |-> "quiet"]
  /\ taken = [m \in Messages |-> 0]
  /\ lost = [m \in Messages |-> 0]

(* Messages are queued, withdrawn, given up or renewed, but none that the     *)
(* gateway has just taken, and none that is sent.                             *)
Decide(O, Q) ==
  /\ \A m \in O \cup Q : state[m] \in {"quiet", "open"}
  /\ state' = [m \in Messages |->
                IF m \in O THEN "open" ELSE IF m \in Q THEN "quiet" ELSE state[m]]
  /\ UNCHANGED <<taken, lost>>

Take(m) ==
  /\ state[m] = "open"
  /\ state' = [state EXCEPT ![m] = "told"]
  /\ taken' = [taken EXCEPT ![m] = @ + 1]
  /\ UNCHANGED lost

Settle(m) ==
  /\ state[m] = "told"
  /\ state' = [state EXCEPT ![m] = "sent"]
  /\ UNCHANGED <<taken, lost>>

(* The result does not reach the table: the message is to be sent still. *)
Forget(m) ==
  /\ state[m] = "told"
  /\ state' = [state EXCEPT ![m] = "open"]
  /\ lost' = [lost EXCEPT ![m] = @ + 1]
  /\ UNCHANGED taken

(* A call that has lost its row is answered all the same. *)
Stray(m) ==
  /\ taken' = [taken EXCEPT ![m] = @ + 1]
  /\ lost' = [lost EXCEPT ![m] = @ + 1]
  /\ UNCHANGED state

Next ==
  \/ \E O, Q \in SUBSET Messages : Decide(O, Q)
  \/ \E m \in Messages : Take(m) \/ Settle(m) \/ Forget(m) \/ Stray(m)

Spec == Init /\ [][Next]_vars

(* Every time the gateway took a message is told once or lost: what is sent   *)
(* has been taken, and nothing is taken twice unless something was lost.      *)
TakenIsTold ==
  \A m \in Messages :
    taken[m] = lost[m] + (IF state[m] \in {"told", "sent"} THEN 1 ELSE 0)
=============================================================================
