------------------------ MODULE MCNotificationQueue ------------------------
(* Instances of NotificationQueue for TLC. *)
EXTENDS NotificationQueue, TLC

CONSTANTS m1, start, w1, w2

(* One message of a rule that counts from the start of the visit. *)
StartRuleOf == m1 :> start
OneGroup == {{m1}}
=============================================================================
