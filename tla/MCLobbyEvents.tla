---------------------------- MODULE MCLobbyEvents ----------------------------
(* Instances of LobbyEvents for TLC. *)
EXTENDS LobbyEvents, TLC

CONSTANTS h1, h2, s1, s2
=============================================================================
