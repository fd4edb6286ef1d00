----------------------------- MODULE LobbyEvents -----------------------------
(***************************************************************************)
(* Live lobby events (internal/app/events.go).  A handler that has changed *)
(* visits tells every stream, each of which has a channel of a few events  *)
(* and writes them to its browser; the lobby screen then reads everything  *)
(* again.  Handlers never wait for a stream: what does not fit its channel *)
(* is dropped.                                                             *)
(***************************************************************************)
EXTENDS Integers, FiniteSets

CONSTANTS
  Handlers,  \* requests that change visits
  Streams,   \* connections to lobbyStream
  Capacity   \* of a channel: 8

ASSUME LobbyAssumption == Capacity \in Nat \ {0}

VARIABLES
  job,      \* of a handler: idle, changed (it has committed), publishing
  todo,     \* the streams a publishing handler has not come to yet
  phase,    \* of a stream: away; joining and leaving (it waits for eventsMu);
            \* open: in s.events; removed: not any more, its channel to be closed
  pending,  \* events in its channel
  unseen    \* history: its browser has not been told of a change since

vars == <<job, todo, phase, pending, unseen>>

Init ==
  /\ job = [h \in Handlers |-> "idle"]
  /\ todo = [h \in Handlers |-> {}]
  /\ phase = [s \in Streams |-> "away"]
  /\ pending = [s \in Streams |-> 0]
  /\ unseen = [s \in Streams |-> FALSE]

Open == {s \in Streams : phase[s] = "open"}
Publishing == {h \in Handlers : job[h] = "publishing"}

-----------------------------------------------------------------------------
(* Handlers *)

(* Mutant: a change that nobody is told of. *)
ChangeSilently(h) ==
  /\ job[h] = "idle"
  /\ unseen' = [s \in Streams |-> unseen[s] \/ s \in Open]
  /\ UNCHANGED <<job, todo, phase, pending>>

(* The transaction is committed. *)
Change(h) ==
  /\ job[h] = "idle"
  /\ job' = [job EXCEPT ![h] = "changed"]
  /\ unseen' = [s \in Streams |-> unseen[s] \/ s \in Open]
  /\ UNCHANGED <<todo, phase, pending>>

(* RLock.  A stream changes the map in one step, so nobody is found doing it;  *)
(* whether a handler comes before or after the streams that wait is left open. *)
StartPublish(h) ==
  /\ job[h] = "changed"
  /\ job' = [job EXCEPT ![h] = "publishing"]
  /\ todo' = [todo EXCEPT ![h] = Open]
  /\ UNCHANGED <<phase, pending, unseen>>

(* Mutant: the first full channel ends the loop. *)
SendWhileThereIsRoom(h, s) ==
  /\ s \in todo[h]
  /\ todo' = [todo EXCEPT ![h] = IF pending[s] < Capacity THEN @ \ {s} ELSE {}]
  /\ pending' = [pending EXCEPT ![s] = IF @ < Capacity THEN @ + 1 ELSE @]
  /\ UNCHANGED <<job, phase, unseen>>

(* select with a default: dropped when the channel is full. *)
Send(h, s) ==
  /\ s \in todo[h]
  /\ todo' = [todo EXCEPT ![h] = @ \ {s}]
  /\ pending' = [pending EXCEPT ![s] = IF @ < Capacity THEN @ + 1 ELSE @]
  /\ UNCHANGED <<job, phase, unseen>>

EndPublish(h) ==
  /\ job[h] = "publishing" /\ todo[h] = {}
  /\ job' = [job EXCEPT ![h] = "idle"]
  /\ UNCHANGED <<todo, phase, pending, unseen>>

-----------------------------------------------------------------------------
(* lobbyStream *)

Moves(s, from, to) ==
  /\ phase[s] = from
  /\ phase' = [phase EXCEPT ![s] = to]
  /\ UNCHANGED <<job, todo>>

Connect(s) == Moves(s, "away", "joining") /\ UNCHANGED <<pending, unseen>>

Join(s) == Publishing = {} /\ Moves(s, "joining", "open") /\ UNCHANGED <<pending, unseen>>

Deliver(s) ==
  /\ phase[s] = "open" /\ pending[s] > 0
  /\ pending' = [pending EXCEPT ![s] = @ - 1]
  /\ unseen' = [unseen EXCEPT ![s] = FALSE]
  /\ UNCHANGED <<job, todo, phase>>

(* r.Context() is done. *)
Disconnect(s) == Moves(s, "open", "leaving") /\ UNCHANGED <<pending, unseen>>

(* Mutant: the map is changed without the lock. *)
RemoveAtOnce(s) == Moves(s, "leaving", "removed") /\ UNCHANGED <<pending, unseen>>

Remove(s) == Publishing = {} /\ Moves(s, "leaving", "removed") /\ UNCHANGED <<pending, unseen>>

(* close(ch); another connection has another channel. *)
Close(s) ==
  /\ Moves(s, "removed", "away")
  /\ pending' = [pending EXCEPT ![s] = 0]
  /\ unseen' = [unseen EXCEPT ![s] = FALSE]

-----------------------------------------------------------------------------

HandlerStep(h) == StartPublish(h) \/ (\E s \in Streams : Send(h, s)) \/ EndPublish(h)
StreamStep(s) == Join(s) \/ Deliver(s) \/ Remove(s) \/ Close(s)

Next ==
  \/ \E h \in Handlers : Change(h) \/ HandlerStep(h)
  \/ \E s \in Streams : Connect(s) \/ Disconnect(s) \/ StreamStep(s)

Spec == Init /\ [][Next]_vars

(* Goroutines run.  A handler that waits for the read lock gets it: readers    *)
(* do not block in the loop, and a writer that unlocks a sync.RWMutex lets in  *)
(* those who wait before the next writer.                                      *)
(* Nothing makes a handler change visits, or a browser connect or go away.     *)
Fairness ==
  /\ \A h \in Handlers : WF_vars(HandlerStep(h))
  /\ \A s \in Streams : WF_vars(StreamStep(s))

FairSpec == Spec /\ Fairness

-----------------------------------------------------------------------------

TypeOK ==
  /\ job \in [Handlers -> {"idle", "changed", "publishing"}]
  /\ todo \in [Handlers -> SUBSET Streams]
  /\ phase \in [Streams -> {"away", "joining", "open", "leaving", "removed"}]
  /\ pending \in [Streams -> 0 .. Capacity]
  /\ unseen \in [Streams -> BOOLEAN]

(* Who goes through the map holds the lock; a new channel has no history.     *)
LoopsAreLocked == \A h \in Handlers : todo[h] # {} => job[h] = "publishing"
ChannelsStartEmpty ==
  \A s \in Streams : phase[s] \in {"away", "joining"} => pending[s] = 0 /\ ~unseen[s]

(* A send on a closed channel ends the process.  A channel is closed after    *)
(* its stream has left the map, and a handler holds the lock while it goes    *)
(* through the map: it never comes to a stream that is out of it.            *)
ChannelsOpen ==
  \A h \in Handlers : \A s \in todo[h] : phase[s] \in {"open", "leaving"}

(* A change a connected browser has not been told of is on its way: an event   *)
(* is in the channel, or somebody is still to come to it.  What a full channel *)
(* drops is behind an event that makes the browser read everything again.     *)
NoChangeIsLost ==
  \A s \in Open :
    unseen[s] => pending[s] > 0 \/ \E h \in Handlers : job[h] = "changed" \/ s \in todo[h]

(* Inductive: what the theorems rest on. *)
IInv == TypeOK /\ LoopsAreLocked /\ ChannelsStartEmpty /\ ChannelsOpen /\ NoChangeIsLost

(* Events are dropped, but only behind others that are still to be written:   *)
(* a browser that stays connected is told after every change, and one that    *)
(* goes away does not stop the others from being told.                       *)
ChangesAreTold == \A s \in Streams : unseen[s] ~> (~unseen[s] \/ phase[s] # "open")
=============================================================================
