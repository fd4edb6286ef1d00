-------------------------- MODULE LobbyEventsProofs --------------------------
(* Proofs about LobbyEvents, for any number of handlers and streams and any *)
(* capacity of a channel.                                                   *)
EXTENDS LobbyEvents, TLAPS

-----------------------------------------------------------------------------
(* Typing. *)

LEMMA InitInv == Init => IInv
  BY LobbyAssumption
  DEF LobbyAssumption, Init, IInv, TypeOK, LoopsAreLocked, ChannelsStartEmpty, ChannelsOpen,
      NoChangeIsLost, Open

LEMMA NextTypeOK == TypeOK /\ [Next]_vars => TypeOK'
  <1> SUFFICES ASSUME TypeOK, [Next]_vars PROVE TypeOK'
    OBVIOUS
  <1> USE LobbyAssumption DEF LobbyAssumption, TypeOK
  <1>1. ASSUME NEW h \in Handlers, Change(h) PROVE TypeOK'
    BY <1>1 DEF Change
  <1>2. ASSUME NEW h \in Handlers, StartPublish(h) \/ EndPublish(h) PROVE TypeOK'
    BY <1>2 DEF StartPublish, EndPublish, Open
  <1>3. ASSUME NEW h \in Handlers, NEW s \in Streams, Send(h, s) PROVE TypeOK'
    <2>1. pending'[s] \in 0 .. Capacity
      BY <1>3 DEF Send
    <2> QED
      BY <1>3, <2>1 DEF Send
  <1>4. ASSUME NEW s \in Streams, Connect(s) \/ Join(s) \/ Disconnect(s) \/ Remove(s)
        PROVE  TypeOK'
    BY <1>4 DEF Connect, Join, Disconnect, Remove, Moves
  <1>5. ASSUME NEW s \in Streams, Deliver(s) \/ Close(s) PROVE TypeOK'
    <2>1. CASE Deliver(s)
      <3>1. pending[s] \in 0 .. Capacity /\ pending[s] - 1 \in 0 .. Capacity
        BY <2>1 DEF Deliver
      <3> QED
        BY <2>1, <3>1 DEF Deliver
    <2>2. CASE Close(s)
      <3>1. 0 \in 0 .. Capacity
        OBVIOUS
      <3> QED
        BY <2>2, <3>1 DEF Close, Moves
    <2> QED
      BY <1>5, <2>1, <2>2
  <1>6. CASE UNCHANGED vars
    BY <1>6 DEF vars
  <1> QED
    BY <1>1, <1>2, <1>3, <1>4, <1>5, <1>6 DEF Next, HandlerStep, StreamStep

-----------------------------------------------------------------------------
(* Who goes through the map, and what lies in the channels. *)

LEMMA LoopsStep == IInv /\ [Next]_vars => LoopsAreLocked'
  <1> SUFFICES ASSUME IInv, [Next]_vars, NEW g \in Handlers, todo'[g] # {}
               PROVE  job'[g] = "publishing"
    BY DEF LoopsAreLocked
  <1> USE DEF IInv, TypeOK, LoopsAreLocked
  <1>1. ASSUME NEW h \in Handlers, Change(h) \/ StartPublish(h) \/ EndPublish(h)
        PROVE  job'[g] = "publishing"
    BY <1>1 DEF Change, StartPublish, EndPublish
  <1>2. ASSUME NEW h \in Handlers, NEW s \in Streams, Send(h, s)
        PROVE  job'[g] = "publishing"
    BY <1>2 DEF Send
  <1>3. ASSUME NEW s \in Streams, Connect(s) \/ Disconnect(s) \/ StreamStep(s)
        PROVE  job'[g] = "publishing"
    BY <1>3 DEF Connect, Disconnect, StreamStep, Join, Deliver, Remove, Close, Moves
  <1>4. CASE UNCHANGED vars
    BY <1>4 DEF vars
  <1> QED
    BY <1>1, <1>2, <1>3, <1>4 DEF Next, HandlerStep

(* Only streams in the map are sent to, and only they are told of changes. *)
LEMMA EmptyStep == IInv /\ [Next]_vars => ChannelsStartEmpty'
  <1> SUFFICES ASSUME IInv, [Next]_vars, NEW x \in Streams, phase'[x] \in {"away", "joining"}
               PROVE  pending'[x] = 0 /\ ~unseen'[x]
    BY DEF ChannelsStartEmpty
  <1> USE DEF IInv, TypeOK, ChannelsStartEmpty
  <1>1. ASSUME NEW h \in Handlers, Change(h) \/ StartPublish(h) \/ EndPublish(h)
        PROVE  pending'[x] = 0 /\ ~unseen'[x]
    BY <1>1 DEF Change, StartPublish, EndPublish, Open
  <1>2. ASSUME NEW h \in Handlers, NEW s \in Streams, Send(h, s)
        PROVE  pending'[x] = 0 /\ ~unseen'[x]
    BY <1>2 DEF Send, ChannelsOpen
  <1>3. ASSUME NEW s \in Streams, Connect(s) \/ Join(s) \/ Disconnect(s) \/ Remove(s)
        PROVE  pending'[x] = 0 /\ ~unseen'[x]
    BY <1>3 DEF Connect, Join, Disconnect, Remove, Moves
  <1>4. ASSUME NEW s \in Streams, Deliver(s) \/ Close(s)
        PROVE  pending'[x] = 0 /\ ~unseen'[x]
    BY <1>4 DEF Deliver, Close, Moves
  <1>5. CASE UNCHANGED vars
    BY <1>5 DEF vars
  <1> QED
    BY <1>1, <1>2, <1>3, <1>4, <1>5 DEF Next, HandlerStep, StreamStep

(* A stream leaves the map between two publications, never within one. *)
LEMMA ChannelsStep == IInv /\ [Next]_vars => ChannelsOpen'
  <1> SUFFICES ASSUME IInv, [Next]_vars, NEW g \in Handlers, NEW x \in todo'[g]
               PROVE  phase'[x] \in {"open", "leaving"}
    BY DEF ChannelsOpen
  <1> USE DEF IInv, TypeOK, ChannelsOpen
  <1>1. ASSUME NEW h \in Handlers, Change(h) \/ StartPublish(h) \/ EndPublish(h)
        PROVE  phase'[x] \in {"open", "leaving"}
    BY <1>1 DEF Change, StartPublish, EndPublish, Open
  <1>2. ASSUME NEW h \in Handlers, NEW s \in Streams, Send(h, s)
        PROVE  phase'[x] \in {"open", "leaving"}
    BY <1>2 DEF Send
  <1>3. ASSUME NEW s \in Streams, Connect(s) \/ Disconnect(s) \/ Deliver(s) \/ Close(s)
        PROVE  phase'[x] \in {"open", "leaving"}
    BY <1>3 DEF Connect, Disconnect, Deliver, Close, Moves
  <1>4. ASSUME NEW s \in Streams, Join(s) \/ Remove(s)
        PROVE  phase'[x] \in {"open", "leaving"}
    <2>1. todo[g] = {}
      BY <1>4 DEF Join, Remove, Publishing, LoopsAreLocked
    <2> QED
      BY <1>4, <2>1 DEF Join, Remove, Moves
  <1>5. CASE UNCHANGED vars
    BY <1>5 DEF vars
  <1> QED
    BY <1>1, <1>2, <1>3, <1>4, <1>5 DEF Next, HandlerStep, StreamStep

-----------------------------------------------------------------------------
(* A change is on its way to x: in its channel, or with a handler. *)

OnItsWay(x) == pending[x] > 0 \/ \E h \in Handlers : job[h] = "changed" \/ x \in todo[h]

(* A handler passes the change on before it forgets it. *)
LEMMA HandlersPassOn ==
  ASSUME IInv, NEW h \in Handlers, Change(h) \/ HandlerStep(h),
         NEW x \in Streams, phase[x] = "open", unseen'[x], unseen[x] => OnItsWay(x)
  PROVE  OnItsWay(x)'
  <1> USE LobbyAssumption DEF LobbyAssumption, IInv, TypeOK
  <1>1. CASE Change(h)
    BY <1>1 DEF Change, OnItsWay
  <1>2. CASE StartPublish(h)
    BY <1>2 DEF StartPublish, OnItsWay, Open
  <1>3. ASSUME NEW s \in Streams, Send(h, s) PROVE OnItsWay(x)'
    <2>1. CASE s = x
      <3>1. pending'[x] = IF pending[x] < Capacity THEN pending[x] + 1 ELSE pending[x]
        BY <1>3, <2>1 DEF Send
      <3>2. pending'[x] > 0
        BY <3>1
      <3> QED
        BY <3>2 DEF OnItsWay
    <2>2. CASE s # x
      BY <1>3, <2>2 DEF Send, OnItsWay
    <2> QED
      BY <2>1, <2>2
  <1>4. CASE EndPublish(h)
    BY <1>4 DEF EndPublish, OnItsWay
  <1> QED
    BY <1>1, <1>2, <1>3, <1>4 DEF HandlerStep

LEMMA NoChangeStep == IInv /\ [Next]_vars => NoChangeIsLost'
  <1> SUFFICES ASSUME IInv, [Next]_vars,
                      NEW x \in Streams, phase'[x] = "open", unseen'[x]
               PROVE  OnItsWay(x)'
    BY DEF NoChangeIsLost, Open, OnItsWay
  <1> USE DEF IInv, TypeOK
  <1>1. phase[x] = "open" /\ unseen[x] => OnItsWay(x)
    BY DEF NoChangeIsLost, Open, OnItsWay
  <1>2. ASSUME NEW h \in Handlers, Change(h) \/ HandlerStep(h) PROVE OnItsWay(x)'
    <2>1. phase' = phase
      BY <1>2 DEF Change, HandlerStep, StartPublish, Send, EndPublish
    <2> QED
      BY <1>1, <1>2, <2>1, HandlersPassOn
  <1>3. ASSUME NEW s \in Streams, Connect(s) \/ Disconnect(s) \/ Remove(s)
        PROVE  OnItsWay(x)'
    BY <1>1, <1>3 DEF Connect, Disconnect, Remove, Moves, OnItsWay
  <1>4. ASSUME NEW s \in Streams, Join(s) PROVE OnItsWay(x)'
    BY <1>1, <1>4 DEF Join, Moves, OnItsWay, ChannelsStartEmpty
  <1>5. ASSUME NEW s \in Streams, Deliver(s) \/ Close(s) PROVE OnItsWay(x)'
    BY <1>1, <1>5 DEF Deliver, Close, Moves, OnItsWay
  <1>6. CASE UNCHANGED vars
    BY <1>1, <1>6 DEF vars, OnItsWay
  <1> QED
    BY <1>2, <1>3, <1>4, <1>5, <1>6 DEF Next, StreamStep

-----------------------------------------------------------------------------

(* Types, the lock around the map, and the two properties below hold in every *)
(* reachable state, whoever publishes, joins and leaves at the same time.    *)
THEOREM Invariance == Spec => []IInv
  <1>1. IInv /\ [Next]_vars => IInv'
    <2>1. IInv => TypeOK
      BY DEF IInv
    <2> QED
      BY <2>1, NextTypeOK, LoopsStep, EmptyStep, ChannelsStep, NoChangeStep DEF IInv
  <1> QED
    BY <1>1, InitInv, PTL DEF Spec

(* No handler sends on a channel its stream has closed, for any number of    *)
(* handlers and streams: a stream is out of the map before it closes.        *)
THEOREM OpenChannels == Spec => []ChannelsOpen
  <1>1. IInv => ChannelsOpen
    BY DEF IInv
  <1> QED
    BY <1>1, Invariance, PTL

(* What a full channel drops is never the last word: whatever a connected    *)
(* browser has not been told of is still on its way to it.                   *)
THEOREM NothingIsLost == Spec => []NoChangeIsLost
  <1>1. IInv => NoChangeIsLost
    BY DEF IInv
  <1> QED
    BY <1>1, Invariance, PTL
=============================================================================
