--------------------------- MODULE StreamingProofs ---------------------------
(***************************************************************************)
(* Live delivery, for any number of mediators, DIDs, sockets, senders,     *)
(* crashes and publications, and however many sockets of one DID overlap:  *)
(* what a socket is handed is for its DID, and GLOBAL_STREAMING names a    *)
(* mediator only for a DID that is registered there, or that the mediator  *)
(* wrote about without a registration.                                     *)
(***************************************************************************)
EXTENDS Streaming, SequenceTheorems, TLAPS

Up(m) == task[m] \in {"up", "resubscribing"}

-----------------------------------------------------------------------------
(* What holds in every case *)

\* The updates in q came to mediator m from its own sockets, and the clients
\* in its map did.
OwnQueue(m, q) ==
  \A i \in DOMAIN q : q[i].kind = "register" =>
    q[i].socket \in Sockets /\ Did[q[i].socket] = q[i].did /\ Home[q[i].socket] = m

OwnMap(m, map) ==
  \A d \in Dids : map[d].socket # None =>
    Did[map[d].socket] = d /\ Home[map[d].socket] = m

\* Whatever is under way to a socket is for its DID.
Addressed ==
  /\ \A m \in Mediators : OwnQueue(m, chan[m]) /\ OwnMap(m, clients[m])
  /\ \A m \in Mediators : sending[m].socket # None =>
       sending[m].did = Did[sending[m].socket] /\ Home[sending[m].socket] = m
  /\ DeliveredToOwner
  /\ \A p \in Sockets \cup Senders : publisher[p].uuid # None => publisher[p].did \in Dids

\* A mediator without a task has neither clients nor updates.
EmptyWhenDown ==
  \A m \in Mediators : ~Up(m) =>
    chan[m] = <<>> /\ clients[m] = [d \in Dids |-> NoClient]

StreamInv == StreamTypeOK /\ Addressed /\ EmptyWhenDown

-----------------------------------------------------------------------------
(* The order of the updates, and the keys *)

Registers(u, d) == u.kind = "register" /\ u.did = d
Ends(u, d) == u.kind = "deregister" /\ u.did = d

\* A socket registers once, after it has connected.
RegistersOnce(q, map, s) ==
  /\ \A i \in DOMAIN q : q[i].kind = "register" =>
       /\ s[q[i].socket] # "new"
       /\ map[q[i].did].socket # q[i].socket
       /\ \A j \in DOMAIN q : q[j].kind = "register" /\ q[j].socket = q[i].socket => j = i
  /\ \A d \in Dids : map[d].socket # None => s[map[d].socket] # "new"

\* The registration of a socket that has closed comes to its end.
ClosedMeansDeregistered(q, map, s) ==
  /\ \A i \in DOMAIN q : q[i].kind = "register" /\ s[q[i].socket] = "closed" =>
       \E j \in DOMAIN q : j > i /\ Ends(q[j], q[i].did)
  /\ \A d \in Dids : map[d].socket # None /\ s[map[d].socket] = "closed" =>
       \E j \in DOMAIN q : Ends(q[j], d)

\* The queue q and the map of a mediator, and the handlers s of all sockets.
QueueOK(q, map, s) == RegistersOnce(q, map, s) /\ ClosedMeansDeregistered(q, map, s)

OrderInv == \A m \in Mediators : QueueOK(chan[m], clients[m], sock)

\* What the two keys of Redis say, but where an entry is stray.
KeysInv ==
  /\ \A d \in Dids : live[d].uuid = None => live[d] = NoEntry
  /\ \A m \in Mediators, d \in Dids : clients[m][d].socket = None => clients[m][d] = NoClient
  /\ \A m \in Mediators, d \in Dids : <<m, d>> \in stray \/
       /\ live[d].uuid = m => d \in sessions[m]
       /\ clients[m][d].socket # None => d \in sessions[m]
       /\ Up(m) /\ d \in sessions[m] => clients[m][d].socket # None

-----------------------------------------------------------------------------
(* Sequences that grow at the end and shrink at the front *)

LEMMA AppendedElements ==
  ASSUME NEW S, NEW q \in Seq(S), NEW u \in S
  PROVE  /\ Append(q, u) \in Seq(S) /\ Len(Append(q, u)) = Len(q) + 1
         /\ DOMAIN Append(q, u) = 1..(Len(q) + 1) /\ DOMAIN q = 1..Len(q) /\ Len(q) \in Nat
         /\ \A i \in 1..Len(q) : Append(q, u)[i] = q[i]
         /\ Append(q, u)[Len(q) + 1] = u
         /\ \A i \in 1..(Len(q) + 1) : i \in 1..Len(q) \/ i = Len(q) + 1
         /\ 1..Len(q) \subseteq 1..(Len(q) + 1)
OBVIOUS

LEMMA TailElements ==
  ASSUME NEW S, NEW q \in Seq(S), q # <<>>
  PROVE  /\ Tail(q) \in Seq(S) /\ Len(Tail(q)) = Len(q) - 1 /\ Len(q) \in Nat \ {0}
         /\ DOMAIN Tail(q) = 1..(Len(q) - 1) /\ DOMAIN q = 1..Len(q)
         /\ \A i \in 1..(Len(q) - 1) : Tail(q)[i] = q[i + 1] /\ i + 1 \in 1..Len(q)
         /\ Head(q) = q[1] /\ Head(q) \in S /\ 1 \in 1..Len(q)
         /\ \A i \in 1..Len(q) : i = 1 \/ i - 1 \in 1..(Len(q) - 1)
OBVIOUS

-----------------------------------------------------------------------------
(* StreamInv *)

LEMMA StreamInvInit == StreamInit => StreamInv
<1> SUFFICES ASSUME StreamInit PROVE StreamInv
  OBVIOUS
<1> USE NoneAssumption
<1>1. StreamTypeOK
  <2>1. NoClient \in Clients /\ NoEntry \in Entries
    BY DEF NoClient, NoEntry, Clients, Entries
  <2> QED BY <2>1, ChannelAssumption DEF StreamInit, StreamTypeOK, NoSend, NoPublication
<1>2. Addressed
  BY DEF StreamInit, Addressed, OwnQueue, OwnMap, NoClient, NoSend, NoPublication, DeliveredToOwner
<1>3. EmptyWhenDown
  BY DEF StreamInit, EmptyWhenDown, Up
<1> QED BY <1>1, <1>2, <1>3 DEF StreamInv

\* An update is sent to the task of m.
LEMMA UpdateSent ==
  ASSUME StreamInv, NEW m \in Mediators, NEW u \in Updates, CanSend(m),
         u.kind = "register" =>
           u.socket \in Sockets /\ Did[u.socket] = u.did /\ Home[u.socket] = m,
         chan' = [chan EXCEPT ![m] = Append(@, u)]
  PROVE  /\ chan' \in [Mediators -> Seq(Updates)]
         /\ \A n \in Mediators : Len(chan'[n]) <= ChannelCap /\ OwnQueue(n, chan'[n])
         /\ \A n \in Mediators : ~Up(n) => chan'[n] = <<>>
<1>1. chan[m] \in Seq(Updates) /\ Len(chan[m]) < ChannelCap /\ Up(m)
  BY DEF StreamInv, StreamTypeOK, CanSend, Up
<1>2. chan'[m] = Append(chan[m], u) /\ \A n \in Mediators \ {m} : chan'[n] = chan[n]
  BY DEF StreamInv, StreamTypeOK
<1>3. Append(chan[m], u) \in Seq(Updates) /\ Len(Append(chan[m], u)) = Len(chan[m]) + 1
  BY <1>1, AppendedElements
<1>4. OwnQueue(m, Append(chan[m], u))
  <2>1. OwnQueue(m, chan[m])
    BY DEF StreamInv, Addressed
  <2> QED BY <1>1, <2>1, AppendedElements DEF OwnQueue
<1>5. chan' \in [Mediators -> Seq(Updates)]
  BY <1>3 DEF StreamInv, StreamTypeOK
<1>6. Len(chan[m]) + 1 <= ChannelCap
  BY <1>1, ChannelAssumption
<1>7. \A n \in Mediators : Len(chan'[n]) <= ChannelCap /\ OwnQueue(n, chan'[n])
  BY <1>2, <1>3, <1>4, <1>6 DEF StreamInv, StreamTypeOK, Addressed
<1> QED BY <1>1, <1>2, <1>5, <1>7 DEF StreamInv, EmptyWhenDown

LEMMA UpdatesAreTyped ==
  ASSUME NEW kind \in {"register", "start", "stop", "deregister"}, NEW d \in Dids,
         NEW c \in Sockets \cup {None}
  PROVE  Update(kind, d, c) \in Updates /\ Update(kind, d, c).kind = kind
         /\ Update(kind, d, c).did = d /\ Update(kind, d, c).socket = c
BY DEF Update, Updates

\* The handlers and senders: what goes into the channel of the task.
LEMMA SendersKeep ==
  ASSUME StreamInv, UNCHANGED <<taskVars, pubsub, redisVars, publisher>>,
         sock' \in [Sockets -> {"new", "open", "start", "stop", "reply", "closing",
                                "closed", "panicked"}],
         bounds' \in [{"published", "toggles", "rest", "crashes", "drops"} -> Nat],
         \/ UNCHANGED chan
         \/ /\ chan' \in [Mediators -> Seq(Updates)]
            /\ \A n \in Mediators : Len(chan'[n]) <= ChannelCap /\ OwnQueue(n, chan'[n])
            /\ \A n \in Mediators : ~Up(n) => chan'[n] = <<>>,
         rx' \in [Sockets -> Seq(Dids)],
         \A c \in Sockets : Len(rx'[c]) <= ClientCap,
         \A c \in Sockets : \A i \in DOMAIN rx'[c] : rx'[c][i] = Did[c]
  PROVE  StreamInv'
<1> USE DEF taskVars, redisVars
<1>1. StreamTypeOK'
  BY DEF StreamInv, StreamTypeOK
<1>2. Addressed'
  BY DEF StreamInv, Addressed, OwnMap, OwnQueue, DeliveredToOwner
<1>3. EmptyWhenDown'
  BY DEF StreamInv, EmptyWhenDown, Up
<1> QED BY <1>1, <1>2, <1>3 DEF StreamInv

\* A channel into a socket that is read, or emptied.
LEMMA RxShrinks ==
  ASSUME StreamInv, NEW c \in Sockets,
         rx' = [rx EXCEPT ![c] = <<>>] \/ (rx[c] # <<>> /\ rx' = [rx EXCEPT ![c] = Tail(@)])
         \/ rx' = rx
  PROVE  /\ rx' \in [Sockets -> Seq(Dids)]
         /\ \A e \in Sockets : Len(rx'[e]) <= ClientCap
         /\ \A e \in Sockets : \A i \in DOMAIN rx'[e] : rx'[e][i] = Did[e]
<1>1. /\ rx \in [Sockets -> Seq(Dids)]
      /\ \A e \in Sockets : Len(rx[e]) <= ClientCap
      /\ \A e \in Sockets : \A i \in DOMAIN rx[e] : rx[e][i] = Did[e]
  BY DEF StreamInv, StreamTypeOK, Addressed, DeliveredToOwner
<1>2. CASE rx' = [rx EXCEPT ![c] = <<>>]
  BY <1>1, <1>2, ChannelAssumption
<1>3. CASE rx[c] # <<>> /\ rx' = [rx EXCEPT ![c] = Tail(@)]
  <2>1. /\ Tail(rx[c]) \in Seq(Dids) /\ Len(Tail(rx[c])) <= ClientCap
        /\ \A i \in DOMAIN Tail(rx[c]) : Tail(rx[c])[i] = Did[c]
    <3>1. rx[c] \in Seq(Dids) /\ rx[c] # <<>>
      BY <1>1, <1>3
    <3>2. /\ Tail(rx[c]) \in Seq(Dids) /\ Len(Tail(rx[c])) = Len(rx[c]) - 1
          /\ Len(rx[c]) \in Nat \ {0}
          /\ \A i \in DOMAIN Tail(rx[c]) : i + 1 \in DOMAIN rx[c] /\ Tail(rx[c])[i] = rx[c][i + 1]
      BY <3>1, TailElements
    <3>3. Len(rx[c]) - 1 <= ClientCap
      BY <1>1, <3>2, ChannelAssumption
    <3> QED BY <1>1, <3>2, <3>3
  <2>2. rx'[c] = Tail(rx[c]) /\ \A e \in Sockets \ {c} : rx'[e] = rx[e]
    BY <1>1, <1>3
  <2>3. rx' \in [Sockets -> Seq(Dids)]
    BY <1>1, <1>3, <2>1
  <2> QED BY <1>1, <2>1, <2>2, <2>3
<1> QED BY <1>1, <1>2, <1>3

LEMMA SpendTyped ==
  ASSUME StreamInv, NEW kind \in {"published", "toggles", "rest", "crashes", "drops"}, NEW max,
         Spend(kind, max)
  PROVE  bounds' \in [{"published", "toggles", "rest", "crashes", "drops"} -> Nat]
BY DEF Spend, StreamInv, StreamTypeOK

\* The steps of a handler that do not publish.
LEMMA HandlerKeeps ==
  ASSUME StreamInv, NEW c \in Sockets,
         \/ Connect(c) \/ (\E kind \in {"start", "stop"} : ReceiveToggle(c, kind))
         \/ SendToggle(c) \/ Forward(c) \/ PeerCloses(c) \/ ChannelCloses(c)
         \/ Panic(c) \/ Deregister(c)
  PROVE  StreamInv'
<1> DEFINE kept == UNCHANGED <<taskVars, pubsub, redisVars, publisher>>
           socks == sock' \in [Sockets -> {"new", "open", "start", "stop", "reply", "closing",
                                           "closed", "panicked"}]
           spent == bounds' \in [{"published", "toggles", "rest", "crashes", "drops"} -> Nat]
           sent == \/ UNCHANGED chan
                   \/ /\ chan' \in [Mediators -> Seq(Updates)]
                      /\ \A n \in Mediators : Len(chan'[n]) <= ChannelCap /\ OwnQueue(n, chan'[n])
                      /\ \A n \in Mediators : ~Up(n) => chan'[n] = <<>>
           read == rx' = [rx EXCEPT ![c] = <<>>] \/ (rx[c] # <<>> /\ rx' = [rx EXCEPT ![c] = Tail(@)])
                   \/ rx' = rx
<1>0. /\ Did[c] \in Dids /\ Home[c] \in Mediators
      /\ sock \in [Sockets -> {"new", "open", "start", "stop", "reply", "closing",
                                "closed", "panicked"}]
      /\ bounds \in [{"published", "toggles", "rest", "crashes", "drops"} -> Nat]
  BY SocketsAssumption DEF StreamInv, StreamTypeOK
<1>1. CASE Connect(c)
  <2>1. kept /\ socks /\ spent /\ read
    BY <1>0, <1>1 DEF Connect
  <2>2. sent
    <3>1. /\ Update("register", Did[c], c) \in Updates
          /\ Update("register", Did[c], c).socket = c /\ Update("register", Did[c], c).did = Did[c]
      BY <1>0, UpdatesAreTyped
    <3> QED BY <1>0, <1>1, <3>1, UpdateSent DEF Connect
  <2> QED BY <2>1, <2>2, RxShrinks, SendersKeep
<1>2. ASSUME NEW kind \in {"start", "stop"}, ReceiveToggle(c, kind) PROVE StreamInv'
  <2>1. kept /\ socks /\ sent /\ read
    BY <1>0, <1>2 DEF ReceiveToggle
  <2>2. spent
    BY <1>2, SpendTyped DEF ReceiveToggle
  <2> QED BY <2>1, <2>2, RxShrinks, SendersKeep
<1>3. CASE SendToggle(c)
  <2>1. kept /\ socks /\ spent /\ read
    BY <1>0, <1>3 DEF SendToggle
  <2>2. sent
    <3>1. sock[c] \in {"start", "stop"}
      BY <1>3 DEF SendToggle
    <3>2. Update(sock[c], Did[c], None) \in Updates /\ Update(sock[c], Did[c], None).kind = sock[c]
      BY <1>0, <3>1, UpdatesAreTyped
    <3> QED BY <1>0, <1>3, <3>1, <3>2, UpdateSent DEF SendToggle
  <2> QED BY <2>1, <2>2, RxShrinks, SendersKeep
<1>4. CASE Forward(c) \/ PeerCloses(c) \/ ChannelCloses(c) \/ Panic(c)
  <2>1. kept /\ socks /\ spent /\ read /\ sent
    BY <1>0, <1>4 DEF Forward, PeerCloses, ChannelCloses, Panic
  <2> QED BY <2>1, RxShrinks, SendersKeep
<1>5. CASE Deregister(c)
  <2>1. kept /\ socks /\ spent /\ read
    BY <1>0, <1>5 DEF Deregister
  <2>2. sent
    <3>1. /\ Update("deregister", Did[c], None) \in Updates
          /\ Update("deregister", Did[c], None).kind = "deregister"
      BY <1>0, UpdatesAreTyped
    <3> QED BY <1>0, <1>5, <3>1, UpdateSent DEF Deregister
  <2> QED BY <2>1, <2>2, RxShrinks, SendersKeep
<1> QED BY <1>1, <1>2, <1>3, <1>4, <1>5

LEMMA RestToggleKeeps ==
  ASSUME StreamInv, NEW m \in Mediators, NEW d \in Dids, NEW kind \in {"start", "stop"},
         RestToggle(m, d, kind)
  PROVE  StreamInv'
<1>1. Update(kind, d, None) \in Updates /\ Update(kind, d, None).kind = kind
  BY UpdatesAreTyped
<1>2. /\ chan' \in [Mediators -> Seq(Updates)]
      /\ \A n \in Mediators : Len(chan'[n]) <= ChannelCap /\ OwnQueue(n, chan'[n])
      /\ \A n \in Mediators : ~Up(n) => chan'[n] = <<>>
  BY <1>1, UpdateSent DEF RestToggle
<1>3. bounds' \in [{"published", "toggles", "rest", "crashes", "drops"} -> Nat]
  BY SpendTyped DEF RestToggle
<1>4. /\ UNCHANGED <<taskVars, pubsub, redisVars, publisher, rx>>
      /\ sock' \in [Sockets -> {"new", "open", "start", "stop", "reply", "closing",
                                "closed", "panicked"}]
  BY DEF RestToggle, StreamInv, StreamTypeOK
<1>5. /\ rx' \in [Sockets -> Seq(Dids)]
      /\ \A e \in Sockets : Len(rx'[e]) <= ClientCap
      /\ \A e \in Sockets : \A i \in DOMAIN rx'[e] : rx'[e][i] = Did[e]
  BY <1>4 DEF StreamInv, StreamTypeOK, Addressed, DeliveredToOwner
<1> QED BY <1>2, <1>3, <1>4, <1>5, SendersKeep

\* The publications under way, and what only a publication changes.
Publishers == publisher \in [Sockets \cup Senders ->
                 [uuid : Mediators \cup {None}, did : Dids \cup {None}, forced : BOOLEAN]]
              /\ \A p \in Sockets \cup Senders : publisher[p].uuid # None => publisher[p].did \in Dids

LEMMA LookUpKeeps ==
  ASSUME StreamInv, NEW p \in Sockets \cup Senders, NEW d \in Dids, NEW forced \in BOOLEAN,
         NEW ok \in BOOLEAN, LookUp(p, d, forced, ok)
  PROVE  Publishers'
<1>1. Publishers /\ live \in [Dids -> Entries]
  BY DEF StreamInv, StreamTypeOK, Addressed, Publishers
<1>2. live[d].uuid \in Mediators \cup {None}
  BY <1>1 DEF Entries
<1>3. NoPublication \in [uuid : Mediators \cup {None}, did : Dids \cup {None}, forced : BOOLEAN]
      /\ NoPublication.uuid = None
  BY DEF NoPublication
<1>4. PICK new \in [uuid : Mediators \cup {None}, did : Dids \cup {None}, forced : BOOLEAN] :
        (new.uuid # None => new.did \in Dids) /\ publisher' = [publisher EXCEPT ![p] = new]
  BY <1>2, <1>3 DEF LookUp, IsClientLive
<1> QED BY <1>1, <1>4 DEF Publishers

\* Steps that leave the task, its channels and the keys alone.
LEMMA PublishersKeep ==
  ASSUME StreamInv, UNCHANGED <<taskVars, chan, redisVars, rx>>, Publishers',
         sock' \in [Sockets -> {"new", "open", "start", "stop", "reply", "closing",
                                "closed", "panicked"}],
         bounds' \in [{"published", "toggles", "rest", "crashes", "drops"} -> Nat],
         pubsub' \in [Mediators -> Seq(Published)]
  PROVE  StreamInv'
<1> USE DEF taskVars, redisVars
<1>1. StreamTypeOK'
  BY DEF StreamInv, StreamTypeOK, Publishers
<1>2. Addressed'
  BY DEF StreamInv, Addressed, OwnMap, OwnQueue, DeliveredToOwner, Publishers
<1>3. EmptyWhenDown'
  BY DEF StreamInv, EmptyWhenDown, Up
<1> QED BY <1>1, <1>2, <1>3 DEF StreamInv

LEMMA PublicationKeeps ==
  ASSUME StreamInv,
         NEW ok \in BOOLEAN,
         \/ \E p \in Senders, d \in Dids, forced \in BOOLEAN : SendMessage(p, d, forced, ok)
         \/ \E c \in Sockets : Reply(c, ok)
         \/ \E p \in Sockets \cup Senders : Publish(p, ok)
  PROVE  StreamInv'
<1>0. /\ sock \in [Sockets -> {"new", "open", "start", "stop", "reply", "closing",
                                "closed", "panicked"}]
      /\ bounds \in [{"published", "toggles", "rest", "crashes", "drops"} -> Nat]
      /\ pubsub \in [Mediators -> Seq(Published)]
      /\ Publishers
  BY DEF StreamInv, StreamTypeOK, Addressed, Publishers
<1>1. ASSUME NEW p \in Senders, NEW d \in Dids, NEW forced \in BOOLEAN, SendMessage(p, d, forced, ok)
      PROVE StreamInv'
  <2>1. bounds' \in [{"published", "toggles", "rest", "crashes", "drops"} -> Nat]
    BY <1>1, SpendTyped DEF SendMessage
  <2>2. Publishers'
    BY <1>1, LookUpKeeps DEF SendMessage
  <2> QED BY <1>0, <1>1, <2>1, <2>2, PublishersKeep DEF SendMessage
<1>2. ASSUME NEW c \in Sockets, Reply(c, ok) PROVE StreamInv'
  <2>1. Did[c] \in Dids
    BY SocketsAssumption
  <2>2. Publishers'
    BY <1>2, <2>1, LookUpKeeps DEF Reply
  <2>3. sock' \in [Sockets -> {"new", "open", "start", "stop", "reply", "closing",
                                "closed", "panicked"}]
    BY <1>0, <1>2 DEF Reply
  <2> QED BY <1>0, <1>2, <2>2, <2>3, PublishersKeep DEF Reply
<1>3. ASSUME NEW p \in Sockets \cup Senders, Publish(p, ok) PROVE StreamInv'
  <2>1. /\ publisher[p].uuid \in Mediators /\ publisher[p].did \in Dids
        /\ publisher[p].forced \in BOOLEAN
    BY <1>0, <1>3 DEF Publish, Publishers
  <2>2. Publishers'
    BY <1>0, <1>3 DEF Publish, Publishers, NoPublication
  <2>3. pubsub' \in [Mediators -> Seq(Published)]
    <3>1. [did |-> publisher[p].did, forced |-> publisher[p].forced] \in Published
      BY <2>1 DEF Published
    <3> QED BY <1>0, <1>3, <2>1, <3>1 DEF Publish
  <2>4. sock' \in [Sockets -> {"new", "open", "start", "stop", "reply", "closing",
                                "closed", "panicked"}]
    BY <1>0, <1>3 DEF Publish
  <2> QED BY <1>0, <1>3, <2>2, <2>3, <2>4, PublishersKeep DEF Publish
<1> QED BY <1>1, <1>2, <1>3

\* The steps of the task that take a message or hand one over.
LEMMA DeliveryKeeps ==
  ASSUME StreamInv, NEW m \in Mediators,
         (\E ok \in DbOutcomes : TakePublished(m, ok)) \/ HandOver(m)
  PROVE  StreamInv'
<1>0. /\ pubsub \in [Mediators -> Seq(Published)]
      /\ sending \in [Mediators -> [socket : Sockets \cup {None}, did : Dids \cup {None}]]
      /\ clients \in [Mediators -> [Dids -> Clients]]
      /\ live \in [Dids -> Entries]
      /\ rx \in [Sockets -> Seq(Dids)]
      /\ \A n \in Mediators : OwnMap(n, clients[n])
      /\ \A n \in Mediators : sending[n].socket # None =>
           sending[n].did = Did[sending[n].socket] /\ Home[sending[n].socket] = n
  BY DEF StreamInv, StreamTypeOK, Addressed
<1>1. ASSUME NEW ok \in DbOutcomes, TakePublished(m, ok) PROVE StreamInv'
  <2>1. pubsub[m] \in Seq(Published) /\ pubsub[m] # <<>>
    BY <1>0, <1>1 DEF TakePublished
  <2>2. Head(pubsub[m]) \in Published /\ Tail(pubsub[m]) \in Seq(Published)
    BY <2>1, TailElements
  <2>3. PICK msg \in Published : msg = Head(pubsub[m])
    BY <2>2
  <2>4. msg.did \in Dids
    BY DEF Published
  <2>5. clients[m][msg.did] \in Clients
    BY <1>0, <2>4
  <2>6. PICK client \in Clients : client = clients[m][msg.did]
    BY <2>5
  <2>7. client.socket \in Sockets \cup {None}
        /\ (client.socket # None => Did[client.socket] = msg.did /\ Home[client.socket] = m)
    BY <1>0, <2>4, <2>6 DEF OwnMap, Clients
  <2>8. /\ pubsub' \in [Mediators -> Seq(Published)]
        /\ UNCHANGED <<task, clients, chan, sessions, stray, sock, rx, publisher, bounds>>
    BY <1>0, <1>1, <2>2 DEF TakePublished
  <2>9. /\ sending' \in [Mediators -> [socket : Sockets \cup {None}, did : Dids \cup {None}]]
        /\ \A n \in Mediators : sending'[n].socket # None =>
             sending'[n].did = Did[sending'[n].socket] /\ Home[sending'[n].socket] = n
    <3>1. PICK x \in [socket : Sockets \cup {None}, did : Dids \cup {None}] :
            /\ sending' = [sending EXCEPT ![m] = x]
            /\ x.socket # None => x.did = Did[x.socket] /\ Home[x.socket] = m
      <4>1. /\ [socket |-> client.socket, did |-> msg.did]
                 \in [socket : Sockets \cup {None}, did : Dids \cup {None}]
            /\ NoSend \in [socket : Sockets \cup {None}, did : Dids \cup {None}]
            /\ NoSend.socket = None
        BY <2>4, <2>7 DEF NoSend
      <4>2. \/ sending' = [sending EXCEPT ![m] = [socket |-> client.socket, did |-> msg.did]]
            \/ sending' = [sending EXCEPT ![m] = NoSend]
        BY <1>1, <2>3, <2>6 DEF TakePublished
      <4> QED BY <2>7, <4>1, <4>2
    <3> QED BY <1>0, <3>1
  <2>10. live' \in [Dids -> Entries]
    <3>1. [uuid |-> m, live |-> FALSE] \in Entries
      BY DEF Entries
    <3> QED BY <1>0, <1>1, <3>1 DEF TakePublished
  <2>11. StreamTypeOK'
    BY <2>8, <2>9, <2>10 DEF StreamInv, StreamTypeOK
  <2>12. Addressed'
    BY <2>8, <2>9 DEF StreamInv, Addressed, OwnMap, OwnQueue, DeliveredToOwner
  <2>13. EmptyWhenDown'
    BY <2>8 DEF StreamInv, EmptyWhenDown, Up
  <2> QED BY <2>11, <2>12, <2>13 DEF StreamInv
<1>2. CASE HandOver(m)
  <2>1. PICK c : c = sending[m].socket
    OBVIOUS
  <2>2. c \in Sockets /\ sending[m].did = Did[c] /\ Did[c] \in Dids
    BY <1>0, <1>2, <2>1, SocketsAssumption DEF HandOver
  <2>3. /\ sending' = [sending EXCEPT ![m] = NoSend]
        /\ UNCHANGED <<task, clients, chan, pubsub, redisVars, sock, publisher, bounds>>
    BY <1>2 DEF HandOver
  <2>4. /\ sending' \in [Mediators -> [socket : Sockets \cup {None}, did : Dids \cup {None}]]
        /\ \A n \in Mediators : sending'[n].socket # None =>
             sending'[n].did = Did[sending'[n].socket] /\ Home[sending'[n].socket] = n
    <3>1. NoSend \in [socket : Sockets \cup {None}, did : Dids \cup {None}] /\ NoSend.socket = None
      BY DEF NoSend
    <3> QED BY <1>0, <2>3, <3>1
  <2>5. /\ rx' \in [Sockets -> Seq(Dids)]
        /\ \A e \in Sockets : Len(rx'[e]) <= ClientCap
        /\ \A e \in Sockets : \A i \in DOMAIN rx'[e] : rx'[e][i] = Did[e]
    <3>0. /\ \A e \in Sockets : Len(rx[e]) <= ClientCap
          /\ \A e \in Sockets : \A i \in DOMAIN rx[e] : rx[e][i] = Did[e]
      BY DEF StreamInv, StreamTypeOK, Addressed, DeliveredToOwner
    <3>1. CASE Len(rx[c]) < ClientCap /\ rx' = [rx EXCEPT ![c] = Append(@, Did[c])]
      <4>1. rx[c] \in Seq(Dids)
        BY <1>0, <2>2
      <4>2. /\ Append(rx[c], Did[c]) \in Seq(Dids) /\ Len(Append(rx[c], Did[c])) = Len(rx[c]) + 1
            /\ \A i \in DOMAIN Append(rx[c], Did[c]) : Append(rx[c], Did[c])[i] = Did[c]
        BY <2>2, <3>0, <4>1, AppendedElements
      <4>3. Len(rx[c]) + 1 <= ClientCap
        BY <3>1, <4>1, ChannelAssumption
      <4>4. rx'[c] = Append(rx[c], Did[c]) /\ \A e \in Sockets \ {c} : rx'[e] = rx[e]
        BY <1>0, <2>2, <3>1
      <4>5. rx' \in [Sockets -> Seq(Dids)]
        BY <1>0, <3>1, <4>2
      <4> QED BY <3>0, <4>2, <4>3, <4>4, <4>5
    <3> QED BY <1>0, <1>2, <2>1, <2>2, <3>0, <3>1 DEF HandOver
  <2>6. StreamTypeOK'
    BY <2>3, <2>4, <2>5 DEF StreamInv, StreamTypeOK, redisVars
  <2>7. Addressed'
    BY <2>3, <2>4, <2>5 DEF StreamInv, Addressed, OwnMap, OwnQueue, DeliveredToOwner
  <2>8. EmptyWhenDown'
    BY <2>3 DEF StreamInv, EmptyWhenDown, Up
  <2> QED BY <2>6, <2>7, <2>8 DEF StreamInv
<1> QED BY <1>1, <1>2

\* What the task does to its map, the keys and itself for one update.
LEMMA UpdateTaken ==
  ASSUME StreamInv, NEW m \in Mediators, NEW ok \in DbOutcomes, NEW u \in Updates,
         OwnQueue(m, <<u>>), Up(m),
         TakeRegister(m, u, ok) \/ TakeToggle(m, u, ok) \/ TakeDeregister(m, u, ok)
  PROVE  /\ task' \in [Mediators -> {"up", "resubscribing", "dead", "down"}]
         /\ clients' \in [Mediators -> [Dids -> Clients]]
         /\ live' \in [Dids -> Entries] /\ sessions' \in [Mediators -> SUBSET Dids]
         /\ \A n \in Mediators : OwnMap(n, clients'[n])
         /\ \A n \in Mediators \ {m} : task'[n] = task[n] /\ clients'[n] = clients[n]
         /\ task' = task \/ (task'[m] = "dead" /\ clients'[m] = [d \in Dids |-> NoClient])
<1>0. /\ task \in [Mediators -> {"up", "resubscribing", "dead", "down"}]
      /\ clients \in [Mediators -> [Dids -> Clients]]
      /\ live \in [Dids -> Entries] /\ sessions \in [Mediators -> SUBSET Dids]
      /\ \A n \in Mediators : OwnMap(n, clients[n])
      /\ u.did \in Dids /\ u.socket \in Sockets \cup {None}
      /\ u.kind = "register" => u.socket \in Sockets /\ Did[u.socket] = u.did /\ Home[u.socket] = m
      /\ NoClient \in Clients /\ NoClient.socket = None /\ NoEntry \in Entries
      /\ \A b \in BOOLEAN : [uuid |-> m, live |-> b] \in Entries
  BY DEF StreamInv, StreamTypeOK, Addressed, Updates, OwnQueue, NoClient, NoEntry, Clients, Entries
<1>1. CASE TakeRegister(m, u, ok)
  <2>1. PICK client \in Clients : client = [socket |-> u.socket, active |-> FALSE]
    BY <1>0 DEF Clients
  <2>2. clients' = [clients EXCEPT ![m][u.did] = client] /\ task' = task /\ client.socket = u.socket
        /\ u.kind = "register"
    BY <1>1, <2>1 DEF TakeRegister
  <2>3. clients' \in [Mediators -> [Dids -> Clients]]
        /\ \A n \in Mediators : OwnMap(n, clients'[n])
    BY <1>0, <2>2 DEF OwnMap
  <2>4. live' \in [Dids -> Entries] /\ sessions' \in [Mediators -> SUBSET Dids]
    <3>1. \/ live' = live /\ sessions' = sessions
          \/ /\ sessions' = [sessions EXCEPT ![m] = @ \cup {u.did}]
             /\ live' = [live EXCEPT ![u.did] = [uuid |-> m, live |-> FALSE]]
      BY <1>1 DEF TakeRegister, redisVars
    <3>2. [uuid |-> m, live |-> FALSE] \in Entries
      BY <1>0
    <3>3. live' \in [Dids -> Entries]
      BY <1>0, <3>1, <3>2
    <3>4. sessions' \in [Mediators -> SUBSET Dids]
      BY <1>0, <3>1
    <3> QED BY <3>3, <3>4
  <2> QED BY <1>0, <2>2, <2>3, <2>4
<1>2. CASE TakeToggle(m, u, ok)
  <2>1. /\ clients' \in [Mediators -> [Dids -> Clients]]
        /\ \A n \in Mediators : OwnMap(n, clients'[n])
        /\ \A n \in Mediators \ {m} : clients'[n] = clients[n]
    <3>1. CASE clients[m][u.did] = NoClient
      BY <1>0, <1>2, <3>1 DEF TakeToggle
    <3>2. CASE clients[m][u.did] # NoClient
      <4>1. clients' = [clients EXCEPT ![m][u.did].active = (u.kind = "start")]
        BY <1>2, <3>2 DEF TakeToggle
      <4>2. clients[m][u.did] \in Clients
        BY <1>0
      <4>3. PICK client \in Clients : client = [clients[m][u.did] EXCEPT !.active = (u.kind = "start")]
                                      /\ client.socket = clients[m][u.did].socket
        <5>1. PICK old \in Clients : old = clients[m][u.did]
          BY <4>2
        <5>2. PICK b \in BOOLEAN : b = (u.kind = "start")
          OBVIOUS
        <5>3. [old EXCEPT !.active = b] \in Clients /\ [old EXCEPT !.active = b].socket = old.socket
          BY DEF Clients
        <5> QED BY <5>1, <5>2, <5>3
      <4>4. clients' = [clients EXCEPT ![m][u.did] = client]
        BY <4>1, <4>3
      <4> QED BY <1>0, <4>3, <4>4 DEF OwnMap
    <3> QED BY <3>1, <3>2
  <2>2. live' \in [Dids -> Entries] /\ task' = task /\ sessions' = sessions
    <3>1. PICK b \in BOOLEAN : b = (u.kind = "start")
      OBVIOUS
    <3> QED BY <1>0, <1>2, <3>1 DEF TakeToggle
  <2> QED BY <1>0, <2>1, <2>2
<1>3. CASE TakeDeregister(m, u, ok)
  <2>1. CASE (\A d \in Dids : clients[m][d] = NoClient) /\ OverflowChecks
    <3>1. /\ task' = [task EXCEPT ![m] = "dead"]
          /\ clients' = [clients EXCEPT ![m] = [d \in Dids |-> NoClient]]
          /\ live' = live /\ sessions' = sessions
      BY <1>3, <2>1 DEF TakeDeregister, redisVars
    <3>2. /\ [d \in Dids |-> NoClient] \in [Dids -> Clients]
          /\ OwnMap(m, [d \in Dids |-> NoClient])
      BY <1>0 DEF OwnMap
    <3>3. PICK noClients : noClients = [d \in Dids |-> NoClient]
      OBVIOUS
    <3>4. clients' \in [Mediators -> [Dids -> Clients]] /\ clients'[m] = noClients
          /\ \A n \in Mediators \ {m} : clients'[n] = clients[n]
      BY <1>0, <3>1, <3>2, <3>3
    <3>5. \A n \in Mediators : OwnMap(n, clients'[n])
      BY <1>0, <3>2, <3>3, <3>4
    <3> QED BY <1>0, <3>1, <3>3, <3>4, <3>5
  <2>2. CASE ~((\A d \in Dids : clients[m][d] = NoClient) /\ OverflowChecks)
    <3>1. /\ task' = task
          /\ clients' = [clients EXCEPT ![m][u.did] = NoClient]
          /\ live' = live \/ live' = [live EXCEPT ![u.did] = NoEntry]
          /\ sessions' = sessions \/ sessions' = [sessions EXCEPT ![m] = @ \ {u.did}]
      BY <1>3, <2>2 DEF TakeDeregister, redisVars
    <3>2. clients' \in [Mediators -> [Dids -> Clients]]
          /\ \A n \in Mediators \ {m} : clients'[n] = clients[n]
      BY <1>0, <3>1
    <3>3. \A n \in Mediators : OwnMap(n, clients'[n])
      BY <1>0, <3>1 DEF OwnMap
    <3>4. live' \in [Dids -> Entries]
      BY <1>0, <3>1
    <3>5. sessions' \in [Mediators -> SUBSET Dids]
      BY <1>0, <3>1
    <3> QED BY <1>0, <3>1, <3>2, <3>3, <3>4, <3>5
  <2> QED BY <2>1, <2>2
<1> QED BY <1>1, <1>2, <1>3

LEMMA StrayTyped ==
  ASSUME StreamInv, NEW m \in Mediators, NEW ok \in DbOutcomes, NEW u \in Updates,
         TakeRegister(m, u, ok) \/ TakeToggle(m, u, ok) \/ TakeDeregister(m, u, ok)
  PROVE  stray' \subseteq Mediators \X Dids
<1>1. stray \subseteq Mediators \X Dids /\ <<m, u.did>> \in Mediators \X Dids
  BY DEF StreamInv, StreamTypeOK, Updates
<1>2. stray' = stray \/ stray' = stray \cup {<<m, u.did>>}
  BY DEF TakeRegister, TakeToggle, TakeDeregister, redisVars
<1> QED BY <1>1, <1>2

LEMMA TakeUpdateKeeps ==
  ASSUME StreamInv, NEW m \in Mediators, NEW ok \in DbOutcomes, TakeUpdate(m, ok)
  PROVE  StreamInv'
<1>0. /\ chan \in [Mediators -> Seq(Updates)] /\ pubsub \in [Mediators -> Seq(Published)]
      /\ \A n \in Mediators : Len(chan[n]) <= ChannelCap /\ OwnQueue(n, chan[n])
      /\ Up(m)
  BY DEF StreamInv, StreamTypeOK, Addressed, TakeUpdate, Ready, Up
<1>1. chan[m] \in Seq(Updates) /\ chan[m] # <<>>
  BY <1>0 DEF TakeUpdate
<1>2. PICK u \in Updates : u = Head(chan[m])
  BY <1>1, TailElements
<1>3. OwnQueue(m, <<u>>)
  BY <1>0, <1>1, <1>2, TailElements DEF OwnQueue
<1>4. TakeRegister(m, u, ok) \/ TakeToggle(m, u, ok) \/ TakeDeregister(m, u, ok)
  BY <1>2 DEF TakeUpdate
<1>5. /\ task' \in [Mediators -> {"up", "resubscribing", "dead", "down"}]
      /\ clients' \in [Mediators -> [Dids -> Clients]]
      /\ live' \in [Dids -> Entries] /\ sessions' \in [Mediators -> SUBSET Dids]
         /\ stray' \subseteq Mediators \X Dids
      /\ \A n \in Mediators : OwnMap(n, clients'[n])
      /\ \A n \in Mediators \ {m} : task'[n] = task[n] /\ clients'[n] = clients[n]
      /\ task' = task \/ (task'[m] = "dead" /\ clients'[m] = [d \in Dids |-> NoClient])
  BY <1>0, <1>3, <1>4, UpdateTaken, StrayTyped
<1>6. /\ Tail(chan[m]) \in Seq(Updates) /\ Len(Tail(chan[m])) <= ChannelCap
      /\ OwnQueue(m, Tail(chan[m]))
  <2>1. /\ Tail(chan[m]) \in Seq(Updates) /\ Len(Tail(chan[m])) = Len(chan[m]) - 1
        /\ Len(chan[m]) \in Nat \ {0}
        /\ \A i \in DOMAIN Tail(chan[m]) : i + 1 \in DOMAIN chan[m] /\ Tail(chan[m])[i] = chan[m][i + 1]
    BY <1>1, TailElements
  <2>2. Len(chan[m]) - 1 <= ChannelCap
    BY <1>0, <2>1, ChannelAssumption
  <2> QED BY <1>0, <2>1, <2>2 DEF OwnQueue
<1>7. /\ chan' = [chan EXCEPT ![m] = IF task'[m] = "dead" THEN <<>> ELSE Tail(@)]
      /\ pubsub' = [pubsub EXCEPT ![m] = IF task'[m] = "dead" THEN <<>> ELSE @]
      /\ UNCHANGED <<sending, sock, rx, publisher, bounds>>
  BY DEF TakeUpdate
<1>8. chan' \in [Mediators -> Seq(Updates)] /\ pubsub' \in [Mediators -> Seq(Published)]
  BY <1>0, <1>6, <1>7
<1>9. /\ \A n \in Mediators \ {m} : chan'[n] = chan[n]
      /\ chan'[m] = IF task'[m] = "dead" THEN <<>> ELSE Tail(chan[m])
  BY <1>0, <1>7
<1>10. \A n \in Mediators : Len(chan'[n]) <= ChannelCap /\ OwnQueue(n, chan'[n])
  <2>1. OwnQueue(m, <<>>) /\ Len(<<>>) <= ChannelCap
    BY ChannelAssumption DEF OwnQueue
  <2>2. PICK q : q = chan'[m]
    OBVIOUS
  <2>3. Len(q) <= ChannelCap /\ OwnQueue(m, q)
    BY <1>6, <1>9, <2>1, <2>2
  <2> QED BY <1>0, <1>9, <2>2, <2>3
<1>11. StreamTypeOK'
  BY <1>5, <1>7, <1>8, <1>10 DEF StreamInv, StreamTypeOK
<1>12. Addressed'
  BY <1>5, <1>7, <1>10 DEF StreamInv, Addressed, DeliveredToOwner
<1>13. EmptyWhenDown'
  BY <1>0, <1>5, <1>9 DEF StreamInv, EmptyWhenDown, Up
<1> QED BY <1>11, <1>12, <1>13 DEF StreamInv

\* The life of the task and of the process.
LEMMA ProcessKeeps ==
  ASSUME StreamInv, NEW m \in Mediators,
         \/ DropPubSub(m) \/ Resubscribe(m) \/ Crash(m)
         \/ \E cleaned, subscribed \in StartOutcomes : Restart(m, cleaned, subscribed)
  PROVE  StreamInv'
<1>0. /\ task \in [Mediators -> {"up", "resubscribing", "dead", "down"}]
      /\ clients \in [Mediators -> [Dids -> Clients]]
      /\ sending \in [Mediators -> [socket : Sockets \cup {None}, did : Dids \cup {None}]]
      /\ chan \in [Mediators -> Seq(Updates)] /\ pubsub \in [Mediators -> Seq(Published)]
      /\ live \in [Dids -> Entries] /\ sessions \in [Mediators -> SUBSET Dids]
      /\ rx \in [Sockets -> Seq(Dids)]
      /\ Publishers
      /\ sock \in [Sockets -> {"new", "open", "start", "stop", "reply", "closing",
                                "closed", "panicked"}]
  BY DEF StreamInv, StreamTypeOK, Addressed, Publishers
<1>1. CASE DropPubSub(m)
  <2>1. bounds' \in [{"published", "toggles", "rest", "crashes", "drops"} -> Nat]
    BY <1>1, SpendTyped DEF DropPubSub
  <2>2. task' = [task EXCEPT ![m] = "resubscribing"] /\ pubsub' = [pubsub EXCEPT ![m] = <<>>]
        /\ UNCHANGED <<sending, clients, chan, redisVars, sock, rx, publisher>> /\ task[m] = "up"
    BY <1>1 DEF DropPubSub, Ready
  <2>3. StreamTypeOK'
    BY <2>1, <2>2 DEF StreamInv, StreamTypeOK, redisVars
  <2>4. Addressed'
    BY <2>2 DEF StreamInv, Addressed, OwnMap, OwnQueue, DeliveredToOwner
  <2>5. EmptyWhenDown'
    BY <1>0, <2>2 DEF StreamInv, EmptyWhenDown, Up
  <2> QED BY <2>3, <2>4, <2>5 DEF StreamInv
<1>2. CASE Resubscribe(m)
  <2>2. task' = [task EXCEPT ![m] = "up"] /\ task[m] = "resubscribing"
        /\ UNCHANGED <<sending, clients, chan, pubsub, redisVars, sock, rx, publisher, bounds>>
    BY <1>2 DEF Resubscribe
  <2>3. StreamTypeOK'
    BY <2>2 DEF StreamInv, StreamTypeOK, redisVars
  <2>4. Addressed'
    BY <2>2 DEF StreamInv, Addressed, OwnMap, OwnQueue, DeliveredToOwner
  <2>5. EmptyWhenDown'
    BY <1>0, <2>2 DEF StreamInv, EmptyWhenDown, Up
  <2> QED BY <2>3, <2>4, <2>5 DEF StreamInv
<1>3. CASE Crash(m)
  <2>1. bounds' \in [{"published", "toggles", "rest", "crashes", "drops"} -> Nat]
    BY <1>3, SpendTyped DEF Crash
  <2>2. PICK noClients \in [Dids -> Clients] : noClients = [d \in Dids |-> NoClient]
    BY NoneAssumption DEF NoClient, Clients
  <2>3. /\ task' = [task EXCEPT ![m] = "down"]
        /\ sending' = [sending EXCEPT ![m] = NoSend]
        /\ clients' = [clients EXCEPT ![m] = noClients]
        /\ chan' = [chan EXCEPT ![m] = <<>>]
        /\ pubsub' = [pubsub EXCEPT ![m] = <<>>]
        /\ UNCHANGED redisVars
    BY <1>3, <2>2 DEF Crash
  <2>4. sock' \in [Sockets -> {"new", "open", "start", "stop", "reply", "closing",
                                "closed", "panicked"}]
    BY <1>0, <1>3 DEF Crash
  <2>5. /\ rx' \in [Sockets -> Seq(Dids)]
        /\ \A c \in Sockets : rx'[c] = rx[c] \/ rx'[c] = <<>>
    BY <1>0, <1>3 DEF Crash
  <2>6. Publishers'
    <3>1. NoPublication \in [uuid : Mediators \cup {None}, did : Dids \cup {None}, forced : BOOLEAN]
          /\ NoPublication.uuid = None
      BY DEF NoPublication
    <3>2. publisher' = [p \in Sockets \cup Senders |->
                          IF p \in Sockets /\ Home[p] = m THEN NoPublication ELSE publisher[p]]
      BY <1>3 DEF Crash
    <3> QED BY <1>0, <3>1, <3>2 DEF Publishers
  <2>7. Len(<<>>) <= ChannelCap /\ Len(<<>>) <= ClientCap
    BY ChannelAssumption
  <2>8. StreamTypeOK'
    <3>1. NoSend \in [socket : Sockets \cup {None}, did : Dids \cup {None}]
      BY DEF NoSend
    <3>2. /\ task' \in [Mediators -> {"up", "resubscribing", "dead", "down"}]
          /\ sending' \in [Mediators -> [socket : Sockets \cup {None}, did : Dids \cup {None}]]
          /\ clients' \in [Mediators -> [Dids -> Clients]]
          /\ chan' \in [Mediators -> Seq(Updates)] /\ pubsub' \in [Mediators -> Seq(Published)]
      BY <1>0, <2>2, <2>3, <3>1
    <3>3. (\A n \in Mediators : Len(chan'[n]) <= ChannelCap)
          /\ \A c \in Sockets : Len(rx'[c]) <= ClientCap
      BY <1>0, <2>3, <2>5, <2>7 DEF StreamInv, StreamTypeOK
    <3> QED BY <1>0, <2>1, <2>3, <2>4, <2>5, <2>6, <3>2, <3>3 DEF StreamInv, StreamTypeOK, Publishers, redisVars
  <2>9. Addressed'
    <3>1. \A n \in Mediators : OwnQueue(n, chan'[n]) /\ OwnMap(n, clients'[n])
      <4>1. OwnQueue(m, <<>>) /\ OwnMap(m, noClients)
        BY <2>2 DEF OwnQueue, OwnMap, NoClient
      <4>2. PICK q : q = chan'[m]
        OBVIOUS
      <4>3. q = <<>>
        BY <1>0, <2>3, <4>2
      <4>4. OwnQueue(m, q) /\ OwnMap(m, clients'[m])
        BY <1>0, <2>3, <4>1, <4>3
      <4>5. \A n \in Mediators \ {m} : chan'[n] = chan[n] /\ clients'[n] = clients[n]
        BY <1>0, <2>3
      <4> QED BY <4>2, <4>4, <4>5 DEF StreamInv, Addressed
    <3>2. \A n \in Mediators : sending'[n].socket # None =>
            sending'[n].did = Did[sending'[n].socket] /\ Home[sending'[n].socket] = n
      BY <1>0, <2>3 DEF StreamInv, Addressed, NoSend
    <3>3. DeliveredToOwner'
      <4>1. ASSUME NEW c \in Sockets PROVE (\A i \in DOMAIN rx[c] : rx[c][i] = Did[c])'
        BY <2>5 DEF StreamInv, Addressed, DeliveredToOwner
      <4> QED BY <4>1 DEF DeliveredToOwner
    <3> QED BY <2>6, <3>1, <3>2, <3>3 DEF Addressed, Publishers
  <2>10. EmptyWhenDown'
    <3>1. chan'[m] = <<>> /\ clients'[m] = [d \in Dids |-> NoClient]
      BY <1>0, <2>2, <2>3
    <3>2. \A n \in Mediators \ {m} : task'[n] = task[n] /\ chan'[n] = chan[n] /\ clients'[n] = clients[n]
      BY <1>0, <2>3
    <3> QED BY <3>1, <3>2 DEF StreamInv, EmptyWhenDown, Up
  <2> QED BY <2>8, <2>9, <2>10 DEF StreamInv
<1>4. ASSUME NEW cleaned \in StartOutcomes, NEW subscribed \in StartOutcomes,
             Restart(m, cleaned, subscribed)
      PROVE StreamInv'
  <2>1. /\ UNCHANGED <<sending, clients, chan, pubsub, sock, rx, publisher, bounds>>
        /\ task[m] = "down"
        /\ task' = [task EXCEPT ![m] = "up"] \/ task' = [task EXCEPT ![m] = "dead"]
    BY <1>4 DEF Restart
  <2>2. live' \in [Dids -> Entries] /\ sessions' \in [Mediators -> SUBSET Dids] /\ stray' = stray
    <3>1. NoEntry \in Entries
      BY DEF NoEntry, Entries
    <3>2. /\ stray' = stray
          /\ \/ live' = live /\ sessions' = sessions
             \/ /\ sessions' = [sessions EXCEPT ![m] = {}]
                /\ live' = [d \in Dids |-> IF d \in sessions[m] THEN NoEntry ELSE live[d]]
      BY <1>4 DEF Restart, CleanStart, redisVars
    <3> QED BY <1>0, <3>1, <3>2
  <2>3. StreamTypeOK'
    BY <2>1, <2>2 DEF StreamInv, StreamTypeOK, redisVars
  <2>4. Addressed'
    BY <2>1 DEF StreamInv, Addressed, OwnMap, OwnQueue, DeliveredToOwner
  <2>5. EmptyWhenDown'
    BY <1>0, <2>1 DEF StreamInv, EmptyWhenDown, Up
  <2> QED BY <2>3, <2>4, <2>5 DEF StreamInv
<1> QED BY <1>1, <1>2, <1>3, <1>4

LEMMA StreamInvStep == StreamInv /\ [StreamNext]_streamVars => StreamInv'
<1> SUFFICES ASSUME StreamInv, [StreamNext]_streamVars PROVE StreamInv'
  OBVIOUS
<1>1. CASE UNCHANGED streamVars
  BY <1>1 DEF streamVars, taskVars, redisVars, StreamInv, StreamTypeOK, Addressed, EmptyWhenDown,
       Up, OwnQueue, OwnMap, DeliveredToOwner
<1>2. ASSUME NEW m \in Mediators, TaskStep(m) \/ DropPubSub(m) \/ Crash(m) PROVE StreamInv'
  BY <1>2, DeliveryKeeps, TakeUpdateKeeps, ProcessKeeps DEF TaskStep
<1>3. ASSUME NEW m \in Mediators, NEW cleaned \in StartOutcomes, NEW subscribed \in StartOutcomes,
             Restart(m, cleaned, subscribed)
      PROVE StreamInv'
  BY <1>3, ProcessKeeps
<1>4. ASSUME NEW m \in Mediators, NEW d \in Dids, NEW kind \in {"start", "stop"},
             RestToggle(m, d, kind)
      PROVE StreamInv'
  BY <1>4, RestToggleKeeps
<1>5. ASSUME NEW c \in Sockets, SocketStep(c) PROVE StreamInv'
  BY <1>5, HandlerKeeps, PublicationKeeps DEF SocketStep
<1>6. ASSUME NEW p \in Senders, SenderStep(p) PROVE StreamInv'
  BY <1>6, PublicationKeeps DEF SenderStep
<1> QED BY <1>1, <1>2, <1>3, <1>4, <1>5, <1>6 DEF StreamNext

LEMMA StreamInvHolds == StreamSpec => []StreamInv
BY StreamInvInit, StreamInvStep, PTL DEF StreamSpec

\* Whatever mediators, sockets, sessions and publications there are, the state of
\* live delivery keeps its shape: neither the channel into the streaming task nor
\* one into a socket ever holds more than its capacity.
THEOREM StreamTypesCorrect == StreamSpec => []StreamTypeOK
<1>1. StreamInv => StreamTypeOK
  BY DEF StreamInv
<1> QED BY <1>1, StreamInvHolds, PTL

\* Whatever order sockets, toggles, crashes, restarts and publications come in, and
\* whatever the Redis calls of the task answer, ws_streaming_task hands a socket
\* only messages for the DID the socket was authenticated as.
THEOREM MessagesReachTheirOwner == StreamSpec => []DeliveredToOwner
<1>1. StreamInv => DeliveredToOwner
  BY DEF StreamInv, Addressed
<1> QED BY <1>1, StreamInvHolds, PTL

-----------------------------------------------------------------------------
(* The queue of one mediator *)

\* What an update does to the place of DID d in the map.
Turns(u, d, before, after) ==
  /\ Registers(u, d) => after = u.socket /\ u.socket # None
  /\ Ends(u, d) => after = None
  /\ ~Registers(u, d) /\ ~Ends(u, d) => after = before

\* No handler starts anew, and none closes that did not say so to the task.
LEMMA QueueKept ==
  ASSUME NEW m \in Mediators, NEW q \in Seq(Updates), NEW map \in [Dids -> Clients],
         NEW s, NEW t, QueueOK(q, map, s), OwnQueue(m, q), OwnMap(m, map),
         \A c \in Sockets : t[c] = "new" => s[c] = "new",
         \A c \in Sockets : Home[c] = m /\ t[c] = "closed" => s[c] \in {"closed", "new"}
  PROVE  QueueOK(q, map, t)
<1>0. \A d \in Dids : map[d].socket \in Sockets \cup {None}
  BY DEF Clients
<1>1. RegistersOnce(q, map, t)
  BY <1>0 DEF QueueOK, RegistersOnce, OwnQueue
<1>2. ClosedMeansDeregistered(q, map, t)
  BY <1>0 DEF QueueOK, RegistersOnce, ClosedMeansDeregistered, OwnQueue, OwnMap
<1> QED BY <1>1, <1>2 DEF QueueOK

LEMMA QueueGrows ==
  ASSUME NEW m \in Mediators, NEW q \in Seq(Updates), NEW map \in [Dids -> Clients],
         NEW s, NEW t, QueueOK(q, map, s), OwnQueue(m, q), OwnMap(m, map),
         NEW u \in Updates,
         \A c \in Sockets : t[c] = "new" => s[c] = "new",
         u.kind = "register" =>
           /\ u.socket \in Sockets /\ u.did = Did[u.socket] /\ s[u.socket] = "new"
           /\ t[u.socket] \notin {"new", "closed"},
         \A c \in Sockets : Home[c] = m /\ t[c] = "closed" =>
           s[c] \in {"closed", "new"} \/ Ends(u, Did[c])
  PROVE  QueueOK(Append(q, u), map, t)
<1> DEFINE r == Append(q, u)
<1>1. /\ DOMAIN r = 1..(Len(q) + 1) /\ DOMAIN q = 1..Len(q) /\ Len(q) \in Nat
      /\ \A i \in 1..Len(q) : r[i] = q[i] /\ i \in 1..(Len(q) + 1) /\ i # Len(q) + 1
      /\ r[Len(q) + 1] = u
      /\ \A i \in 1..(Len(q) + 1) : i \in 1..Len(q) \/ i = Len(q) + 1
      /\ Len(q) + 1 \in 1..(Len(q) + 1)
      /\ \A i \in 1..Len(q) : Len(q) + 1 > i
  BY AppendedElements
<1>2. /\ \A d \in Dids : map[d].socket \in Sockets \cup {None}
      /\ \A i \in 1..Len(q) : q[i] \in Updates /\ q[i].did \in Dids
      /\ \A i \in 1..Len(q) : q[i].kind = "register" =>
           q[i].socket \in Sockets /\ Did[q[i].socket] = q[i].did /\ Home[q[i].socket] = m
  <2>1. \A i \in 1..Len(q) : q[i] \in Updates
    OBVIOUS
  <2>2. \A i \in 1..Len(q) : q[i].did \in Dids
    BY <2>1 DEF Updates
  <2> QED BY <1>1, <2>1, <2>2 DEF Clients, OwnQueue
<1>3. RegistersOnce(r, map, t)
  <2>1. \A i \in 1..Len(q) : q[i].kind = "register" =>
          /\ s[q[i].socket] # "new" /\ map[q[i].did].socket # q[i].socket
          /\ \A j \in 1..Len(q) : q[j].kind = "register" /\ q[j].socket = q[i].socket => j = i
    BY <1>1 DEF QueueOK, RegistersOnce
  <2>2. \A d \in Dids : map[d].socket # None => s[map[d].socket] # "new"
    BY DEF QueueOK, RegistersOnce
  <2>3. ASSUME NEW i \in 1..(Len(q) + 1), r[i].kind = "register"
        PROVE  /\ t[r[i].socket] # "new" /\ map[r[i].did].socket # r[i].socket
               /\ \A j \in 1..(Len(q) + 1) : r[j].kind = "register" /\ r[j].socket = r[i].socket => j = i
    <3>1. CASE i \in 1..Len(q)
      <4>1. r[i] = q[i] /\ s[q[i].socket] # "new" /\ map[q[i].did].socket # q[i].socket
            /\ q[i].socket \in Sockets
        BY <1>1, <1>2, <2>1, <2>3, <3>1
      <4>2. ASSUME NEW j \in 1..(Len(q) + 1), r[j].kind = "register", r[j].socket = q[i].socket
            PROVE  j = i
        <5>1. j \in 1..Len(q)
          BY <1>1, <4>1, <4>2
        <5> QED BY <1>1, <2>1, <2>3, <3>1, <4>2, <5>1
      <4> QED BY <4>1, <4>2
    <3>2. CASE i = Len(q) + 1
      <4>1. r[i] = u /\ u.kind = "register" /\ s[u.socket] = "new" /\ u.did \in Dids
            /\ u.socket \in Sockets /\ None \notin Sockets
        BY <1>1, <2>3, <3>2, NoneAssumption DEF Updates
      <4>2. map[u.did].socket # u.socket
        BY <2>2, <4>1
      <4>3. \A j \in 1..(Len(q) + 1) : r[j].kind = "register" /\ r[j].socket = u.socket => j = i
        BY <1>1, <2>1, <3>2, <4>1
      <4> QED BY <4>1, <4>2, <4>3
    <3> QED BY <1>1, <3>1, <3>2
  <2>4. \A d \in Dids : map[d].socket # None => t[map[d].socket] # "new"
    BY <1>2, <2>2
  <2> QED BY <1>1, <2>3, <2>4 DEF RegistersOnce
<1>4. ClosedMeansDeregistered(r, map, t)
  <2>1. ASSUME NEW i \in 1..(Len(q) + 1), r[i].kind = "register", t[r[i].socket] = "closed"
        PROVE  \E j \in 1..(Len(q) + 1) : j > i /\ Ends(r[j], r[i].did)
    <3>1. i \in 1..Len(q) /\ r[i] = q[i]
      BY <1>1, <2>1
    <3>2. q[i].socket \in Sockets /\ Did[q[i].socket] = q[i].did /\ Home[q[i].socket] = m
          /\ s[q[i].socket] # "new"
      BY <1>1, <1>2, <2>1, <3>1 DEF QueueOK, RegistersOnce
    <3>3. s[q[i].socket] = "closed" \/ Ends(u, q[i].did)
      BY <2>1, <3>1, <3>2
    <3>4. s[q[i].socket] = "closed" => \E j \in 1..Len(q) : j > i /\ Ends(q[j], q[i].did)
      BY <1>1, <2>1, <3>1 DEF QueueOK, ClosedMeansDeregistered
    <3> QED BY <1>1, <3>1, <3>3, <3>4
  <2>2. ASSUME NEW d \in Dids, map[d].socket # None, t[map[d].socket] = "closed"
        PROVE  \E j \in 1..(Len(q) + 1) : Ends(r[j], d)
    <3>1. map[d].socket \in Sockets /\ Did[map[d].socket] = d /\ Home[map[d].socket] = m
          /\ s[map[d].socket] # "new"
      BY <1>2, <2>2 DEF OwnMap, QueueOK, RegistersOnce
    <3>2. s[map[d].socket] = "closed" \/ Ends(u, d)
      BY <2>2, <3>1
    <3>3. s[map[d].socket] = "closed" => \E j \in 1..Len(q) : Ends(q[j], d)
      BY <1>1, <2>2 DEF QueueOK, ClosedMeansDeregistered
    <3> QED BY <1>1, <3>2, <3>3
  <2> QED BY <1>1, <2>1, <2>2 DEF ClosedMeansDeregistered
<1> QED BY <1>3, <1>4 DEF QueueOK

LEMMA QueueShrinks ==
  ASSUME NEW m \in Mediators, NEW q \in Seq(Updates), q # <<>>,
         NEW map \in [Dids -> Clients], NEW new \in [Dids -> Clients],
         NEW s, QueueOK(q, map, s), OwnQueue(m, q), OwnMap(m, map),
         \A d \in Dids : Turns(Head(q), d, map[d].socket, new[d].socket)
  PROVE  QueueOK(Tail(q), new, s)
<1> DEFINE r == Tail(q)
<1>1. /\ DOMAIN r = 1..(Len(q) - 1) /\ DOMAIN q = 1..Len(q) /\ Len(q) \in Nat \ {0}
      /\ \A i \in 1..(Len(q) - 1) : r[i] = q[i + 1] /\ i + 1 \in 1..Len(q) /\ i + 1 # 1
      /\ Head(q) = q[1] /\ 1 \in 1..Len(q)
      /\ \A j \in 1..Len(q) : j # 1 => j - 1 \in 1..(Len(q) - 1) /\ r[j - 1] = q[j]
  BY TailElements
<1>2. /\ \A i \in 1..Len(q) : q[i].did \in Dids
      /\ \A i \in 1..Len(q) : q[i].kind = "register" =>
           q[i].socket \in Sockets /\ Did[q[i].socket] = q[i].did /\ Home[q[i].socket] = m
  <2>1. \A i \in 1..Len(q) : q[i] \in Updates
    OBVIOUS
  <2>2. \A i \in 1..Len(q) : q[i].did \in Dids
    BY <2>1 DEF Updates
  <2> QED BY <1>1, <2>2 DEF OwnQueue
<1>3. RegistersOnce(r, new, s)
  <2>1. \A i \in 1..Len(q) : q[i].kind = "register" =>
          /\ s[q[i].socket] # "new" /\ map[q[i].did].socket # q[i].socket
          /\ \A j \in 1..Len(q) : q[j].kind = "register" /\ q[j].socket = q[i].socket => j = i
    BY <1>1 DEF QueueOK, RegistersOnce
  <2>2. \A d \in Dids : map[d].socket # None => s[map[d].socket] # "new"
    BY DEF QueueOK, RegistersOnce
  <2>3. ASSUME NEW i \in 1..(Len(q) - 1), r[i].kind = "register"
        PROVE  /\ s[r[i].socket] # "new" /\ new[r[i].did].socket # r[i].socket
               /\ \A j \in 1..(Len(q) - 1) : r[j].kind = "register" /\ r[j].socket = r[i].socket => j = i
    <3>1. PICK u : u = q[i + 1]
      OBVIOUS
    <3>2. r[i] = u /\ i + 1 \in 1..Len(q) /\ u.kind = "register" /\ u.did \in Dids
          /\ u.socket \in Sockets /\ s[u.socket] # "new" /\ map[u.did].socket # u.socket
      BY <1>1, <1>2, <2>1, <2>3, <3>1
    <3>3. \A j \in 1..Len(q) : q[j].kind = "register" /\ q[j].socket = u.socket => j = i + 1
      BY <1>1, <2>1, <3>1, <3>2
    <3>4. new[u.did].socket # u.socket
      <4>1. Registers(q[1], u.did) => q[1].socket # u.socket
        BY <1>1, <3>2, <3>3 DEF Registers
      <4>2. Turns(q[1], u.did, map[u.did].socket, new[u.did].socket)
        BY <1>1, <3>2
      <4> QED BY <3>2, <4>1, <4>2, NoneAssumption DEF Turns
    <3>5. \A j \in 1..(Len(q) - 1) : r[j].kind = "register" /\ r[j].socket = u.socket => j = i
      <4>1. ASSUME NEW j \in 1..(Len(q) - 1), r[j].kind = "register", r[j].socket = u.socket
            PROVE  j = i
        <5>1. j + 1 = i + 1
          BY <1>1, <3>3, <4>1
        <5> QED BY <5>1
      <4> QED BY <4>1
    <3> QED BY <3>2, <3>4, <3>5
  <2>4. ASSUME NEW d \in Dids, new[d].socket # None PROVE s[new[d].socket] # "new"
    <3>1. Turns(q[1], d, map[d].socket, new[d].socket)
      BY <1>1
    <3> QED BY <1>1, <2>1, <2>2, <2>4, <3>1 DEF Turns, Registers
  <2> QED BY <1>1, <2>3, <2>4 DEF RegistersOnce
<1>4. ClosedMeansDeregistered(r, new, s)
  <2>1. \A i \in 1..Len(q) : q[i].kind = "register" /\ s[q[i].socket] = "closed" =>
          \E j \in 1..Len(q) : j > i /\ Ends(q[j], q[i].did)
    BY <1>1 DEF QueueOK, ClosedMeansDeregistered
  <2>2. \A d \in Dids : map[d].socket # None /\ s[map[d].socket] = "closed" =>
          \E j \in 1..Len(q) : Ends(q[j], d)
    BY <1>1 DEF QueueOK, ClosedMeansDeregistered
  <2>3. ASSUME NEW i \in 1..(Len(q) - 1), r[i].kind = "register", s[r[i].socket] = "closed"
        PROVE  \E j \in 1..(Len(q) - 1) : j > i /\ Ends(r[j], r[i].did)
    <3>1. PICK j \in 1..Len(q) : j > i + 1 /\ Ends(q[j], q[i + 1].did)
      BY <1>1, <2>1, <2>3
    <3>2. j # 1 /\ j - 1 > i
      BY <3>1
    <3> QED BY <1>1, <3>1, <3>2
  <2>4. ASSUME NEW d \in Dids, new[d].socket # None, s[new[d].socket] = "closed"
        PROVE  \E j \in 1..(Len(q) - 1) : Ends(r[j], d)
    <3>1. Turns(q[1], d, map[d].socket, new[d].socket)
      BY <1>1
    <3>2. ~Ends(q[1], d)
      BY <2>4, <3>1 DEF Turns
    <3>3. PICK j \in 1..Len(q) : Ends(q[j], d)
      <4>1. CASE Registers(q[1], d)
        BY <1>1, <2>1, <2>4, <3>1, <4>1 DEF Turns, Registers
      <4>2. CASE ~Registers(q[1], d)
        BY <2>2, <2>4, <3>1, <3>2, <4>2 DEF Turns
      <4> QED BY <4>1, <4>2
    <3>4. j # 1
      BY <3>2, <3>3
    <3> QED BY <1>1, <3>3, <3>4
  <2> QED BY <1>1, <2>3, <2>4 DEF ClosedMeansDeregistered
<1> QED BY <1>3, <1>4 DEF QueueOK

-----------------------------------------------------------------------------
(* OrderInv *)

LEMMA OrderInvInit == StreamInit => OrderInv
<1> SUFFICES ASSUME StreamInit, NEW m \in Mediators PROVE QueueOK(chan[m], clients[m], sock)
  BY DEF OrderInv
<1>1. chan[m] = <<>> /\ clients[m] = [d \in Dids |-> NoClient] /\ sock = [c \in Sockets |-> "new"]
  BY DEF StreamInit
<1> QED BY <1>1 DEF QueueOK, RegistersOnce, ClosedMeansDeregistered, NoClient

\* The queue and the map of a mediator without a task.
LEMMA EmptyQueue ==
  ASSUME NEW s, NEW map, map = [d \in Dids |-> NoClient]
  PROVE  QueueOK(<<>>, map, s)
BY DEF QueueOK, RegistersOnce, ClosedMeansDeregistered, NoClient

\* Steps that leave the queues and the maps alone.
LEMMA OrderKept ==
  ASSUME StreamInv, OrderInv, UNCHANGED <<chan, clients>>,
         \A c \in Sockets : sock'[c] = "new" => sock[c] = "new",
         \A c \in Sockets : sock'[c] = "closed" =>
           sock[c] \in {"closed", "new"} \/ ~Up(Home[c])
  PROVE  OrderInv'
<1>1. ASSUME NEW m \in Mediators PROVE QueueOK(chan[m], clients[m], sock')
  <2>1. /\ chan[m] \in Seq(Updates) /\ clients[m] \in [Dids -> Clients]
        /\ QueueOK(chan[m], clients[m], sock) /\ OwnQueue(m, chan[m]) /\ OwnMap(m, clients[m])
    BY DEF StreamInv, StreamTypeOK, Addressed, OrderInv
  <2>2. CASE Up(m)
    <3>1. \A c \in Sockets : Home[c] = m /\ sock'[c] = "closed" => sock[c] \in {"closed", "new"}
      BY <2>2
    <3> QED BY <2>1, <3>1, QueueKept
  <2>3. CASE ~Up(m)
    <3>1. chan[m] = <<>> /\ clients[m] = [d \in Dids |-> NoClient]
      BY <2>3 DEF StreamInv, EmptyWhenDown
    <3> QED BY <3>1, EmptyQueue
  <2> QED BY <2>2, <2>3
<1> QED BY <1>1 DEF OrderInv

\* Steps that send one update to the task of m.
LEMMA OrderSent ==
  ASSUME StreamInv, OrderInv, UNCHANGED clients, NEW m \in Mediators, NEW u \in Updates,
         chan' = [chan EXCEPT ![m] = Append(@, u)],
         \A c \in Sockets : sock'[c] = "new" => sock[c] = "new",
         u.kind = "register" =>
           /\ u.socket \in Sockets /\ u.did = Did[u.socket] /\ sock[u.socket] = "new"
           /\ sock'[u.socket] \notin {"new", "closed"},
         \A c \in Sockets : sock'[c] = "closed" =>
           sock[c] \in {"closed", "new"} \/ (Home[c] = m /\ Ends(u, Did[c]))
  PROVE  OrderInv'
<1>0. /\ chan \in [Mediators -> Seq(Updates)] /\ clients \in [Mediators -> [Dids -> Clients]]
      /\ \A n \in Mediators : /\ QueueOK(chan[n], clients[n], sock)
                              /\ OwnQueue(n, chan[n]) /\ OwnMap(n, clients[n])
  BY DEF StreamInv, StreamTypeOK, Addressed, OrderInv
<1>1. QueueOK(Append(chan[m], u), clients[m], sock')
  <2>1. /\ chan[m] \in Seq(Updates) /\ clients[m] \in [Dids -> Clients]
        /\ QueueOK(chan[m], clients[m], sock) /\ OwnQueue(m, chan[m]) /\ OwnMap(m, clients[m])
    BY <1>0
  <2>2. \A c \in Sockets : Home[c] = m /\ sock'[c] = "closed" =>
          sock[c] \in {"closed", "new"} \/ Ends(u, Did[c])
    OBVIOUS
  <2>3. PICK q \in Seq(Updates), map \in [Dids -> Clients] : q = chan[m] /\ map = clients[m]
    BY <2>1
  <2>4. QueueOK(q, map, sock) /\ OwnQueue(m, q) /\ OwnMap(m, map)
    BY <2>1, <2>3
  <2>5. QueueOK(Append(q, u), map, sock')
    BY <2>2, <2>4, QueueGrows
  <2> QED BY <2>3, <2>5
<1>2. ASSUME NEW n \in Mediators \ {m} PROVE QueueOK(chan[n], clients[n], sock')
  <2>1. /\ chan[n] \in Seq(Updates) /\ clients[n] \in [Dids -> Clients]
        /\ QueueOK(chan[n], clients[n], sock) /\ OwnQueue(n, chan[n]) /\ OwnMap(n, clients[n])
    BY <1>0
  <2> QED BY <2>1, QueueKept
<1>3. chan'[m] = Append(chan[m], u) /\ \A n \in Mediators \ {m} : chan'[n] = chan[n]
  BY <1>0
<1> QED BY <1>1, <1>2, <1>3 DEF OrderInv

LEMMA HandlersInOrder ==
  ASSUME StreamInv, OrderInv, NEW c \in Sockets, SocketStep(c)
  PROVE  OrderInv'
<1>0. /\ sock \in [Sockets -> {"new", "open", "start", "stop", "reply", "closing",
                               "closed", "panicked"}]
      /\ Did[c] \in Dids /\ Home[c] \in Mediators
  BY SocketsAssumption DEF StreamInv, StreamTypeOK
<1>1. ASSUME UNCHANGED <<chan, clients>>,
             \E status \in {"open", "start", "stop", "reply", "closing", "panicked"} :
               sock' = [sock EXCEPT ![c] = status]
      PROVE  OrderInv'
  BY <1>0, <1>1, OrderKept
<1>2. CASE Connect(c)
  <2>1. CASE /\ chan' = [chan EXCEPT ![Home[c]] = Append(@, Update("register", Did[c], c))]
             /\ sock' = [sock EXCEPT ![c] = "open"]
    <3>1. PICK u \in Updates : u = Update("register", Did[c], c) /\ u.kind = "register"
                               /\ u.did = Did[c] /\ u.socket = c
      BY <1>0, UpdatesAreTyped
    <3>2. PICK m \in Mediators : m = Home[c]
      BY <1>0
    <3>3. UNCHANGED clients /\ sock[c] = "new" /\ chan' = [chan EXCEPT ![m] = Append(@, u)]
      BY <1>2, <2>1, <3>1, <3>2 DEF Connect, taskVars
    <3>4. \A e \in Sockets : /\ sock'[e] = "new" => sock[e] = "new"
                             /\ sock'[e] = "closed" => sock[e] = "closed"
      BY <1>0, <2>1, <3>3
    <3>5. sock'[c] = "open"
      BY <1>0, <2>1
    <3> QED BY <3>1, <3>3, <3>4, <3>5, OrderSent
  <2>2. CASE sock' = [sock EXCEPT ![c] = "closed"] /\ UNCHANGED chan
    <3>1. UNCHANGED <<chan, clients>> /\ sock[c] = "new"
      BY <1>2, <2>2 DEF Connect, taskVars
    <3> QED BY <1>0, <2>2, <3>1, OrderKept
  <2> QED BY <1>2, <2>1, <2>2 DEF Connect
<1>3. CASE SendToggle(c)
  <2>1. CASE /\ chan' = [chan EXCEPT ![Home[c]] = Append(@, Update(sock[c], Did[c], None))]
             /\ sock' = [sock EXCEPT ![c] = "reply"]
    <3>1. sock[c] \in {"start", "stop"}
      BY <1>3 DEF SendToggle
    <3>2. PICK u \in Updates : u = Update(sock[c], Did[c], None) /\ u.kind # "register"
      BY <1>0, <3>1, UpdatesAreTyped
    <3>3. PICK m \in Mediators : m = Home[c]
      BY <1>0
    <3>4. UNCHANGED clients /\ chan' = [chan EXCEPT ![m] = Append(@, u)]
      BY <1>3, <2>1, <3>2, <3>3 DEF SendToggle, taskVars
    <3>5. \A e \in Sockets : /\ sock'[e] = "new" => sock[e] = "new"
                             /\ sock'[e] = "closed" => sock[e] = "closed"
      BY <1>0, <2>1
    <3> QED BY <3>2, <3>4, <3>5, OrderSent
  <2>2. CASE sock' = [sock EXCEPT ![c] = "open"] /\ UNCHANGED chan
    <3>1. UNCHANGED <<chan, clients>>
      BY <1>3, <2>2 DEF SendToggle, taskVars
    <3> QED BY <1>1, <2>2, <3>1
  <2> QED BY <1>3, <2>1, <2>2 DEF SendToggle
<1>4. CASE Deregister(c)
  <2>1. sock[c] = "closing" /\ sock' = [sock EXCEPT ![c] = "closed"] /\ UNCHANGED clients
    BY <1>4 DEF Deregister, taskVars
  <2>2. \A e \in Sockets : /\ sock'[e] = "new" => sock[e] = "new"
                           /\ sock'[e] = "closed" => sock[e] = "closed" \/ e = c
    BY <1>0, <2>1
  <2>3. CASE chan' = [chan EXCEPT ![Home[c]] = Append(@, Update("deregister", Did[c], None))]
    <3>1. PICK u \in Updates : u = Update("deregister", Did[c], None) /\ u.kind = "deregister"
                               /\ u.did = Did[c]
      BY <1>0, UpdatesAreTyped
    <3>2. PICK m \in Mediators : m = Home[c]
      BY <1>0
    <3>3. chan' = [chan EXCEPT ![m] = Append(@, u)]
      BY <2>3, <3>1, <3>2
    <3>4. Ends(u, Did[c]) /\ u.kind # "register"
      BY <3>1 DEF Ends
    <3> QED BY <2>1, <2>2, <3>2, <3>3, <3>4, OrderSent
  <2>4. CASE SendFails(Home[c]) /\ UNCHANGED chan
    <3>1. ~Up(Home[c])
      BY <2>4 DEF SendFails, Up
    <3> QED BY <2>1, <2>2, <2>4, <3>1, OrderKept
  <2> QED BY <1>4, <2>3, <2>4 DEF Deregister
<1>5. ASSUME NEW kind \in {"start", "stop"}, ReceiveToggle(c, kind) PROVE OrderInv'
  BY <1>1, <1>5 DEF ReceiveToggle, taskVars
<1>6. CASE Forward(c)
  BY <1>6, OrderKept DEF Forward, taskVars
<1>7. CASE PeerCloses(c) \/ ChannelCloses(c) \/ Panic(c)
  BY <1>1, <1>7 DEF PeerCloses, ChannelCloses, Panic, taskVars
<1>8. ASSUME NEW ok \in BOOLEAN, Reply(c, ok) \/ Publish(c, ok) PROVE OrderInv'
  <2>1. UNCHANGED <<chan, clients>>
    BY <1>8 DEF Reply, Publish, taskVars
  <2>2. \A e \in Sockets : sock'[e] = sock[e] \/ sock'[e] = "open"
    BY <1>0, <1>8 DEF Reply, Publish
  <2> QED BY <2>1, <2>2, OrderKept
<1> QED BY <1>2, <1>3, <1>4, <1>5, <1>6, <1>7, <1>8 DEF SocketStep

\* The update at the head of the queue does what it says, or ends the task: the map
\* is empty then.
LEMMA UpdateDone ==
  ASSUME StreamInv, NEW m \in Mediators, NEW ok \in DbOutcomes, TakeUpdate(m, ok)
  PROVE  /\ task[m] = "up" /\ chan[m] # <<>> /\ UNCHANGED sock
         /\ \A n \in Mediators \ {m} :
              task'[n] = task[n] /\ chan'[n] = chan[n] /\ clients'[n] = clients[n]
         /\ \/ /\ task'[m] = "dead" /\ chan'[m] = <<>>
               /\ clients'[m] = [d \in Dids |-> NoClient] /\ UNCHANGED redisVars
            \/ /\ task' = task /\ chan'[m] = Tail(chan[m])
               /\ \A d \in Dids :
                    Turns(Head(chan[m]), d, clients[m][d].socket, clients'[m][d].socket)
<1>0. /\ chan \in [Mediators -> Seq(Updates)] /\ clients \in [Mediators -> [Dids -> Clients]]
      /\ task \in [Mediators -> {"up", "resubscribing", "dead", "down"}]
      /\ OwnQueue(m, chan[m]) /\ chan[m] # <<>> /\ task[m] = "up" /\ UNCHANGED sock
      /\ chan' = [chan EXCEPT ![m] = IF task'[m] = "dead" THEN <<>> ELSE Tail(@)]
  BY DEF StreamInv, StreamTypeOK, Addressed, TakeUpdate, Ready
<1>1. PICK q \in Seq(Updates) : q = chan[m]
  BY <1>0
<1>2. PICK u \in Updates : u = Head(q)
  BY <1>0, <1>1, TailElements
<1>3. 1 \in DOMAIN q /\ q[1] = u
  BY <1>0, <1>1, <1>2, TailElements
<1>4. u.did \in Dids /\ (u.kind = "register" => u.socket \in Sockets)
  BY <1>0, <1>1, <1>3 DEF Updates, OwnQueue
<1>5. TakeRegister(m, u, ok) \/ TakeToggle(m, u, ok) \/ TakeDeregister(m, u, ok)
  BY <1>1, <1>2 DEF TakeUpdate
<1>6. CASE (\A d \in Dids : clients[m][d] = NoClient) /\ OverflowChecks /\ TakeDeregister(m, u, ok)
  <2>1. /\ task' = [task EXCEPT ![m] = "dead"]
        /\ clients' = [clients EXCEPT ![m] = [d \in Dids |-> NoClient]]
        /\ UNCHANGED redisVars
    BY <1>6 DEF TakeDeregister
  <2>2. task'[m] = "dead" /\ clients'[m] = [d \in Dids |-> NoClient]
    BY <1>0, <2>1
  <2>3. chan'[m] = <<>>
    BY <1>0, <2>2
  <2>4. \A n \in Mediators \ {m} :
          task'[n] = task[n] /\ chan'[n] = chan[n] /\ clients'[n] = clients[n]
    BY <1>0, <2>1
  <2> QED BY <1>0, <2>1, <2>2, <2>3, <2>4
<1>7. CASE ~((\A d \in Dids : clients[m][d] = NoClient) /\ OverflowChecks /\ TakeDeregister(m, u, ok))
  <2>1. /\ task' = task
        /\ \A n \in Mediators \ {m} : clients'[n] = clients[n]
        /\ \A d \in Dids : Turns(u, d, clients[m][d].socket, clients'[m][d].socket)
    <3>1. CASE TakeRegister(m, u, ok)
      <4>1. PICK client \in Clients : /\ client = [socket |-> u.socket, active |-> FALSE]
                                      /\ client.socket = u.socket
        <5>1. u.socket \in Sockets \cup {None}
          BY DEF Updates
        <5>2. [socket |-> u.socket, active |-> FALSE] \in Clients
          BY <5>1 DEF Clients
        <5> QED BY <5>2
      <4>2. /\ task' = task /\ clients' = [clients EXCEPT ![m][u.did] = client]
            /\ u.kind = "register"
        BY <3>1, <4>1 DEF TakeRegister
      <4> QED BY <1>0, <1>4, <4>1, <4>2, NoneAssumption DEF Turns, Registers, Ends
    <3>2. CASE TakeToggle(m, u, ok)
      <4>1. task' = task /\ u.kind \in {"start", "stop"}
            /\ \/ clients' = clients
               \/ clients' = [clients EXCEPT ![m][u.did].active = (u.kind = "start")]
        BY <3>2 DEF TakeToggle
      <4>2. \A d \in Dids : clients[m][d] \in Clients
        BY <1>0
      <4>3. \A d \in Dids : clients'[m][d].socket = clients[m][d].socket
        <5>1. CASE clients' = clients
          BY <5>1
        <5>2. CASE clients' = [clients EXCEPT ![m][u.did].active = (u.kind = "start")]
          <6>1. PICK old \in Clients : old = clients[m][u.did]
            BY <1>4, <4>2
          <6>2. PICK client \in Clients : /\ client = [old EXCEPT !.active = (u.kind = "start")]
                                          /\ client.socket = old.socket
            <7>1. PICK b \in BOOLEAN : b = (u.kind = "start")
              OBVIOUS
            <7>2. [old EXCEPT !.active = b] \in Clients /\ [old EXCEPT !.active = b].socket = old.socket
              BY DEF Clients
            <7> QED BY <7>1, <7>2
          <6>3. clients' = [clients EXCEPT ![m][u.did] = client]
            BY <5>2, <6>1, <6>2
          <6> QED BY <1>0, <1>4, <6>1, <6>2, <6>3
        <5> QED BY <4>1, <5>1, <5>2
      <4>4. \A n \in Mediators \ {m} : clients'[n] = clients[n]
        BY <1>0, <4>1
      <4>5. \A d \in Dids : ~Registers(u, d) /\ ~Ends(u, d)
        BY <4>1 DEF Registers, Ends
      <4> QED BY <4>1, <4>3, <4>4, <4>5 DEF Turns
    <3>3. CASE TakeDeregister(m, u, ok)
      <4>1. u.kind = "deregister" /\ task' = task
            /\ clients' = [clients EXCEPT ![m][u.did] = NoClient]
        BY <1>7, <3>3 DEF TakeDeregister
      <4> QED BY <1>0, <1>4, <4>1 DEF Turns, Registers, Ends, NoClient
    <3> QED BY <1>5, <3>1, <3>2, <3>3
  <2>2. chan'[m] = Tail(chan[m]) /\ \A n \in Mediators \ {m} : chan'[n] = chan[n]
    BY <1>0, <2>1
  <2> QED BY <1>0, <1>1, <1>2, <2>1, <2>2
<1> QED BY <1>6, <1>7

LEMMA TaskInOrder ==
  ASSUME StreamInv, OrderInv, StreamInv', NEW m \in Mediators,
         NEW ok \in DbOutcomes, TakeUpdate(m, ok)
  PROVE  OrderInv'
<1>0. /\ chan[m] \in Seq(Updates) /\ clients[m] \in [Dids -> Clients]
      /\ clients'[m] \in [Dids -> Clients]
      /\ OwnQueue(m, chan[m]) /\ OwnMap(m, clients[m])
      /\ \A n \in Mediators : QueueOK(chan[n], clients[n], sock)
  BY DEF StreamInv, StreamTypeOK, Addressed, OrderInv
<1>1. /\ chan[m] # <<>> /\ UNCHANGED sock
      /\ \A n \in Mediators \ {m} : chan'[n] = chan[n] /\ clients'[n] = clients[n]
      /\ \/ chan'[m] = <<>> /\ clients'[m] = [d \in Dids |-> NoClient]
         \/ /\ chan'[m] = Tail(chan[m])
            /\ \A d \in Dids :
                 Turns(Head(chan[m]), d, clients[m][d].socket, clients'[m][d].socket)
  BY UpdateDone
<1>2. QueueOK(chan'[m], clients'[m], sock)
  <2>1. CASE chan'[m] = <<>> /\ clients'[m] = [d \in Dids |-> NoClient]
    <3>1. QueueOK(<<>>, clients'[m], sock)
      BY <2>1, EmptyQueue
    <3> QED BY <2>1, <3>1
  <2>2. CASE /\ chan'[m] = Tail(chan[m])
             /\ \A d \in Dids :
                  Turns(Head(chan[m]), d, clients[m][d].socket, clients'[m][d].socket)
    <3>1. PICK q \in Seq(Updates), map \in [Dids -> Clients], new \in [Dids -> Clients] :
            q = chan[m] /\ map = clients[m] /\ new = clients'[m]
      BY <1>0
    <3>2. /\ q # <<>> /\ QueueOK(q, map, sock) /\ OwnQueue(m, q) /\ OwnMap(m, map)
          /\ \A d \in Dids : Turns(Head(q), d, map[d].socket, new[d].socket)
      BY <1>0, <1>1, <2>2, <3>1
    <3>3. QueueOK(Tail(q), new, sock)
      BY <3>2, QueueShrinks
    <3> QED BY <2>2, <3>1, <3>3
  <2> QED BY <1>1, <2>1, <2>2
<1>3. ASSUME NEW n \in Mediators PROVE QueueOK(chan[n], clients[n], sock)'
  <2>1. CASE n = m
    BY <1>1, <1>2, <2>1
  <2>2. CASE n # m
    BY <1>0, <1>1, <2>2
  <2> QED BY <2>1, <2>2
<1> QED BY <1>3 DEF OrderInv

LEMMA ProcessInOrder ==
  ASSUME StreamInv, OrderInv, NEW m \in Mediators,
         \/ (\E ok \in DbOutcomes : TakePublished(m, ok)) \/ HandOver(m)
         \/ DropPubSub(m) \/ Resubscribe(m) \/ Crash(m)
         \/ \E cleaned, subscribed \in StartOutcomes : Restart(m, cleaned, subscribed)
  PROVE  OrderInv'
<1>1. CASE \/ (\E ok \in DbOutcomes : TakePublished(m, ok)) \/ HandOver(m)
           \/ DropPubSub(m) \/ Resubscribe(m)
           \/ \E cleaned, subscribed \in StartOutcomes : Restart(m, cleaned, subscribed)
  <2>1. UNCHANGED <<chan, clients, sock>>
    <3>0. ASSUME NEW ok \in DbOutcomes, TakePublished(m, ok)
          PROVE  UNCHANGED <<chan, clients, sock>>
      BY <3>0, Zenon DEF TakePublished
    <3>1. CASE HandOver(m)
      BY <3>1 DEF HandOver
    <3>2. CASE DropPubSub(m) \/ Resubscribe(m)
      BY <3>2 DEF DropPubSub, Resubscribe
    <3>3. CASE \E cleaned, subscribed \in StartOutcomes : Restart(m, cleaned, subscribed)
      BY <3>3 DEF Restart
    <3> QED BY <1>1, <3>0, <3>1, <3>2, <3>3
  <2> QED BY <2>1, OrderKept
<1>2. CASE Crash(m)
  <2>0. /\ clients \in [Mediators -> [Dids -> Clients]] /\ chan \in [Mediators -> Seq(Updates)]
        /\ \A n \in Mediators : /\ QueueOK(chan[n], clients[n], sock)
                                /\ OwnQueue(n, chan[n]) /\ OwnMap(n, clients[n])
    BY DEF StreamInv, StreamTypeOK, OrderInv, Addressed
  <2>1. /\ clients' = [clients EXCEPT ![m] = [d \in Dids |-> NoClient]]
        /\ chan' = [chan EXCEPT ![m] = <<>>]
        /\ sock' = [c \in Sockets |->
                      IF Home[c] = m /\ sock[c] # "new" THEN "closed" ELSE sock[c]]
    BY <1>2 DEF Crash
  <2>2. \A c \in Sockets : /\ Home[c] # m => sock'[c] = sock[c]
                           /\ sock'[c] = "new" => sock[c] = "new"
    BY <2>1
  <2>3. ASSUME NEW n \in Mediators PROVE QueueOK(chan[n], clients[n], sock)'
    <3>1. CASE n = m
      <4>1. PICK q, map : q = chan'[n] /\ map = clients'[n]
        OBVIOUS
      <4>2. q = <<>> /\ map = [d \in Dids |-> NoClient]
        BY <2>0, <2>1, <3>1, <4>1
      <4>3. QueueOK(<<>>, map, sock')
        BY <4>2, EmptyQueue
      <4> QED BY <4>1, <4>2, <4>3
    <3>2. CASE n # m
      <4>1. chan'[n] = chan[n] /\ clients'[n] = clients[n]
        BY <2>0, <2>1, <3>2
      <4>2. /\ chan[n] \in Seq(Updates) /\ clients[n] \in [Dids -> Clients]
            /\ QueueOK(chan[n], clients[n], sock) /\ OwnQueue(n, chan[n]) /\ OwnMap(n, clients[n])
        BY <2>0
      <4>3. QueueOK(chan[n], clients[n], sock')
        BY <2>2, <3>2, <4>2, QueueKept
      <4> QED BY <4>1, <4>3
    <3> QED BY <3>1, <3>2
  <2> QED BY <2>3 DEF OrderInv
<1> QED BY <1>1, <1>2

LEMMA OrderInvStep == StreamInv /\ StreamInv' /\ OrderInv /\ [StreamNext]_streamVars => OrderInv'
<1> SUFFICES ASSUME StreamInv, StreamInv', OrderInv, [StreamNext]_streamVars PROVE OrderInv'
  OBVIOUS
<1>1. CASE UNCHANGED streamVars
  <2>1. UNCHANGED <<chan, clients, sock>>
    BY <1>1 DEF streamVars, taskVars
  <2> QED BY <2>1, OrderKept
<1>2. ASSUME NEW m \in Mediators, TaskStep(m) \/ DropPubSub(m) \/ Crash(m) PROVE OrderInv'
  BY <1>2, TaskInOrder, ProcessInOrder DEF TaskStep
<1>3. ASSUME NEW m \in Mediators, NEW cleaned \in StartOutcomes, NEW subscribed \in StartOutcomes,
             Restart(m, cleaned, subscribed)
      PROVE  OrderInv'
  BY <1>3, ProcessInOrder
<1>4. ASSUME NEW m \in Mediators, NEW d \in Dids, NEW kind \in {"start", "stop"},
             RestToggle(m, d, kind)
      PROVE  OrderInv'
  <2>1. PICK u \in Updates : u = Update(kind, d, None) /\ u.kind # "register"
    BY UpdatesAreTyped
  <2>2. UNCHANGED <<clients, sock>> /\ chan' = [chan EXCEPT ![m] = Append(@, u)]
    BY <1>4, <2>1 DEF RestToggle, taskVars
  <2> QED BY <2>1, <2>2, OrderSent
<1>5. ASSUME NEW c \in Sockets, SocketStep(c) PROVE OrderInv'
  BY <1>5, HandlersInOrder
<1>6. ASSUME NEW p \in Senders, SenderStep(p) PROVE OrderInv'
  <2>1. UNCHANGED <<chan, clients, sock>>
    BY <1>6, SendersAssumption DEF SenderStep, SendMessage, Publish, taskVars
  <2> QED BY <2>1, OrderKept
<1> QED BY <1>1, <1>2, <1>3, <1>4, <1>5, <1>6 DEF StreamNext

LEMMA OrderInvHolds == StreamSpec => [](StreamInv /\ OrderInv)
<1>1. StreamInit => StreamInv /\ OrderInv
  BY StreamInvInit, OrderInvInit
<1>2. StreamInv /\ OrderInv /\ [StreamNext]_streamVars => (StreamInv /\ OrderInv)'
  BY StreamInvStep, OrderInvStep
<1> QED BY <1>1, <1>2, PTL DEF StreamSpec

-----------------------------------------------------------------------------
(* KeysInv *)

LEMMA KeysInvInit == StreamInit => KeysInv
BY NoneAssumption DEF StreamInit, KeysInv, NoEntry, NoClient

\* What one update does to the map and the keys, for its DID and for the others.
LEMMA KeysUpdated ==
  ASSUME StreamInv, KeysInv, NEW m \in Mediators, NEW ok \in DbOutcomes, TakeUpdate(m, ok)
  PROVE  KeysInv'
<1>0. /\ chan \in [Mediators -> Seq(Updates)] /\ clients \in [Mediators -> [Dids -> Clients]]
      /\ task \in [Mediators -> {"up", "resubscribing", "dead", "down"}]
      /\ live \in [Dids -> Entries] /\ sessions \in [Mediators -> SUBSET Dids]
      /\ stray \subseteq Mediators \X Dids
      /\ OwnQueue(m, chan[m]) /\ chan[m] # <<>> /\ task[m] = "up" /\ Up(m) /\ m # None
  BY NoneAssumption DEF StreamInv, StreamTypeOK, Addressed, TakeUpdate, Ready, Up
<1>1. PICK q \in Seq(Updates) : q = chan[m]
  BY <1>0
<1>2. PICK u \in Updates : u = Head(q)
  BY <1>0, <1>1, TailElements
<1>3. u.did \in Dids /\ (u.kind = "register" => u.socket \in Sockets)
  <2>1. 1 \in DOMAIN q /\ q[1] = u
    BY <1>0, <1>1, <1>2, TailElements
  <2> QED BY <1>0, <1>1, <2>1 DEF Updates, OwnQueue
<1>4. PICK d \in Dids : d = u.did
  BY <1>3
<1>5. TakeRegister(m, u, ok) \/ TakeToggle(m, u, ok) \/ TakeDeregister(m, u, ok)
  BY <1>1, <1>2 DEF TakeUpdate
<1>6. \A e \in Dids : live[e].uuid \in Mediators \cup {None}
  BY <1>0 DEF Entries
<1>7. ASSUME task' = task,
             \A n \in Mediators \ {m} : clients'[n] = clients[n] /\ sessions'[n] = sessions[n],
             \A e \in Dids \ {d} : /\ live'[e] = live[e] /\ clients'[m][e] = clients[m][e]
                                   /\ e \in sessions'[m] <=> e \in sessions[m],
             clients'[m][d].socket = None => clients'[m][d] = NoClient,
             live'[d].uuid = None => live'[d] = NoEntry,
             live'[d].uuid \in {m, None, live[d].uuid},
             stray \subseteq stray',
             \/ <<m, d>> \in stray'
             \/ /\ live'[d].uuid = m => d \in sessions'[m]
                /\ clients'[m][d].socket # None => d \in sessions'[m]
                /\ d \in sessions'[m] => clients'[m][d].socket # None
      PROVE  KeysInv'
  <2>2. \A e \in Dids : live'[e].uuid = None => live'[e] = NoEntry
    BY <1>7 DEF KeysInv
  <2>3. \A n \in Mediators, e \in Dids : clients'[n][e].socket = None => clients'[n][e] = NoClient
    BY <1>7 DEF KeysInv
  <2>4. ASSUME NEW n \in Mediators, NEW e \in Dids, <<n, e>> \notin stray'
        PROVE  /\ live'[e].uuid = n => e \in sessions'[n]
               /\ clients'[n][e].socket # None => e \in sessions'[n]
               /\ Up(n)' /\ e \in sessions'[n] => clients'[n][e].socket # None
    <3>1. <<n, e>> \notin stray
      BY <1>7, <2>4
    <3>2. /\ live[e].uuid = n => e \in sessions[n]
          /\ clients[n][e].socket # None => e \in sessions[n]
          /\ Up(n) /\ e \in sessions[n] => clients[n][e].socket # None
      BY <3>1 DEF KeysInv
    <3>3. Up(n)' <=> Up(n)
      BY <1>7 DEF Up
    <3>4. CASE n = m /\ e = d
      BY <1>7, <2>4, <3>4
    <3>5. CASE n = m /\ e # d
      BY <1>7, <3>2, <3>3, <3>5
    <3>6. CASE n # m
      <4>1. live'[e].uuid = n => live[e].uuid = n
        BY <1>7, <3>6, NoneAssumption
      <4>2. clients'[n] = clients[n] /\ sessions'[n] = sessions[n]
        BY <1>7, <3>6
      <4> QED BY <3>2, <3>3, <4>1, <4>2
    <3> QED BY <3>4, <3>5, <3>6
  <2> QED BY <2>2, <2>3, <2>4 DEF KeysInv
<1>8. /\ clients[m][d].socket = None => clients[m][d] = NoClient
      /\ live[d].uuid = None => live[d] = NoEntry
      /\ <<m, d>> \notin stray /\ clients[m][d].socket # None => d \in sessions[m]
      /\ NoClient.socket = None /\ NoEntry.uuid = None
  BY DEF KeysInv, NoClient, NoEntry
<1>9. CASE TakeRegister(m, u, ok)
  <2>1. PICK client : client = [socket |-> u.socket, active |-> FALSE] /\ client.socket # None
    BY <1>3, <1>9, NoneAssumption DEF TakeRegister
  <2>2. clients' = [clients EXCEPT ![m][d] = client] /\ task' = task
    BY <1>4, <1>9, <2>1 DEF TakeRegister
  <2>3. /\ clients'[m][d] = client /\ \A e \in Dids \ {d} : clients'[m][e] = clients[m][e]
        /\ \A n \in Mediators \ {m} : clients'[n] = clients[n]
    BY <1>0, <2>2
  <2>4. CASE ok
    <3>1. PICK entry \in Entries : entry = [uuid |-> m, live |-> FALSE] /\ entry.uuid = m
      <4>1. [uuid |-> m, live |-> FALSE] \in Entries /\ [uuid |-> m, live |-> FALSE].uuid = m
        BY DEF Entries
      <4> QED BY <4>1
    <3>2. /\ live' = [live EXCEPT ![d] = entry]
          /\ sessions' = [sessions EXCEPT ![m] = @ \cup {d}] /\ stray' = stray
      BY <1>4, <1>9, <2>4, <3>1 DEF TakeRegister
    <3>3. /\ live'[d].uuid = m /\ \A e \in Dids \ {d} : live'[e] = live[e]
          /\ sessions'[m] = sessions[m] \cup {d}
          /\ \A n \in Mediators \ {m} : sessions'[n] = sessions[n]
      BY <1>0, <3>1, <3>2
    <3>4. d \in sessions'[m] /\ \A e \in Dids \ {d} : e \in sessions'[m] <=> e \in sessions[m]
      BY <3>3
    <3> QED BY <1>0, <1>7, <2>1, <2>2, <2>3, <3>2, <3>3, <3>4
  <2>5. CASE ~ok
    <3>1. live' = live /\ sessions' = sessions /\ stray' = stray \cup {<<m, d>>}
      BY <1>4, <1>9, <2>5 DEF TakeRegister
    <3>2. <<m, d>> \in stray' /\ stray \subseteq stray'
      BY <3>1
    <3> QED BY <1>7, <1>8, <2>1, <2>2, <2>3, <3>1, <3>2
  <2> QED BY <2>4, <2>5
<1>10. CASE TakeToggle(m, u, ok)
  <2>1. /\ live'[d] = live[d] \/ (ok /\ live'[d].uuid = m)
        /\ \A e \in Dids \ {d} : live'[e] = live[e]
    <3>1. PICK b : b = (u.kind = "start")
      OBVIOUS
    <3>2. live' = IF ok THEN [live EXCEPT ![d] = [uuid |-> m, live |-> b]] ELSE live
      BY <1>4, <1>10, <3>1 DEF TakeToggle
    <3> QED BY <1>0, <3>2
  <2>2. task' = task /\ sessions' = sessions
    BY <1>10 DEF TakeToggle
  <2>3. CASE clients[m][d] = NoClient
    <3>1. clients' = clients /\ stray' = IF ok THEN stray \cup {<<m, d>>} ELSE stray
      BY <1>4, <1>10, <2>3 DEF TakeToggle
    <3>2. CASE ok
      <4>1. <<m, d>> \in stray' /\ stray \subseteq stray'
        BY <3>1, <3>2
      <4> QED BY <1>0, <1>7, <1>8, <2>1, <2>2, <3>1, <4>1
    <3>3. CASE ~ok
      <4>1. UNCHANGED <<task, clients, sessions, stray>> /\ \A e \in Dids : live'[e] = live[e]
        BY <2>1, <2>2, <3>1, <3>3
      <4> QED BY <4>1 DEF KeysInv, Up
    <3> QED BY <3>2, <3>3
  <2>4. CASE clients[m][d] # NoClient
    <3>1. PICK old \in Clients : old = clients[m][d] /\ old.socket # None
      BY <1>0, <1>8, <2>4
    <3>2. PICK client : client = [old EXCEPT !.active = (u.kind = "start")] /\ client.socket = old.socket
      <4>1. PICK b : b = (u.kind = "start")
        OBVIOUS
      <4>2. [old EXCEPT !.active = b].socket = old.socket
        BY DEF Clients
      <4> QED BY <4>1, <4>2
    <3>3. clients' = [clients EXCEPT ![m][d] = client] /\ stray' = stray
      BY <1>4, <1>10, <2>4, <3>1, <3>2 DEF TakeToggle
    <3>4. /\ clients'[m][d].socket = clients[m][d].socket /\ clients'[m][d].socket # None
          /\ \A e \in Dids \ {d} : clients'[m][e] = clients[m][e]
          /\ \A n \in Mediators \ {m} : clients'[n] = clients[n]
      BY <1>0, <3>1, <3>2, <3>3
    <3>5. <<m, d>> \notin stray => d \in sessions[m]
      BY <1>8, <3>1
    <3> QED BY <1>0, <1>7, <1>8, <2>1, <2>2, <3>3, <3>4, <3>5
  <2> QED BY <2>3, <2>4
<1>11. CASE TakeDeregister(m, u, ok)
  <2>1. CASE (\A e \in Dids : clients[m][e] = NoClient) /\ OverflowChecks
    <3>1. /\ task' = [task EXCEPT ![m] = "dead"] /\ UNCHANGED <<live, sessions, stray>>
          /\ clients' = [clients EXCEPT ![m] = [e \in Dids |-> NoClient]]
      BY <1>11, <2>1 DEF TakeDeregister, redisVars
    <3>2. \A n \in Mediators, e \in Dids : clients'[n][e] = clients[n][e]
      BY <1>0, <2>1, <3>1
    <3>3. \A n \in Mediators : Up(n)' => Up(n)
      BY <1>0, <3>1 DEF Up
    <3> QED BY <3>1, <3>2, <3>3 DEF KeysInv
  <2>2. CASE ~((\A e \in Dids : clients[m][e] = NoClient) /\ OverflowChecks)
    <3>1. task' = task /\ clients' = [clients EXCEPT ![m][d] = NoClient]
      BY <1>4, <1>11, <2>2 DEF TakeDeregister
    <3>2. /\ clients'[m][d] = NoClient /\ \A e \in Dids \ {d} : clients'[m][e] = clients[m][e]
          /\ \A n \in Mediators \ {m} : clients'[n] = clients[n]
      BY <1>0, <3>1
    <3>3. CASE ok
      <4>1. /\ live' = [live EXCEPT ![d] = NoEntry]
            /\ sessions' = [sessions EXCEPT ![m] = @ \ {d}] /\ stray' = stray
        BY <1>4, <1>11, <2>2, <3>3 DEF TakeDeregister
      <4>2. /\ live'[d] = NoEntry /\ \A e \in Dids \ {d} : live'[e] = live[e]
            /\ sessions'[m] = sessions[m] \ {d}
            /\ \A n \in Mediators \ {m} : sessions'[n] = sessions[n]
        BY <1>0, <4>1
      <4>3. d \notin sessions'[m] /\ \A e \in Dids \ {d} : e \in sessions'[m] <=> e \in sessions[m]
        BY <4>2
      <4> QED BY <1>0, <1>7, <1>8, <3>1, <3>2, <4>1, <4>2, <4>3
    <3>4. CASE ~ok
      <4>1. live' = live /\ sessions' = sessions /\ stray' = stray \cup {<<m, d>>}
        BY <1>4, <1>11, <2>2, <3>4 DEF TakeDeregister
      <4>2. <<m, d>> \in stray' /\ stray \subseteq stray'
        BY <4>1
      <4> QED BY <1>7, <1>8, <3>1, <3>2, <4>1, <4>2
    <3> QED BY <3>3, <3>4
  <2> QED BY <2>1, <2>2
<1> QED BY <1>5, <1>9, <1>10, <1>11

LEMMA KeysInvStep == StreamInv /\ KeysInv /\ [StreamNext]_streamVars => KeysInv'
<1> SUFFICES ASSUME StreamInv, KeysInv, [StreamNext]_streamVars PROVE KeysInv'
  OBVIOUS
<1>0. /\ task \in [Mediators -> {"up", "resubscribing", "dead", "down"}]
      /\ clients \in [Mediators -> [Dids -> Clients]]
      /\ live \in [Dids -> Entries] /\ sessions \in [Mediators -> SUBSET Dids]
      /\ pubsub \in [Mediators -> Seq(Published)]
      /\ None \notin Mediators
  BY NoneAssumption DEF StreamInv, StreamTypeOK
<1>1. ASSUME NEW m \in Mediators, NEW ok \in DbOutcomes, TakePublished(m, ok) PROVE KeysInv'
  <2>1. pubsub[m] \in Seq(Published) /\ pubsub[m] # <<>>
    BY <1>0, <1>1 DEF TakePublished
  <2>2. PICK msg \in Published : msg = Head(pubsub[m])
    BY <2>1, TailElements
  <2>3. msg.did \in Dids
    BY DEF Published
  <2>4. /\ UNCHANGED <<task, clients, sessions, stray>>
        /\ \/ live' = live
           \/ /\ clients[m][msg.did].socket # None
              /\ live' = [live EXCEPT ![msg.did] = [uuid |-> m, live |-> FALSE]]
    BY <1>1, <2>2 DEF TakePublished
  <2>5. ASSUME clients[m][msg.did].socket # None,
               live' = [live EXCEPT ![msg.did] = [uuid |-> m, live |-> FALSE]]
        PROVE  KeysInv'
    <3>1. live'[msg.did].uuid = m /\ \A d \in Dids \ {msg.did} : live'[d] = live[d]
      BY <1>0, <2>3, <2>5
    <3>2. <<m, msg.did>> \in stray \/ msg.did \in sessions[m]
      BY <2>3, <2>5 DEF KeysInv
    <3>3. \A d \in Dids : live'[d].uuid = None => live'[d] = NoEntry
      BY <1>0, <3>1 DEF KeysInv
    <3>4. ASSUME NEW n \in Mediators, NEW d \in Dids, <<n, d>> \notin stray, live'[d].uuid = n
          PROVE  d \in sessions[n]
      <4>1. CASE d = msg.did
        BY <3>1, <3>2, <3>4, <4>1
      <4>2. CASE d # msg.did
        BY <3>1, <3>4, <4>2 DEF KeysInv
      <4> QED BY <4>1, <4>2
    <3> QED BY <2>4, <3>3, <3>4 DEF KeysInv, Up
  <2>6. CASE live' = live
    BY <2>4, <2>6 DEF KeysInv, Up
  <2> QED BY <2>4, <2>5, <2>6
<1>2. ASSUME NEW m \in Mediators, Crash(m) PROVE KeysInv'
  <2>1. /\ task' = [task EXCEPT ![m] = "down"] /\ UNCHANGED <<live, sessions, stray>>
        /\ clients' = [clients EXCEPT ![m] = [d \in Dids |-> NoClient]]
    BY <1>2 DEF Crash, redisVars
  <2>2. /\ ~Up(m)' /\ \A n \in Mediators \ {m} : task'[n] = task[n] /\ clients'[n] = clients[n]
        /\ \A d \in Dids : clients'[m][d] = NoClient /\ NoClient.socket = None
    BY <1>0, <2>1 DEF Up, NoClient
  <2> QED BY <2>1, <2>2 DEF KeysInv, Up
<1>3. ASSUME NEW m \in Mediators, NEW cleaned \in StartOutcomes, NEW subscribed \in StartOutcomes,
             Restart(m, cleaned, subscribed)
      PROVE  KeysInv'
  <2>0. /\ clients' = clients /\ \A d \in Dids : clients[m][d].socket = None
        /\ \A n \in Mediators \ {m} : task'[n] = task[n]
    <3>1. clients' = clients /\ task[m] = "down" /\ \A n \in Mediators \ {m} : task'[n] = task[n]
      BY <1>0, <1>3 DEF Restart
    <3>2. clients[m] = [d \in Dids |-> NoClient]
      BY <3>1 DEF StreamInv, EmptyWhenDown, Up
    <3> QED BY <3>1, <3>2 DEF NoClient
  <2>1. CASE cleaned
    <3>1. /\ sessions' = [sessions EXCEPT ![m] = {}] /\ stray' = stray
          /\ live' = [d \in Dids |-> IF d \in sessions[m] THEN NoEntry ELSE live[d]]
      BY <1>3, <2>1 DEF Restart, CleanStart
    <3>2. /\ sessions'[m] = {} /\ \A n \in Mediators \ {m} : sessions'[n] = sessions[n]
          /\ \A d \in Dids : live'[d] = IF d \in sessions[m] THEN NoEntry ELSE live[d]
      BY <1>0, <3>1
    <3>3. \A d \in Dids : live'[d].uuid = None => live'[d] = NoEntry
      BY <3>2 DEF KeysInv
    <3>4. ASSUME NEW n \in Mediators, NEW d \in Dids, <<n, d>> \notin stray
          PROVE  /\ live'[d].uuid = n => d \in sessions'[n]
                 /\ clients'[n][d].socket # None => d \in sessions'[n]
                 /\ Up(n)' /\ d \in sessions'[n] => clients'[n][d].socket # None
      <4>1. /\ live[d].uuid = n => d \in sessions[n]
            /\ clients[n][d].socket # None => d \in sessions[n]
            /\ Up(n) /\ d \in sessions[n] => clients[n][d].socket # None
        BY <3>4 DEF KeysInv
      <4>2. CASE n = m
        <5>1. live'[d].uuid # m
          BY <1>0, <3>2, <4>1, <4>2 DEF NoEntry
        <5>2. d \notin sessions'[m] /\ clients'[m][d].socket = None
          BY <2>0, <3>2
        <5> QED BY <4>2, <5>1, <5>2
      <4>3. CASE n # m
        <5>1. live'[d].uuid = n => live[d].uuid = n
          <6>1. NoEntry.uuid # n
            BY <1>0 DEF NoEntry
          <6>2. live'[d] = NoEntry \/ live'[d] = live[d]
            BY <3>2
          <6> QED BY <6>1, <6>2
        <5>2. sessions'[n] = sessions[n] /\ clients' = clients /\ task'[n] = task[n]
          BY <2>0, <3>2, <4>3
        <5> QED BY <4>1, <5>1, <5>2 DEF Up
      <4> QED BY <4>2, <4>3
    <3> QED BY <2>0, <3>1, <3>3, <3>4 DEF KeysInv
  <2>2. CASE ~cleaned
    <3>1. UNCHANGED <<live, sessions, stray>> /\ ~Up(m)'
      BY <1>0, <1>3, <2>2 DEF Restart, redisVars, Up
    <3> QED BY <2>0, <3>1 DEF KeysInv, Up
  <2> QED BY <2>1, <2>2
<1>4. ASSUME UNCHANGED <<clients, live, sessions, stray>>, \A m \in Mediators : Up(m)' => Up(m)
      PROVE  KeysInv'
  BY <1>4 DEF KeysInv
<1>5. ASSUME NEW m \in Mediators, HandOver(m) \/ DropPubSub(m) \/ Resubscribe(m) PROVE KeysInv'
  <2>1. UNCHANGED <<clients, live, sessions, stray>>
    BY <1>5 DEF HandOver, DropPubSub, Resubscribe, redisVars
  <2>2. \A n \in Mediators : Up(n)' => Up(n)
    BY <1>0, <1>5 DEF HandOver, DropPubSub, Resubscribe, Up, Ready
  <2> QED BY <1>4, <2>1, <2>2
<1>6. ASSUME NEW m \in Mediators, NEW d \in Dids, NEW kind \in {"start", "stop"},
             RestToggle(m, d, kind)
      PROVE  KeysInv'
  BY <1>4, <1>6 DEF RestToggle, taskVars, redisVars, Up
<1>7. ASSUME NEW c \in Sockets, SocketStep(c) PROVE KeysInv'
  <2>1. UNCHANGED <<task, clients, live, sessions, stray>>
    BY <1>7 DEF SocketStep, Connect, ReceiveToggle, SendToggle, Forward, PeerCloses, ChannelCloses,
                Panic, Deregister, Reply, Publish, taskVars, redisVars
  <2> QED BY <1>4, <2>1 DEF Up
<1>8. ASSUME NEW p \in Senders, SenderStep(p) PROVE KeysInv'
  <2>1. UNCHANGED <<task, clients, live, sessions, stray>>
    BY <1>8 DEF SenderStep, SendMessage, Publish, taskVars, redisVars
  <2> QED BY <1>4, <2>1 DEF Up
<1>9. CASE UNCHANGED streamVars
  BY <1>4, <1>9 DEF streamVars, taskVars, redisVars, Up
<1> QED BY <1>1, <1>2, <1>3, <1>5, <1>6, <1>7, <1>8, <1>9, KeysUpdated DEF StreamNext, TaskStep

LEMMA KeysInvHolds == StreamSpec => [](StreamInv /\ OrderInv /\ KeysInv)
<1>1. StreamInit => KeysInv
  BY KeysInvInit
<1>2. StreamInv /\ KeysInv /\ [StreamNext]_streamVars => KeysInv'
  BY KeysInvStep
<1> QED BY <1>1, <1>2, OrderInvHolds, PTL DEF StreamSpec

\* Once the handlers of a DID have ended and the tasks have done what is queued,
\* GLOBAL_STREAMING says nothing about the DID, or names a mediator that wrote about
\* it without a registration, however many sockets of the DID overlapped and however
\* late publications, toggles and crashes came: a message for it is then stored and
\* not published to nobody.
THEOREM NothingIsLeftBehind == StreamSpec => []NoEntryWhenGone
<1>1. ASSUME StreamInv, OrderInv, KeysInv, NEW d \in Dids,
             \A c \in Sockets : Did[c] = d => sock[c] \in {"new", "closed"},
             \A m \in Mediators :
               task[m] \in {"up", "resubscribing"} /\ \A i \in DOMAIN chan[m] : chan[m][i].did # d
      PROVE  live[d] = NoEntry \/ <<live[d].uuid, d>> \in stray
  <2>0. live \in [Dids -> Entries] /\ clients \in [Mediators -> [Dids -> Clients]]
    BY <1>1 DEF StreamInv, StreamTypeOK
  <2>1. SUFFICES ASSUME live[d].uuid # None, <<live[d].uuid, d>> \notin stray PROVE FALSE
    BY <1>1 DEF KeysInv
  <2>2. PICK m \in Mediators : m = live[d].uuid
    BY <2>0, <2>1 DEF Entries
  <2>3. Up(m) /\ d \in sessions[m]
    BY <1>1, <2>1, <2>2 DEF KeysInv, Up
  <2>4. PICK c \in Sockets : c = clients[m][d].socket
    BY <1>1, <2>0, <2>1, <2>2, <2>3 DEF KeysInv, Clients
  <2>5. /\ clients[m][d].socket # None /\ OwnMap(m, clients[m])
        /\ QueueOK(chan[m], clients[m], sock)
    BY <1>1, <2>1, <2>2, <2>3 DEF KeysInv, StreamInv, Addressed, OrderInv
  <2>6. Did[c] = d /\ sock[c] # "new"
    BY <2>4, <2>5 DEF OwnMap, QueueOK, RegistersOnce
  <2>7. sock[c] = "closed"
    BY <1>1, <2>6
  <2>8. \E j \in DOMAIN chan[m] : Ends(chan[m][j], d)
    BY <2>4, <2>5, <2>7 DEF QueueOK, ClosedMeansDeregistered
  <2> QED BY <1>1, <2>8 DEF Ends
<1>2. StreamInv /\ OrderInv /\ KeysInv => NoEntryWhenGone
  BY <1>1 DEF NoEntryWhenGone
<1> QED BY <1>2, KeysInvHolds, PTL

\* Only a start brings a mediator back.
LEMMA OnlyAStartRevives ==
  ASSUME StreamInv, [StreamNext]_streamVars, NEW m \in Mediators, task[m] = "down", task'[m] = "up"
  PROVE  \E subscribed \in StartOutcomes : Restart(m, TRUE, subscribed)
<1>0. task \in [Mediators -> {"up", "resubscribing", "dead", "down"}]
  BY DEF StreamInv, StreamTypeOK
<1>1. ASSUME NEW n \in Mediators, TaskStep(n) \/ DropPubSub(n) \/ Crash(n) PROVE FALSE
  <2>1. ASSUME NEW ok \in DbOutcomes, TakePublished(n, ok) \/ TakeUpdate(n, ok) PROVE FALSE
    <3>1. CASE TakePublished(n, ok)
      BY <3>1 DEF TakePublished
    <3>2. CASE TakeUpdate(n, ok)
      <4>1. task[n] = "up" /\ \A k \in Mediators \ {n} : task'[k] = task[k]
        BY <3>2, UpdateDone
      <4> QED BY <4>1
    <3> QED BY <2>1, <3>1, <3>2
  <2>2. CASE HandOver(n)
    BY <2>2 DEF HandOver
  <2>3. CASE Resubscribe(n) \/ DropPubSub(n) \/ Crash(n)
    BY <1>0, <2>3 DEF Resubscribe, DropPubSub, Crash, Ready
  <2> QED BY <1>1, <2>1, <2>2, <2>3 DEF TaskStep
<1>2. ASSUME NEW n \in Mediators, NEW cleaned \in StartOutcomes, NEW subscribed \in StartOutcomes,
             Restart(n, cleaned, subscribed)
      PROVE  n = m /\ cleaned = TRUE
  BY <1>0, <1>2, DbAssumption DEF Restart
<1>3. ASSUME NEW n \in Mediators, NEW d \in Dids, NEW kind \in {"start", "stop"},
             RestToggle(n, d, kind)
      PROVE  FALSE
  BY <1>3 DEF RestToggle, taskVars
<1>4. ASSUME NEW c \in Sockets, SocketStep(c) PROVE FALSE
  BY <1>4 DEF SocketStep, Connect, ReceiveToggle, SendToggle, Forward, PeerCloses, ChannelCloses,
              Panic, Deregister, Reply, Publish, taskVars
<1>5. ASSUME NEW p \in Senders, SenderStep(p) PROVE FALSE
  BY <1>5 DEF SenderStep, SendMessage, Publish, taskVars
<1>6. CASE UNCHANGED streamVars
  BY <1>6 DEF streamVars, taskVars
<1> QED BY <1>1, <1>2, <1>3, <1>4, <1>5, <1>6 DEF StreamNext

\* clean_start_streaming, which only knows the DIDs listed in
\* STREAMING_SESSIONS:<uuid>, finds every DID that GLOBAL_STREAMING says is connected
\* to the mediator that crashed, but for those the mediator wrote about without a
\* registration.
THEOREM CleanStartFindsAll == StreamSpec => CleanStartCleans
<1>1. ASSUME StreamInv, KeysInv, [StreamNext]_streamVars, NEW m \in Mediators,
             task[m] = "down", task'[m] = "up", NEW d \in Dids, live'[d].uuid = m
      PROVE  <<m, d>> \in stray
  <2>1. PICK subscribed \in StartOutcomes : Restart(m, TRUE, subscribed)
    BY <1>1, OnlyAStartRevives
  <2>2. live'[d] = IF d \in sessions[m] THEN NoEntry ELSE live[d]
    BY <2>1 DEF Restart, CleanStart
  <2> QED BY <1>1, <2>2, NoneAssumption DEF KeysInv, NoEntry
<1>2. StreamInv /\ OrderInv /\ KeysInv /\ [StreamNext]_streamVars =>
        [\A m \in Mediators : task[m] = "down" /\ task'[m] = "up"
           => \A d \in Dids : live'[d].uuid = m => <<m, d>> \in stray]_streamVars
  BY <1>1
<1> QED BY <1>2, KeysInvHolds, PTL DEF StreamSpec, CleanStartCleans
=============================================================================
