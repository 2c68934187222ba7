------------------------------ MODULE Streaming ------------------------------
(***************************************************************************)
(* Live delivery: the WebSocket handlers, the streaming task of every      *)
(* mediator, and the two Redis keys they share.                            *)
(*                                                                         *)
(* A socket registers a channel (tx) with the task of its mediator and     *)
(* deregisters its DID when it ends.  Between the two it serves, one at a  *)
(* time, messages of its peer and messages from the task.  The task serves *)
(* pub/sub messages and updates; a send into a full channel blocks whoever *)
(* sends.  Anybody with a message for a DID first looks the DID up in      *)
(* GLOBAL_STREAMING and then, in a second call, publishes to the channel   *)
(* of the mediator it found.                                               *)
(*                                                                         *)
(* What the task does for one update (its map of clients and one Redis     *)
(* transaction) is one step: nobody else reads the map.                    *)
(***************************************************************************)
EXTENDS Naturals, FiniteSets, SequencesExt

CONSTANTS
  Mediators,       \* mediator instances, each with its streaming uuid
  Dids,
  None,            \* no socket, no mediator, no DID
  Sockets,         \* WebSocket connections, each used once
  Senders,         \* handlers of messages for DIDs, and REST sessions
  Did,             \* the DID of a socket
  Home,            \* the mediator a socket connects to
  ChannelCap,      \* capacity of the channel into the task (10)
  ClientCap,       \* capacity of the channel into a socket (5)
  OverflowChecks,  \* does the build panic on arithmetic overflow?
  Invalid,         \* do clients send pickup messages that fail validation?
  DbOutcomes,      \* outcomes of the task's Redis calls
  StartOutcomes,   \* outcomes of the clean start and of the subscription
  MaxPublished,    \* bound: messages looked up by senders
  MaxToggles,      \* bound: live-delivery changes by sockets
  MaxRestToggles,  \* bound: live-delivery changes by sessions without a socket
  MaxCrashes,      \* bound: crashes of mediators
  MaxDrops         \* bound: losses of a pub/sub connection

ASSUME SocketsAssumption == Did \in [Sockets -> Dids] /\ Home \in [Sockets -> Mediators]
ASSUME ChannelAssumption == ChannelCap \in Nat \ {0} /\ ClientCap \in Nat \ {0}
ASSUME BuildAssumption == OverflowChecks \in BOOLEAN /\ Invalid \in BOOLEAN
ASSUME DbAssumption ==
  /\ DbOutcomes \subseteq BOOLEAN /\ DbOutcomes # {}
  /\ StartOutcomes \subseteq BOOLEAN /\ StartOutcomes # {}
ASSUME NoneAssumption == None \notin Sockets \cup Mediators \cup Dids
ASSUME SendersAssumption == Senders \cap Sockets = {}

VARIABLES
  task,       \* the streaming task: "up", "resubscribing", "dead" or "down"
  sending,    \* the message the task is handing to a socket, or none
  clients,    \* the task's map: DID -> socket (its tx) and active
  chan,       \* updates on their way to the task
  pubsub,     \* pub/sub messages on their way to the task
  live,       \* GLOBAL_STREAMING: DID -> mediator and live
  sessions,   \* STREAMING_SESSIONS:<uuid>
  sock,       \* what a socket's handler is doing
  rx,         \* messages on their way from the task to a socket
  publisher,  \* the second call of a live publication, or none
  bounds,     \* how often the bounded events happened
  stray       \* history: <<mediator, DID>> where an entry was written for a DID that is
              \* not in the map, or Redis failed to register or deregister it

taskVars == <<task, sending, clients>>
redisVars == <<live, sessions, stray>>
streamVars == <<taskVars, chan, pubsub, redisVars, sock, rx, publisher, bounds>>

NoClient == [socket |-> None, active |-> FALSE]
NoEntry == [uuid |-> None, live |-> FALSE]
NoSend == [socket |-> None, did |-> None]
NoPublication == [uuid |-> None, did |-> None, forced |-> FALSE]

StreamInit ==
  /\ task = [m \in Mediators |-> "up"]
  /\ sending = [m \in Mediators |-> NoSend]
  /\ clients = [m \in Mediators |-> [d \in Dids |-> NoClient]]
  /\ chan = [m \in Mediators |-> <<>>]
  /\ pubsub = [m \in Mediators |-> <<>>]
  /\ live = [d \in Dids |-> NoEntry]
  /\ sessions = [m \in Mediators |-> {}]
  /\ sock = [c \in Sockets |-> "new"]
  /\ rx = [c \in Sockets |-> <<>>]
  /\ publisher = [p \in Sockets \cup Senders |-> NoPublication]
  /\ bounds = [published |-> 0, toggles |-> 0, rest |-> 0, crashes |-> 0, drops |-> 0]
  /\ stray = {}

Spend(kind, max) == bounds[kind] < max /\ bounds' = [bounds EXCEPT ![kind] = @ + 1]

-----------------------------------------------------------------------------
(* Channels *)

Update(kind, d, c) == [kind |-> kind, did |-> d, socket |-> c]

\* Sending an update waits for room; it fails when the task is gone.
CanSendUnbounded(m) == task[m] \in {"up", "resubscribing"}
CanSend(m) == task[m] \in {"up", "resubscribing"} /\ Len(chan[m]) < ChannelCap
SendFails(m) == task[m] = "dead"

\* The socket's tx is alive: still on its way to the task, or in its map.
Wired(c) ==
  \/ \E i \in DOMAIN chan[Home[c]] : chan[Home[c]][i].socket = c
  \/ \E d \in Dids : clients[Home[c]][d].socket = c
  \/ sending[Home[c]].socket = c

Running(c) == sock[c] \in {"open", "start", "stop", "reply", "closing"}

-----------------------------------------------------------------------------
(* handle_socket *)

\* The upgrade: hand the tx to the task, or give up when there is no task.
Connect(c) ==
  /\ sock[c] = "new"
  /\ \/ /\ CanSend(Home[c])
        /\ chan' = [chan EXCEPT ![Home[c]] = Append(@, Update("register", Did[c], c))]
        /\ sock' = [sock EXCEPT ![c] = "open"]
     \/ /\ SendFails(Home[c])
        /\ sock' = [sock EXCEPT ![c] = "closed"]
        /\ UNCHANGED chan
  /\ UNCHANGED <<taskVars, pubsub, redisVars, rx, publisher, bounds>>

\* The peer sends a live-delivery-change; the handler is busy with it until
\* the task has taken the update and the status reply is published.
ReceiveToggle(c, kind) ==
  /\ sock[c] = "open"
  /\ Spend("toggles", MaxToggles)
  /\ sock' = [sock EXCEPT ![c] = kind]
  /\ UNCHANGED <<taskVars, chan, pubsub, redisVars, rx, publisher>>

SendToggle(c) ==
  /\ sock[c] \in {"start", "stop"}
  /\ \/ /\ CanSend(Home[c])
        /\ chan' = [chan EXCEPT ![Home[c]] = Append(@, Update(sock[c], Did[c], None))]
        /\ sock' = [sock EXCEPT ![c] = "reply"]
     \/ /\ SendFails(Home[c])
        /\ sock' = [sock EXCEPT ![c] = "open"]
        /\ UNCHANGED chan
  /\ UNCHANGED <<taskVars, pubsub, redisVars, rx, publisher, bounds>>

\* A message of the task goes to the peer.
Forward(c) ==
  /\ sock[c] = "open"
  /\ rx[c] # <<>>
  /\ rx' = [rx EXCEPT ![c] = Tail(@)]
  /\ UNCHANGED <<taskVars, chan, pubsub, redisVars, sock, publisher, bounds>>

\* The peer closes the connection, or sends a message above the size limit.
PeerCloses(c) ==
  /\ sock[c] = "open"
  /\ sock' = [sock EXCEPT ![c] = "closing"]
  /\ UNCHANGED <<taskVars, chan, pubsub, redisVars, rx, publisher, bounds>>

ChannelClosesIgnored(c) ==
  /\ sock[c] = "open"
  /\ ~Wired(c)
  /\ UNCHANGED streamVars

\* rx.recv() returns None: every tx of this socket is dropped.
ChannelCloses(c) ==
  /\ sock[c] = "open"
  /\ rx[c] = <<>>
  /\ ~Wired(c)
  /\ sock' = [sock EXCEPT ![c] = "closing"]
  /\ UNCHANGED <<taskVars, chan, pubsub, redisVars, rx, publisher, bounds>>

\* A pickup message that fails _validate_msg: the unwrap panics and ends the
\* handler without deregistering.
Panic(c) ==
  /\ Invalid
  /\ sock[c] = "open"
  /\ sock' = [sock EXCEPT ![c] = "panicked"]
  /\ rx' = [rx EXCEPT ![c] = <<>>]
  /\ UNCHANGED <<taskVars, chan, pubsub, redisVars, publisher, bounds>>

Deregister(c) ==
  /\ sock[c] = "closing"
  /\ \/ /\ CanSend(Home[c])
        /\ chan' = [chan EXCEPT ![Home[c]] = Append(@, Update("deregister", Did[c], None))]
     \/ SendFails(Home[c]) /\ UNCHANGED chan
  /\ sock' = [sock EXCEPT ![c] = "closed"]
  /\ rx' = [rx EXCEPT ![c] = <<>>]
  /\ UNCHANGED <<taskVars, pubsub, redisVars, publisher, bounds>>

\* A toggle that comes over REST: no socket has to be registered.
RestToggle(m, d, kind) ==
  /\ Spend("rest", MaxRestToggles)
  /\ CanSend(m)
  /\ chan' = [chan EXCEPT ![m] = Append(@, Update(kind, d, None))]
  /\ UNCHANGED <<taskVars, pubsub, redisVars, sock, rx, publisher>>

-----------------------------------------------------------------------------
(* _try_live_stream: streaming_is_client_live, then streaming_publish_message *)

IsClientLive(d, forced) == live[d].uuid # None /\ (live[d].live \/ forced)

\* A look-up that Redis does not answer counts as "not live".
LookUp(p, d, forced, ok) ==
  /\ publisher[p] = NoPublication
  /\ publisher' = [publisher EXCEPT ![p] =
       IF ok /\ IsClientLive(d, forced)
       THEN [uuid |-> live[d].uuid, did |-> d, forced |-> forced]
       ELSE NoPublication]

\* handle_inbound for a message that somebody sends to d.
SendMessage(p, d, forced, ok) ==
  /\ Spend("published", MaxPublished)
  /\ LookUp(p, d, forced, ok)
  /\ UNCHANGED <<taskVars, chan, pubsub, redisVars, sock, rx>>

\* The status reply to a toggle, which is always forced; ok: Redis answers both
\* get_status_reply and the look-up.  Without the status there is no reply.
Reply(c, ok) ==
  /\ sock[c] = "reply"
  /\ LookUp(c, Did[c], TRUE, ok)
  /\ sock' = [sock EXCEPT ![c] = IF publisher'[c] = NoPublication THEN "open" ELSE @]
  /\ UNCHANGED <<taskVars, chan, pubsub, redisVars, rx, bounds>>

\* PUBLISH: nobody gets the message when the mediator is not subscribed, or when
\* the command fails.
Publish(p, ok) ==
  LET to == publisher[p].uuid IN
  /\ to # None
  /\ pubsub' = IF ok /\ task[to] = "up"
               THEN [pubsub EXCEPT ![to] =
                       Append(@, [did |-> publisher[p].did, forced |-> publisher[p].forced])]
               ELSE pubsub
  /\ publisher' = [publisher EXCEPT ![p] = NoPublication]
  /\ sock' = IF p \in Sockets THEN [sock EXCEPT ![p] = "open"] ELSE sock
  /\ UNCHANGED <<taskVars, chan, redisVars, rx, bounds>>

-----------------------------------------------------------------------------
(* ws_streaming_task *)

Ready(m) == task[m] = "up" /\ sending[m] = NoSend

TakePublishedUnknown(m, ok) ==
  LET msg == Head(pubsub[m])
      client == clients[m][msg.did]
      deliver == client.socket # None /\ (msg.forced \/ client.active)
  IN  /\ Ready(m)
      /\ pubsub[m] # <<>>
      /\ pubsub' = [pubsub EXCEPT ![m] = Tail(@)]
      /\ sending' = [sending EXCEPT ![m] =
           IF deliver THEN [socket |-> client.socket, did |-> msg.did] ELSE NoSend]
      /\ live' = IF ~deliver /\ ok
                 THEN [live EXCEPT ![msg.did] = [uuid |-> m, live |-> FALSE]]
                 ELSE live
      /\ UNCHANGED <<task, clients, chan, sessions, stray, sock, rx, publisher, bounds>>

TakePublishedAnyClient(m, ok) ==
  /\ Ready(m)
  /\ pubsub[m] # <<>>
  /\ pubsub' = [pubsub EXCEPT ![m] = Tail(@)]
  /\ \E d \in Dids : sending' = [sending EXCEPT ![m] =
       IF clients[m][d] = NoClient THEN NoSend
       ELSE [socket |-> clients[m][d].socket, did |-> Head(pubsub[m]).did]]
  /\ UNCHANGED <<task, clients, chan, redisVars, sock, rx, publisher, bounds>>

(***************************************************************************)
(* A pub/sub message: to the client when it is active or the message is    *)
(* forced, otherwise the client's entry in GLOBAL_STREAMING is set to not  *)
(* live; nothing happens for a DID that is not in the map.                 *)
(***************************************************************************)
TakePublished(m, ok) ==
  LET msg == Head(pubsub[m])
      client == clients[m][msg.did]
      known == client.socket # None
      deliver == known /\ (msg.forced \/ client.active)
  IN  /\ Ready(m)
      /\ pubsub[m] # <<>>
      /\ pubsub' = [pubsub EXCEPT ![m] = Tail(@)]
      /\ sending' = [sending EXCEPT ![m] =
           IF deliver THEN [socket |-> client.socket, did |-> msg.did] ELSE NoSend]
      /\ live' = IF known /\ ~deliver /\ ok
                 THEN [live EXCEPT ![msg.did] = [uuid |-> m, live |-> FALSE]]
                 ELSE live
      /\ UNCHANGED <<task, clients, chan, sessions, stray, sock, rx, publisher, bounds>>

HandOverOnlyIfRunning(m) ==
  LET c == sending[m].socket IN
  /\ c # None
  /\ Running(c)
  /\ Len(rx[c]) < ClientCap
  /\ rx' = [rx EXCEPT ![c] = Append(@, sending[m].did)]
  /\ sending' = [sending EXCEPT ![m] = NoSend]
  /\ UNCHANGED <<task, clients, chan, pubsub, redisVars, sock, publisher, bounds>>

\* tx.send(..).await: waits for room, fails when the socket's handler is gone.
HandOver(m) ==
  LET c == sending[m].socket IN
  /\ c # None
  /\ \/ /\ Running(c)
        /\ Len(rx[c]) < ClientCap
        /\ rx' = [rx EXCEPT ![c] = Append(@, sending[m].did)]
     \/ ~Running(c) /\ UNCHANGED rx
  /\ sending' = [sending EXCEPT ![m] = NoSend]
  /\ UNCHANGED <<task, clients, chan, pubsub, redisVars, sock, publisher, bounds>>

TakeRegister(m, u, ok) ==
  /\ u.kind = "register"
  /\ clients' = [clients EXCEPT ![m][u.did] = [socket |-> u.socket, active |-> FALSE]]
  /\ IF ok
     THEN /\ sessions' = [sessions EXCEPT ![m] = @ \cup {u.did}]
          /\ live' = [live EXCEPT ![u.did] = [uuid |-> m, live |-> FALSE]]
          /\ UNCHANGED stray
     ELSE stray' = stray \cup {<<m, u.did>>} /\ UNCHANGED <<live, sessions>>
  /\ UNCHANGED task

\* The entry is written whether or not the DID is in the map.
TakeToggle(m, u, ok) ==
  /\ u.kind \in {"start", "stop"}
  /\ clients' = IF clients[m][u.did] = NoClient THEN clients
                ELSE [clients EXCEPT ![m][u.did].active = (u.kind = "start")]
  /\ stray' = IF ok /\ clients[m][u.did] = NoClient THEN stray \cup {<<m, u.did>>} ELSE stray
  /\ live' = IF ok THEN [live EXCEPT ![u.did] = [uuid |-> m, live |-> u.kind = "start"]]
             ELSE live
  /\ UNCHANGED <<task, sessions>>

\* The log line computes clients.len() - 1, also when the map is empty.  A
\* task that panics drops its map and both its channels with what is in them.
TakeDeregister(m, u, ok) ==
  LET empty == \A d \in Dids : clients[m][d] = NoClient IN
  /\ u.kind = "deregister"
  /\ IF empty /\ OverflowChecks
     THEN /\ task' = [task EXCEPT ![m] = "dead"]
          /\ clients' = [clients EXCEPT ![m] = [d \in Dids |-> NoClient]]
          /\ UNCHANGED redisVars
     ELSE /\ clients' = [clients EXCEPT ![m][u.did] = NoClient]
          /\ IF ok
             THEN /\ sessions' = [sessions EXCEPT ![m] = @ \ {u.did}]
                  /\ live' = [live EXCEPT ![u.did] = NoEntry]
                  /\ UNCHANGED stray
             ELSE stray' = stray \cup {<<m, u.did>>} /\ UNCHANGED <<live, sessions>>
          /\ UNCHANGED task

TakeUpdate(m, ok) ==
  /\ Ready(m)
  /\ chan[m] # <<>>
  /\ LET u == Head(chan[m]) IN
       TakeRegister(m, u, ok) \/ TakeToggle(m, u, ok) \/ TakeDeregister(m, u, ok)
  /\ chan' = [chan EXCEPT ![m] = IF task'[m] = "dead" THEN <<>> ELSE Tail(@)]
  /\ pubsub' = [pubsub EXCEPT ![m] = IF task'[m] = "dead" THEN <<>> ELSE @]
  /\ UNCHANGED <<sending, sock, rx, publisher, bounds>>

\* The pub/sub connection is lost with the messages on it; the task opens a
\* new one, and until then serves no update either.
DropPubSub(m) ==
  /\ Ready(m)
  /\ Spend("drops", MaxDrops)
  /\ task' = [task EXCEPT ![m] = "resubscribing"]
  /\ pubsub' = [pubsub EXCEPT ![m] = <<>>]
  /\ UNCHANGED <<sending, clients, chan, redisVars, sock, rx, publisher>>

Resubscribe(m) ==
  /\ task[m] = "resubscribing"
  /\ task' = [task EXCEPT ![m] = "up"]
  /\ UNCHANGED <<sending, clients, chan, pubsub, redisVars, sock, rx, publisher, bounds>>

-----------------------------------------------------------------------------
(* The process *)

\* The mediator dies with its sockets; what it wrote to Redis stays.
Crash(m) ==
  /\ task[m] # "down"
  /\ Spend("crashes", MaxCrashes)
  /\ task' = [task EXCEPT ![m] = "down"]
  /\ sending' = [sending EXCEPT ![m] = NoSend]
  /\ clients' = [clients EXCEPT ![m] = [d \in Dids |-> NoClient]]
  /\ chan' = [chan EXCEPT ![m] = <<>>]
  /\ pubsub' = [pubsub EXCEPT ![m] = <<>>]
  /\ sock' = [c \in Sockets |->
                IF Home[c] = m /\ sock[c] # "new" THEN "closed" ELSE sock[c]]
  /\ rx' = [c \in Sockets |-> IF Home[c] = m THEN <<>> ELSE rx[c]]
  /\ publisher' = [p \in Sockets \cup Senders |->
                     IF p \in Sockets /\ Home[p] = m THEN NoPublication ELSE publisher[p]]
  /\ UNCHANGED redisVars

CleanStartLocal(m) ==
  /\ sessions' = [sessions EXCEPT ![m] = {}]
  /\ UNCHANGED <<live, stray>>

\* clean_start_streaming: every session of this mediator leaves both keys.
CleanStart(m) ==
  /\ sessions' = [sessions EXCEPT ![m] = {}]
  /\ live' = [d \in Dids |-> IF d \in sessions[m] THEN NoEntry ELSE live[d]]
  /\ UNCHANGED stray

\* The task ends when the clean start or the subscription fails.
Restart(m, cleaned, subscribed) ==
  /\ task[m] = "down"
  /\ IF cleaned THEN CleanStart(m) ELSE UNCHANGED redisVars
  /\ task' = [task EXCEPT ![m] = IF cleaned /\ subscribed THEN "up" ELSE "dead"]
  /\ UNCHANGED <<sending, clients, chan, pubsub, sock, rx, publisher, bounds>>

TaskStep(m) ==
  \/ \E ok \in DbOutcomes : TakePublished(m, ok) \/ TakeUpdate(m, ok)
  \/ HandOver(m)
  \/ Resubscribe(m)

SocketStep(c) ==
  \/ Connect(c)
  \/ \E kind \in {"start", "stop"} : ReceiveToggle(c, kind)
  \/ SendToggle(c)
  \/ Forward(c)
  \/ PeerCloses(c)
  \/ ChannelCloses(c)
  \/ Panic(c)
  \/ Deregister(c)
  \/ \E ok \in BOOLEAN : Reply(c, ok) \/ Publish(c, ok)

SenderStep(p) ==
  \/ \E d \in Dids, forced, ok \in BOOLEAN : SendMessage(p, d, forced, ok)
  \/ \E ok \in BOOLEAN : Publish(p, ok)

StreamNext ==
  \/ \E m \in Mediators : TaskStep(m) \/ DropPubSub(m) \/ Crash(m)
  \/ \E m \in Mediators, cleaned, subscribed \in StartOutcomes :
       Restart(m, cleaned, subscribed)
  \/ \E m \in Mediators, d \in Dids, kind \in {"start", "stop"} : RestToggle(m, d, kind)
  \/ \E c \in Sockets : SocketStep(c)
  \/ \E p \in Senders : SenderStep(p)

StreamSpec == StreamInit /\ [][StreamNext]_streamVars

(***************************************************************************)
(* Fairness: tokio keeps polling a task and a handler that can go on, and  *)
(* a peer reads what its socket is sent.  Nobody has to connect, to toggle *)
(* or to send, and a mediator that crashed may stay down.                  *)
(***************************************************************************)
StreamFairness ==
  /\ \A m \in Mediators : WF_streamVars(TaskStep(m))
  /\ \A c \in Sockets :
       /\ WF_streamVars(SendToggle(c))
       /\ WF_streamVars(Forward(c))
       /\ WF_streamVars(ChannelCloses(c))
       /\ WF_streamVars(Deregister(c))
       /\ WF_streamVars(\E ok \in BOOLEAN : Reply(c, ok) \/ Publish(c, ok))

FairStreamSpec == StreamSpec /\ StreamFairness

-----------------------------------------------------------------------------
(* Properties *)

Clients == [socket : Sockets \cup {None}, active : BOOLEAN]
Entries == [uuid : Mediators \cup {None}, live : BOOLEAN]
Updates == [kind : {"register", "start", "stop", "deregister"}, did : Dids,
            socket : Sockets \cup {None}]
Published == [did : Dids, forced : BOOLEAN]

\* The shape of the state; no channel holds more than its capacity.
StreamTypeOK ==
  /\ task \in [Mediators -> {"up", "resubscribing", "dead", "down"}]
  /\ sending \in [Mediators -> [socket : Sockets \cup {None}, did : Dids \cup {None}]]
  /\ clients \in [Mediators -> [Dids -> Clients]]
  /\ chan \in [Mediators -> Seq(Updates)]
  /\ \A m \in Mediators : Len(chan[m]) <= ChannelCap
  /\ pubsub \in [Mediators -> Seq(Published)]
  /\ live \in [Dids -> Entries]
  /\ sessions \in [Mediators -> SUBSET Dids]
  /\ sock \in [Sockets -> {"new", "open", "start", "stop", "reply", "closing",
                           "closed", "panicked"}]
  /\ rx \in [Sockets -> Seq(Dids)]
  /\ \A c \in Sockets : Len(rx[c]) <= ClientCap
  /\ publisher \in [Sockets \cup Senders ->
                      [uuid : Mediators \cup {None}, did : Dids \cup {None}, forced : BOOLEAN]]
  /\ bounds \in [{"published", "toggles", "rest", "crashes", "drops"} -> Nat]
  /\ stray \subseteq Mediators \X Dids

\* A socket is only ever handed messages for the DID of its session, whatever
\* order sockets, toggles, crashes and publications come in.
DeliveredToOwner ==
  \A c \in Sockets : \A i \in DOMAIN rx[c] : rx[c][i] = Did[c]

\* When the last socket of a DID has ended, no update about it is queued and no
\* mediator is without its task, GLOBAL_STREAMING says nothing about the DID, or
\* names a mediator that wrote about the DID without a registration of it: a late
\* publication, a toggle that was overtaken by the end of its socket, a second
\* socket and a crash that the mediator came back from leave no entry.
NoEntryWhenGone ==
  \A d \in Dids :
    (/\ \A c \in Sockets : Did[c] = d => sock[c] \in {"new", "closed"}
     /\ \A m \in Mediators :
          task[m] \in {"up", "resubscribing"} /\ \A i \in DOMAIN chan[m] : chan[m][i].did # d)
    => live[d] = NoEntry \/ <<live[d].uuid, d>> \in stray

\* After the clean start of a mediator that crashed, no DID is listed as
\* connected to it, but for those it wrote about without a registration.
CleanStartCleans ==
  [][\A m \in Mediators : task[m] = "down" /\ task'[m] = "up"
       => \A d \in Dids : live'[d].uuid = m => <<m, d>> \in stray]_streamVars

\* Ending one socket never takes away the registration of another one that is
\* still connected: only the clients of sockets that are ending, or that were
\* replaced by a newer socket, leave the map of a running task.
RemovesOnlyItsOwn ==
  [][\A m \in Mediators, d \in Dids :
       LET c == clients[m][d].socket IN
       c # None /\ clients'[m][d].socket = None /\ task'[m] # "down"
         => sock[c] \in {"closing", "closed", "panicked"}]_streamVars

\* The task waits for room in the channel of a socket whose handler waits for
\* room in the channel of the task.
MutualWait(m) ==
  LET c == sending[m].socket IN
  /\ c # None
  /\ sock[c] \in {"start", "stop", "closing"}
  /\ Len(chan[m]) = ChannelCap
  /\ Len(rx[c]) = ClientCap

\* The task hands over every message it has taken, or is in a mutual wait with
\* the receiving socket: nothing else can hold up the task of a mediator, the
\* end of the receiving handler in particular.
TaskProgress ==
  \A m \in Mediators :
    sending[m] # NoSend ~> sending[m] = NoSend \/ MutualWait(m)

\* A socket that lost its registration to a newer one ends, unless the task it
\* waits for is in a mutual wait.
SupersededEnds ==
  \A c \in Sockets :
    sock[c] = "open" /\ ~Wired(c)
      ~> sock[c] \in {"closing", "closed", "panicked"} \/ MutualWait(Home[c])
==============================================================================
