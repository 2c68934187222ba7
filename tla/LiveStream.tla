----------------------------- MODULE LiveStream -----------------------------
(***************************************************************************)
(* The WebSocket side of the SDK: the task ws_handler, the two channels    *)
(* between it and the application, and the calls of the application        *)
(* (ws_send_didcomm_message, live_stream_next, live_stream_get,            *)
(* next_message, try_next_message, abort_websocket_task, and the calls of  *)
(* Message Pickup, which send a request and get its answer).               *)
(*                                                                         *)
(* ATM is borrowed mutably by a call, so there is one call at a time; the  *)
(* application may drop its future at any await (Cancel).                  *)
(*                                                                         *)
(* The task passes every message on at once: the branch that would put it  *)
(* into the message cache is switched off ("if true //cache.next_flag"),   *)
(* so the cache stays empty, is never full, and what is left of it is the  *)
(* list of the ids that gets look for.                                     *)
(***************************************************************************)
EXTENDS Naturals, SequencesExt

CONSTANTS
  Messages,     \* messages the mediator may deliver
  Keys,         \* ids and thread ids
  KeyOf,        \* what a message is searched by: its thid, its id without one
  Unreadable,   \* those of Messages that are no text or do not unpack
  Requests,     \* keys of messages that are answers to a request
  Wanted,       \* keys that the application looks for
  NoKey,
  CommandCap,   \* capacity of the channel into the task (32)
  EventCap,     \* capacity of the channel into the application (32)
  Cancels,      \* does the application drop the futures of calls?
  MaxCalls      \* bound: calls of the application

ASSUME KeysAssumption ==
  /\ KeyOf \in [Messages -> Keys]
  /\ Unreadable \subseteq Messages
  /\ Requests \subseteq Keys /\ Wanted \subseteq Keys
  /\ NoKey \notin Keys
ASSUME CapacityAssumption == CommandCap \in Nat \ {0} /\ EventCap \in Nat \ {0}
ASSUME CancelsAssumption == Cancels \in BOOLEAN
ASSUME MaxCallsAssumption == MaxCalls \in Nat

VARIABLES
  handler,    \* the task: "starting", "running" or "ended"
  socket,     \* messages that arrived and the task has not read
  search,     \* the search list
  out,        \* what the task is in the middle of sending to the application
  commands,   \* the channel into the task
  events,     \* the channel into the application
  call,       \* the call that is running, or Idle
  answered,   \* requests that went out on the socket
  arrivals,   \* history: the messages in the order of arrival
  taken,      \* history: the messages the application was given
  gets,       \* history: keys the application asked for
  calls       \* number of calls so far

taskVars == <<handler, socket, search, out>>
liveVars == <<taskVars, commands, events, call, answered, arrivals, taken, gets, calls>>

Event(kind, m) == [kind |-> kind, msg |-> m]
Message(m) == Event("message", m)
Started == [kind |-> "started"]
NotFound == [kind |-> "notfound"]

\* more: how many gets the call still has to make after this one; took: it has
\* taken the answer in one of them.
Call(op, pc, key, limited) ==
  [op |-> op, pc |-> pc, key |-> key, limited |-> limited, more |-> 0, took |-> FALSE]
Idle == Call("none", "idle", NoKey, FALSE)

\* send_status_request gets its answer once; send_delivery_request and
\* send_messages_received first get it only to log it.  All of them pass their
\* wait on to the gets: ten seconds, what the application says, or 0, with
\* which the branch of the timer is off and the get has no limit.
PickupCall(key, more, limited) ==
  [Call("pickup", "sending", key, limited) EXCEPT !.more = more]

\* start_websocket_task has made the channels and spawned the task, and waits
\* for Started.
LiveInit ==
  /\ handler = "starting"
  /\ socket = <<>> /\ search = {} /\ out = <<>>
  /\ commands = <<>> /\ events = <<>>
  /\ call = Call("start", "waiting", NoKey, FALSE)
  /\ answered = {}
  /\ arrivals = <<>> /\ taken = <<>>
  /\ gets = {}
  /\ calls = 0

-----------------------------------------------------------------------------
(* The mediator *)

\* A message arrives, an answer only after its request.
Arrive(m) ==
  /\ handler = "running"
  /\ m \notin ToSet(arrivals)
  /\ KeyOf[m] \in Requests => KeyOf[m] \in answered
  /\ socket' = Append(socket, m)
  /\ arrivals' = Append(arrivals, m)
  /\ UNCHANGED <<handler, search, out, commands, events, call, answered, taken, gets, calls>>

-----------------------------------------------------------------------------
(* ws_handler *)

\* The task ends: socket and receiver of commands are dropped.
EndTask ==
  /\ handler' = "ended"
  /\ socket' = <<>>
  /\ commands' = <<>>
  /\ UNCHANGED <<search, out, answered>>

StartTask ==
  /\ handler = "starting"
  /\ \/ /\ handler' = "running"
        /\ out' = <<Started>>
        /\ UNCHANGED <<socket, search, commands, answered>>
     \/ EndTask
  /\ UNCHANGED <<events, call, arrivals, taken, gets, calls>>

Ready == handler = "running" /\ out = <<>>

\* Every send to the application waits for room.
PutUnbounded ==
  /\ out # <<>>
  /\ events' = Append(events, Head(out))
  /\ out' = Tail(out)
  /\ UNCHANGED <<handler, socket, search, commands, call, answered, arrivals, taken,
                 gets, calls>>

Put ==
  /\ out # <<>>
  /\ Len(events) < EventCap
  /\ events' = Append(events, Head(out))
  /\ out' = Tail(out)
  /\ UNCHANGED <<handler, socket, search, commands, call, answered, arrivals, taken,
                 gets, calls>>

FoundAlways(m) == TRUE
Found(m) == KeyOf[m] \in search

\* A message somebody searches for is sent once for the search list, and then
\* once more as every message is.
Copies(m) == IF Found(m) THEN <<Message(m), Message(m)>> ELSE <<Message(m)>>

MayReadWhenNotSearching == search = {}
MayRead == TRUE

\* What cannot be read is logged and dropped, also when somebody searches for it.
ReadSocket ==
  /\ Ready
  /\ MayRead
  /\ socket # <<>>
  /\ socket' = Tail(socket)
  /\ IF Head(socket) \in Unreadable
     THEN UNCHANGED <<out, search>>
     ELSE /\ out' = Copies(Head(socket))
          /\ search' = search \ {KeyOf[Head(socket)]}
  /\ UNCHANGED <<handler, commands, events, call, answered, arrivals, taken, gets, calls>>

\* The cache has nothing: a Next is not answered, a Get with NotFound.
ServeNext(c) ==
  /\ c.op = "next"
  /\ commands' = Tail(commands)
  /\ UNCHANGED <<taskVars, answered>>

ServeGet(c) ==
  /\ c.op = "get"
  /\ search' = search \cup {c.key}
  /\ out' = <<NotFound>>
  /\ commands' = Tail(commands)
  /\ UNCHANGED <<handler, socket, answered>>

ServeTimeOut(c) ==
  /\ c.op = "timeout"
  /\ search' = search \ {c.key}
  /\ commands' = Tail(commands)
  /\ UNCHANGED <<handler, socket, out, answered>>

\* A send that fails ends the task.
ServeSend(c) ==
  /\ c.op = "send"
  /\ \/ /\ answered' = answered \cup {c.key}
        /\ commands' = Tail(commands)
        /\ UNCHANGED taskVars
     \/ EndTask

ServeExit(c) == c.op = "exit" /\ EndTask

TakeCommand ==
  /\ Ready
  /\ commands # <<>>
  /\ LET c == Head(commands) IN
       ServeNext(c) \/ ServeGet(c) \/ ServeTimeOut(c) \/ ServeSend(c) \/ ServeExit(c)
  /\ UNCHANGED <<events, call, arrivals, taken, gets, calls>>

\* web_socket.next() returns None: the mediator closed the connection, or it
\* broke and what was on it is lost.
SocketCloses ==
  /\ Ready
  /\ EndTask
  /\ UNCHANGED <<events, call, arrivals, taken, gets, calls>>

HandlerStep == StartTask \/ Put \/ ReadSocket \/ TakeCommand

-----------------------------------------------------------------------------
(* The calls of the application *)

Finish == call' = Idle

NextGet(took) ==
  call' = [Call("get", "sending", call.key, call.limited) EXCEPT
             !.more = call.more - 1, !.took = took]

\* A get returns, with a message or without: a pickup call that has another get
\* to make goes on.
GetReturns(answer) ==
  IF call.more > 0 THEN NextGet(call.took \/ answer) ELSE Finish

\* Send, Exit, Next and Get start with a command; next_message does not send
\* one and has no time limit.
Begin(op, key, limited) ==
  /\ call = Idle
  /\ calls < MaxCalls
  /\ calls' = calls + 1
  /\ call' = Call(op, IF op = "await" THEN "waiting" ELSE "sending", key, limited)
  /\ gets' = IF op = "get" THEN gets \cup {key} ELSE gets
  /\ UNCHANGED <<taskVars, commands, events, answered, arrivals, taken>>

BeginPickup(key, more, limited) ==
  /\ call = Idle
  /\ calls < MaxCalls
  /\ calls' = calls + 1
  /\ call' = PickupCall(key, more, limited)
  /\ gets' = gets \cup {key}
  /\ UNCHANGED <<taskVars, commands, events, answered, arrivals, taken>>

\* A toggle of live delivery and a trust ping are sent without a wait: whatever
\* comes back is a message like others.
ToggleLiveDelivery(key) == Begin("send", key, FALSE)
SendPing(key) == Begin("send", key, FALSE)

SendStatusRequest(key, limited) == BeginPickup(key, 1, limited)
SendDeliveryRequest(key, limited) == BeginPickup(key, 2, limited)
SendMessagesReceived(key, limited) == BeginPickup(key, 2, limited)

Command(op, key) == [op |-> op, key |-> key]

\* What follows when the command is in the channel.
Sent ==
  CASE call.op \in {"next", "get"} -> call' = [call EXCEPT !.pc = "waiting"]
    [] call.op = "pickup" -> NextGet(FALSE)
    [] OTHER -> Finish

\* The request of a pickup call is a message like others.
ToSend == Command(IF call.op = "pickup" THEN "send" ELSE call.op, call.key)

\* A send waits for room; it fails when the task has ended.
SendCommandToAnyTask ==
  /\ call.pc = "sending"
  /\ handler # "ended"
  /\ Len(commands) < CommandCap
  /\ commands' = Append(commands, ToSend)
  /\ Sent
  /\ UNCHANGED <<taskVars, events, answered, arrivals, taken, gets, calls>>

SendCommand ==
  /\ call.pc = "sending"
  /\ \/ /\ handler = "ended"
        /\ Finish
        /\ UNCHANGED commands
     \/ /\ handler # "ended"
        /\ Len(commands) < CommandCap
        /\ commands' = Append(commands, ToSend)
        /\ Sent
  /\ UNCHANGED <<taskVars, events, answered, arrivals, taken, gets, calls>>

Give(e) == taken' = IF e.kind = "message" THEN Append(taken, e.msg) ELSE taken

\* Whatever comes first ends the wait; a get waits on after a NotFound, and what
\* is no message is an error, also for a pickup call.
ReceiveOnlyAsked ==
  LET e == Head(events) IN
  /\ call.pc = "waiting"
  /\ events # <<>>
  /\ events' = Tail(events)
  /\ IF call.op = "get" /\ (e.kind # "message" \/ KeyOf[e.msg] # call.key)
     THEN UNCHANGED <<call, taken>>
     ELSE GetReturns(TRUE) /\ Give(e)
  /\ UNCHANGED <<taskVars, commands, answered, arrivals, gets, calls>>

Receive ==
  LET e == Head(events) IN
  /\ call.pc = "waiting"
  /\ events # <<>>
  /\ events' = Tail(events)
  /\ IF call.op = "get" /\ e = NotFound THEN UNCHANGED call
     ELSE IF e.kind = "message" THEN GetReturns(KeyOf[e.msg] = call.key)
     ELSE Finish
  /\ Give(e)
  /\ UNCHANGED <<taskVars, commands, answered, arrivals, gets, calls>>

\* recv() returns None: the task has dropped its sender.
ReceiveNone ==
  /\ call.pc = "waiting"
  /\ handler = "ended" /\ events = <<>>
  /\ GetReturns(FALSE)
  /\ UNCHANGED <<taskVars, commands, events, answered, arrivals, taken, gets, calls>>

\* The time limit, if there is one.  A get tells the task.
TimesOut ==
  /\ call.pc = "waiting" /\ call.limited
  /\ call' = IF call.op = "get" THEN [call EXCEPT !.pc = "expiring"] ELSE Idle
  /\ UNCHANGED <<taskVars, commands, events, answered, arrivals, taken, gets, calls>>

SendTimeOut ==
  /\ call.pc = "expiring"
  /\ \/ /\ handler = "ended"
        /\ Finish
        /\ UNCHANGED commands
     \/ /\ handler # "ended"
        /\ Len(commands) < CommandCap
        /\ commands' = Append(commands, Command("timeout", call.key))
        /\ GetReturns(FALSE)
  /\ UNCHANGED <<taskVars, events, answered, arrivals, taken, gets, calls>>

\* try_next_message: what is first in the channel, and nothing if it is no message.
TryNext ==
  /\ call = Idle
  /\ events # <<>>
  /\ events' = Tail(events)
  /\ Give(Head(events))
  /\ UNCHANGED <<taskVars, commands, call, answered, arrivals, gets, calls>>

\* The application drops the future of the call.
Cancel ==
  /\ Cancels
  /\ call # Idle
  /\ Finish
  /\ UNCHANGED <<taskVars, commands, events, answered, arrivals, taken, gets, calls>>

BeginCall ==
  \/ \E q \in Requests :
       \/ ToggleLiveDelivery(q) \/ SendPing(q)
       \/ \E limited \in BOOLEAN :
            \/ SendStatusRequest(q, limited)
            \/ SendDeliveryRequest(q, limited)
            \/ SendMessagesReceived(q, limited)
  \/ \E op \in {"exit", "await"} : Begin(op, NoKey, FALSE)
  \/ \E limited \in BOOLEAN :
       Begin("next", NoKey, limited) \/ \E k \in Wanted : Begin("get", k, limited)

LiveNext ==
  \/ \E m \in Messages : Arrive(m)
  \/ HandlerStep
  \/ SocketCloses
  \/ BeginCall
  \/ SendCommand \/ Receive \/ ReceiveNone \/ TimesOut \/ SendTimeOut
  \/ TryNext
  \/ Cancel

LiveSpec == LiveInit /\ [][LiveNext]_liveVars

(***************************************************************************)
(* Fairness: tokio polls the task and the running call when they can go    *)
(* on.  Nothing has to arrive, and the application need not call.          *)
(***************************************************************************)
LiveFairness ==
  /\ WF_liveVars(HandlerStep)
  /\ WF_liveVars(SendCommand)
  /\ WF_liveVars(Receive)
  /\ WF_liveVars(ReceiveNone)
  /\ WF_liveVars(TimesOut)
  /\ WF_liveVars(SendTimeOut)

FairLiveSpec == LiveSpec /\ LiveFairness

-----------------------------------------------------------------------------
(* Properties *)

Events == [kind : {"message"}, msg : Messages] \cup {Started, NotFound}
Ops == {"none", "start", "send", "pickup", "exit", "await", "next", "get"}
Commands == [op : {"send", "exit", "next", "get", "timeout"}, key : Keys \cup {NoKey}]

\* The shape of the state; no channel holds more than its capacity, and the
\* task is never in the middle of more than two sends.
LiveTypeOK ==
  /\ handler \in {"starting", "running", "ended"}
  /\ socket \in Seq(Messages)
  /\ search \subseteq Keys
  /\ out \in Seq(Events) /\ Len(out) <= 2
  /\ commands \in Seq(Commands) /\ Len(commands) <= CommandCap
  /\ events \in Seq(Events) /\ Len(events) <= EventCap
  /\ call \in [op : Ops, pc : {"idle", "sending", "waiting", "expiring"},
               key : Keys \cup {NoKey}, limited : BOOLEAN, more : 0..2, took : BOOLEAN]
  /\ answered \subseteq Requests
  /\ arrivals \in Seq(Messages) /\ taken \in Seq(Messages)
  /\ gets \subseteq Keys
  /\ calls \in 0..MaxCalls

(***************************************************************************)
(* What the task has passed on, in the order the application gets or got   *)
(* it; the messages among the first n of it; of the messages that arrived  *)
(* first, those that can be read.                                          *)
(***************************************************************************)
Passed == [i \in DOMAIN taken |-> Message(taken[i])] \o events \o out
SeenIn(passed, n) == {passed[i].msg : i \in {j \in 1..n : passed[j].kind = "message"}}
FirstOf(all, n) == {all[i] : i \in 1..n} \ Unreadable

(***************************************************************************)
(* The application gets the messages in the order they arrived, whatever   *)
(* calls it makes, gives up or lets time out: with every message it has    *)
(* seen exactly the readable ones that arrived up to it, so that a second  *)
(* copy comes right behind the first.  The only gaps are messages that the *)
(* task cannot unpack, which it drops with a line in the log; and only     *)
(* what was still on the connection is lost when the task ends.            *)
(***************************************************************************)
HandedOverInOrder ==
  LET passed == Passed IN
  /\ \A i \in DOMAIN passed : passed[i].kind = "message" =>
       \E k \in DOMAIN arrivals :
         passed[i].msg = arrivals[k] /\ SeenIn(passed, i) = FirstOf(arrivals, k)
  /\ handler # "ended" =>
       \E k \in 0..Len(arrivals) :
         /\ SeenIn(passed, Len(passed)) = FirstOf(arrivals, k)
         /\ socket = SubSeq(arrivals, k + 1, Len(arrivals))

(***************************************************************************)
(* Nobody gets a message twice who did not ask for it with a get, even one *)
(* that ended long before the message came.                                *)
(***************************************************************************)
TwiceOnlyIfAsked ==
  LET passed == Passed IN
  \A i, j \in DOMAIN passed :
    i # j /\ passed[i].kind = "message" /\ passed[i] = passed[j] => KeyOf[passed[i].msg] \in gets

(***************************************************************************)
(* "A status reply will be returned if successful": a pickup call that was *)
(* given the answer to its request returns it, unless the task ended.  Its *)
(* last get is the one that counts, so this is about a second copy of the  *)
(* answer, which the task sends only if it knew of the get when the answer *)
(* came.                                                                   *)
(***************************************************************************)
AnswerIsReturned ==
  [][call.took /\ call.more = 0 /\ call' = Idle /\ handler # "ended" =>
       taken' # taken /\ KeyOf[Last(taken')] = call.key]_liveVars

(***************************************************************************)
(* "wait: How long to wait for a message before returning None.  If 0,     *)
(* will not block": a get without a time limit returns, although nothing   *)
(* arrives that would end it.                                              *)
(***************************************************************************)
ZeroDoesNotBlock ==
  call.op = "get" /\ call.pc = "waiting" /\ ~call.limited ~> call = Idle

\* The task waits for room towards the application, the application for room
\* towards the task.
MutualWait ==
  /\ out # <<>> /\ Len(events) = EventCap
  /\ call.pc \in {"sending", "expiring"} /\ Len(commands) = CommandCap

(***************************************************************************)
(* A call ends, unless it waits without a time limit for a message that    *)
(* does not come, or task and application wait for each other: a task that *)
(* ended or could not start leaves no call hanging.                        *)
(***************************************************************************)
CallEnds ==
  (call # Idle) ~> \/ call = Idle
                   \/ MutualWait
                   \/ handler # "ended" /\ events = <<>> /\ ~call.limited

\* The task reads the socket, whatever is searched for, unless the application
\* does not take what it was sent.
SocketIsRead ==
  \A m \in Messages :
    m \in ToSet(socket) ~> m \notin ToSet(socket) \/ Len(events) = EventCap
=============================================================================
