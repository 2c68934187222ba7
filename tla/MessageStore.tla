---------------------------- MODULE MessageStore ----------------------------
(***************************************************************************)
(* The mediator's message database: the Redis keys behind DatabaseHandler  *)
(* and the Lua functions that change them.  Redis runs a function as one   *)
(* step, but does not undo what a function wrote before one of its         *)
(* commands fails, so a failed store is a step too.                        *)
(*                                                                         *)
(* A packed message stands for its own hash: the hash is computed from the *)
(* packed text, so the same text stored twice has one key.  Its length is  *)
(* left out: every byte counter moves with the count beside it, by the     *)
(* length of the same text at the store and at the delete.                 *)
(*                                                                         *)
(* Operators whose name adds a word to that of the operator after them     *)
(* (CountReceivedLost, OwnsUnchecked) are wrong versions of it, used only  *)
(* to see that a property notices the difference.                          *)
(*                                                                         *)
(* Every caller stores with the mediator's own DID as the sender           *)
(* (messages/inbound.rs), so there is one SEND_Q.                          *)
(***************************************************************************)
EXTENDS StreamIds, Integers

CONSTANTS
  Dids,        \* the recipients, each a DID with a session of its own
  Mediator,    \* the mediator's DID
  Hashes,      \* the packed messages
  NoMeta,      \* MSG:META of a message that has none
  Clocks,      \* the times [sec, ms] the server's clock can show
  MaxCopies    \* bound: how often one packed message is stored

ASSUME DidsAssumption == Mediator \notin Dids
ASSUME ClocksAssumption ==
  /\ Clocks # {}
  /\ Clocks \subseteq [sec : Nat \ {0}, ms : 0..999]
ASSUME CopiesAssumption == MaxCopies \in Nat

Meta == [to : Dids, from : {Mediator}, receive_id : StreamId, send_id : StreamId]

ASSUME NoMetaAssumption == NoMeta \notin Meta

Entry == [id : StreamId, msg : Hashes]

VARIABLES
  clock,     \* TIME of the Redis server
  msgs,      \* the hashes that have a MSG:<hash> key
  meta,      \* MSG:META:<hash>
  recvQ,     \* entries of RECEIVE_Q:<did>
  recvLast,  \* last-generated id of RECEIVE_Q:<did>
  sendQ,     \* entries of SEND_Q:<mediator>
  sendLast,  \* last-generated id of SEND_Q:<mediator>
  rqCount,   \* DID:<did> RECEIVE_QUEUE_COUNT
  sqCount,   \* DID:<mediator> SEND_QUEUE_COUNT
  received,  \* GLOBAL RECEIVED_COUNT
  deleted,   \* GLOBAL DELETED_COUNT
  expiry,    \* the list MSG_EXPIRY
  copies     \* history: how often each packed message was stored

queueVars == <<recvQ, recvLast, sendQ, sendLast>>
countVars == <<rqCount, sqCount, received, deleted>>
vars == <<clock, msgs, meta, queueVars, countVars, expiry, copies>>

ClockLess(a, b) == a.sec < b.sec \/ (a.sec = b.sec /\ a.ms < b.ms)

Init ==
  /\ clock \in {c \in Clocks : \A d \in Clocks : ~ClockLess(d, c)}
  /\ msgs = {}
  /\ meta = [h \in Hashes |-> NoMeta]
  /\ recvQ = [d \in Dids |-> {}]
  /\ recvLast = [d \in Dids |-> ZeroId]
  /\ sendQ = {}
  /\ sendLast = ZeroId
  /\ rqCount = [d \in Dids |-> 0]
  /\ sqCount = 0
  /\ received = 0
  /\ deleted = 0
  /\ expiry = <<>>
  /\ copies = [h \in Hashes |-> 0]

\* The server's clock moves on.
Tick ==
  /\ \E c \in Clocks : ClockLess(clock, c) /\ clock' = c
  /\ UNCHANGED <<msgs, meta, queueVars, countVars, expiry, copies>>

-----------------------------------------------------------------------------
(* store_message *)

Now == StreamTime(clock)
ReceiveId(d) == AppendId(recvLast[d], Now)
SendId == AppendId(sendLast, Now)

CountReceivedLost(d) == rqCount' = rqCount
CountReceived(d) == rqCount' = [rqCount EXCEPT ![d] = @ + 1]

\* What is written before the first XADD, whatever happens after it.
StorePrefix(d, h) ==
  /\ copies[h] < MaxCopies
  /\ copies' = [copies EXCEPT ![h] = @ + 1]
  /\ msgs' = msgs \cup {h}
  /\ received' = received + 1
  /\ expiry' = Append(expiry, h)
  /\ CountReceived(d)
  /\ UNCHANGED <<clock, deleted>>

AppendReceive(d, h) ==
  /\ recvQ' = [recvQ EXCEPT ![d] = @ \cup {[id |-> ReceiveId(d), msg |-> h]}]
  /\ recvLast' = [recvLast EXCEPT ![d] = ReceiveId(d)]

\* XADD on RECEIVE_Q is refused: the function stops there.
StoreRefusedByReceiveQ(d, h) ==
  /\ ~CanAppend(recvLast[d], Now)
  /\ StorePrefix(d, h)
  /\ UNCHANGED <<meta, queueVars, sqCount>>

\* XADD on SEND_Q is refused: the message is queued but has no metadata.
StoreRefusedBySendQ(d, h) ==
  /\ CanAppend(recvLast[d], Now)
  /\ ~CanAppend(sendLast, Now)
  /\ StorePrefix(d, h)
  /\ AppendReceive(d, h)
  /\ sqCount' = sqCount + 1
  /\ UNCHANGED <<meta, sendQ, sendLast>>

MetaOfSwapped(d) ==
  [to |-> Mediator, from |-> d, receive_id |-> ReceiveId(d), send_id |-> SendId]
MetaOfOneId(d) ==
  [to |-> d, from |-> Mediator, receive_id |-> SendId, send_id |-> SendId]
MetaOf(d) ==
  [to |-> d, from |-> Mediator, receive_id |-> ReceiveId(d), send_id |-> SendId]

StoreOk(d, h) ==
  /\ CanAppend(recvLast[d], Now)
  /\ CanAppend(sendLast, Now)
  /\ StorePrefix(d, h)
  /\ AppendReceive(d, h)
  /\ sqCount' = sqCount + 1
  /\ sendQ' = sendQ \cup {[id |-> SendId, msg |-> h]}
  /\ sendLast' = SendId
  /\ meta' = [meta EXCEPT ![h] = MetaOf(d)]

StoreMessage(d, h) ==
  \/ StoreRefusedByReceiveQ(d, h)
  \/ StoreRefusedBySendQ(d, h)
  \/ StoreOk(d, h)

-----------------------------------------------------------------------------
(* delete_message *)

\* "Check that the requesting DID has some form of ownership": a message
\* without metadata belongs to nobody.
OwnsUnchecked(did, h) == meta[h] # NoMeta
Owns(did, h) == meta[h] # NoMeta /\ did \in {meta[h].to, meta[h].from}

ForgetMetaSkipped(h) == meta
ForgetMeta(h) == [meta EXCEPT ![h] = NoMeta]

DeleteMessageUpTo(did, h) ==
  /\ Owns(did, h)
  /\ msgs' = msgs \ {h}
  /\ deleted' = deleted + 1
  /\ rqCount' = [rqCount EXCEPT ![meta[h].to] = @ - 1]
  /\ recvQ' = [recvQ EXCEPT ![meta[h].to] =
       {e \in @ : IdLess(meta[h].receive_id, e.id)}]
  /\ sqCount' = sqCount - 1
  /\ sendQ' = WithoutId(sendQ, meta[h].send_id)
  /\ meta' = ForgetMeta(h)
  /\ UNCHANGED <<clock, recvLast, sendLast, received, expiry, copies>>

DeleteMessage(did, h) ==
  /\ Owns(did, h)
  /\ msgs' = msgs \ {h}
  /\ deleted' = deleted + 1
  /\ rqCount' = [rqCount EXCEPT ![meta[h].to] = @ - 1]
  /\ recvQ' = [recvQ EXCEPT ![meta[h].to] = WithoutId(@, meta[h].receive_id)]
  /\ sqCount' = sqCount - 1
  /\ sendQ' = WithoutId(sendQ, meta[h].send_id)
  /\ meta' = ForgetMeta(h)
  /\ UNCHANGED <<clock, recvLast, sendLast, received, expiry, copies>>

Next ==
  \/ Tick
  \/ \E d \in Dids, h \in Hashes : StoreMessage(d, h) \/ DeleteMessage(d, h)

Spec == Init /\ [][Next]_vars

-----------------------------------------------------------------------------
(* The reads: fetch_messages, get_message, list_messages, get_status_reply *)

\* fetch_messages: an entry whose MSG key is gone is returned without a text.
\* The receive_id that the caller sees comes from the metadata, that is from
\* the latest store of the text; it is ZeroId when there is no metadata.  The
\* id of the entry itself is read but not passed on.
Fetched(e) ==
  [id |-> e.id, msg |-> e.msg, text |-> e.msg \in msgs,
   receive_id |-> IF meta[e.msg] = NoMeta THEN ZeroId ELSE meta[e.msg].receive_id]

FetchMessages(d, start, limit) ==
  InStreamOrder({Fetched(e) : e \in RangeSet(recvQ[d], start, limit)})

\* get_message: the text must be there and the metadata must name the DID.
GetMessageOk(did, h) == h \in msgs /\ Owns(did, h)

StatusMessageCount(d) == rqCount[d]
-----------------------------------------------------------------------------
(* Properties *)

\* Every key holds what the functions write to it.
TypeOK ==
  /\ clock \in Clocks
  /\ msgs \subseteq Hashes
  /\ meta \in [Hashes -> Meta \cup {NoMeta}]
  /\ recvQ \in [Dids -> SUBSET Entry]
  /\ recvLast \in [Dids -> StreamId]
  /\ sendQ \subseteq Entry
  /\ sendLast \in StreamId
  /\ rqCount \in [Dids -> Int]
  /\ sqCount \in Int
  /\ received \in Nat
  /\ deleted \in Nat
  /\ expiry \in Seq(Hashes)
  /\ copies \in [Hashes -> 0..MaxCopies]

(***************************************************************************)
(* A stream has one entry per id and none above its last-generated id,     *)
(* which Redis keeps when the newest entry is deleted.                     *)
(***************************************************************************)
StreamSound(entries, last) ==
  /\ \A e \in entries : ~IdLess(last, e.id)
  /\ \A e, f \in entries : e.id = f.id => e = f

StreamsSound ==
  /\ StreamSound(sendQ, sendLast)
  /\ \A d \in Dids : StreamSound(recvQ[d], recvLast[d])

(***************************************************************************)
(* The metadata is an index that can be trusted: whoever owns a message    *)
(* finds its text, and the two stream ids in the metadata lead to entries  *)
(* of that very message.  This has to survive repeated stores of one text  *)
(* (the second replaces the metadata of the first), stores that stop half  *)
(* way, and deletes of other copies.                                       *)
(***************************************************************************)
IndexSound ==
  \A h \in Hashes : meta[h] # NoMeta =>
    /\ h \in msgs
    /\ [id |-> meta[h].receive_id, msg |-> h] \in recvQ[meta[h].to]
    /\ [id |-> meta[h].send_id, msg |-> h] \in sendQ

(***************************************************************************)
(* The counters that status replies report never fall below what is in     *)
(* the queues (so they are never negative), although a delete takes the    *)
(* count off the DID in the latest metadata, which need not be the DID     *)
(* the text was first stored for.                                          *)
(***************************************************************************)
CountersCoverQueues ==
  /\ \A d \in Dids : rqCount[d] >= Cardinality(recvQ[d])
  /\ sqCount >= Cardinality(sendQ)

\* The DIDs in some order, and the sum of what they are told in that order (a
\* recursive function, which the proofs can unfold).
Enumeration ==
  CHOOSE q \in [1..Cardinality(Dids) -> Dids] :
    /\ \A d \in Dids : \E i \in 1..Cardinality(Dids) : q[i] = d
    /\ \A i, j \in 1..Cardinality(Dids) : q[i] = q[j] => i = j
SumOfStatus ==
  LET upTo[n \in 0..Cardinality(Dids)] ==
        IF n = 0 THEN 0 ELSE upTo[n - 1] + StatusMessageCount(Enumeration[n])
  IN  upTo[Cardinality(Dids)]

(***************************************************************************)
(* The "queued" statistic (received - deleted) is the sum of what the      *)
(* status replies of all DIDs report, also after a store that failed.      *)
(***************************************************************************)
QueuedStatIsSumOfStatus == received - deleted = SumOfStatus

(***************************************************************************)
(* A delete takes away exactly the copy its metadata names: whatever else  *)
(* is queued for any DID, other copies of the same text included, stays.   *)
(***************************************************************************)
DeletesOneCopy ==
  [][\A d \in Dids : \A e \in recvQ[d] \ recvQ'[d] :
        /\ deleted' = deleted + 1
        /\ meta[e.msg] # NoMeta
        /\ meta[e.msg].to = d /\ meta[e.msg].receive_id = e.id
        /\ recvQ[d] \ recvQ'[d] = {e}
        /\ \A c \in Dids \ {d} : recvQ'[c] = recvQ[c]]_vars

(***************************************************************************)
(* "Receiver can delete any message that is waiting to be delivered to     *)
(* them": the metadata names the DID whose queue the message is in.        *)
(***************************************************************************)
ReceiverCanDelete ==
  \A d \in Dids : \A e \in recvQ[d] : Owns(d, e.msg)

\* What ReceiverCanDelete takes: nobody sends one packed message twice, and
\* nothing is stored in the first 100 milliseconds of a second.
CleanUse == MaxCopies = 1 /\ \A c \in Clocks : c.ms >= 100

(***************************************************************************)
(* The database implements the mailbox, as long as nobody sends the same   *)
(* packed message twice (MaxCopies = 1) and the clock is not seen in the   *)
(* first 100 milliseconds of a second: the messages of a DID's stream, in  *)
(* the order of their ids, are its inbox.                                  *)
(***************************************************************************)
Inbox(d) ==
  LET q == InStreamOrder(recvQ[d]) IN [i \in DOMAIN q |-> q[i].msg]

Mail == INSTANCE Mailbox WITH inbox <- [d \in Dids |-> Inbox(d)]

MailboxSpec == Mail!Spec
=============================================================================
