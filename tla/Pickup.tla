------------------------------- MODULE Pickup -------------------------------
(***************************************************************************)
(* The requests that read and empty an inbox, each a loop of database      *)
(* calls with other requests in between:                                   *)
(*                                                                         *)
(*   list       GET /list (message_list_handler)                           *)
(*   fetch      POST /fetch (inbox_fetch_handler)                          *)
(*   delivery   the delivery-request message of Message Pickup             *)
(*   outbound   POST /outbound (message_outbound_handler)                  *)
(*   received   the messages-received message of Message Pickup            *)
(*   delete     DELETE /delete (message_delete_handler)                    *)
(*                                                                         *)
(* A client that goes away while its request runs takes the handler with   *)
(* it: the future is dropped at the call it waits for.                     *)
(***************************************************************************)
EXTENDS MessageStore

CONSTANTS
  Sessions,      \* authenticated sessions
  DidOf,         \* the DID of a session
  IdLists,       \* the message_ids that requests name
  Limit,         \* the limit clients give to fetch
  MaxListed,     \* max_listed_messages of the configuration
  SecDigits,     \* digits of the seconds in Clocks (StreamIds)
  DeleteUnread   \* do clients ask to delete texts as they are read?

ASSUME DidOfAssumption == DidOf \in [Sessions -> Dids]
ASSUME IdListsAssumption == \A ids \in IdLists : ids \in Seq(Hashes)
\* MIN_RETRIEVED_MSGS .. MAX_RETRIEVED_MSGS: other limits are errors.
AcceptedLimits == 1..100

ASSUME LimitAssumption == Limit \in AcceptedLimits
ASSUME MaxListedAssumption == MaxListed \in Nat
ASSUME DeleteUnreadAssumption == DeleteUnread \in BOOLEAN

VARIABLES
  req,      \* the request a session has running, or Idle
  got,      \* what was returned to the client of the session: texts and entries
  cursor,   \* receive_id of the last fetched element: the client's next start_id
  claims    \* history: how many requests to delete a text succeeded

requestVars == <<req, got, cursor, claims>>
pickupVars == <<vars, requestVars>>

Request(op, delete, todo, reply, next) ==
  [op |-> op, delete |-> delete, todo |-> todo, held |-> FALSE,
   reply |-> reply, listed |-> {}, next |-> next]

Nothing == [texts |-> {}, shown |-> {}]

\* What a page shows its reader: the texts, and the entries they are in.
Contents(page) ==
  [texts |-> {r.msg : r \in {x \in page : x.text}}, shown |-> {r.id : r \in page}]

Folders == {"inbox", "outbox"}

Idle == Request("idle", FALSE, <<>>, Nothing, ZeroId)

PickupInit ==
  /\ Init
  /\ req = [s \in Sessions |-> Idle]
  /\ got = [s \in Sessions |-> Nothing]
  /\ cursor = [s \in Sessions |-> ZeroId]
  /\ claims = [h \in Hashes |-> 0]

Accept(s, r) ==
  /\ req[s] = Idle
  /\ req' = [req EXCEPT ![s] = r]
  /\ UNCHANGED <<vars, got, cursor, claims>>

(***************************************************************************)
(* A fetch reads the whole page in one call.  Clients start at the oldest  *)
(* message or after the last receive_id they got; a start_id the handler   *)
(* does not accept is answered with an error and changes nothing.  With    *)
(* the policy Optimistic every element of the page is then deleted, one    *)
(* call each.                                                              *)
(***************************************************************************)
StartIds(s) ==
  {ZeroId} \cup {id \in {cursor[s]} : StartIdAccepted(id, SecDigits)}

NextStartMessageId(page, start) == IF page = <<>> THEN start ELSE Last(page).msg
NextStart(page, start) ==
  LET known == {i \in DOMAIN page : page[i].receive_id # ZeroId}
  IN  IF known = {} THEN start ELSE page[Max(known)].receive_id

Fetch(s, start, optimistic) ==
  LET page == FetchMessages(DidOf[s], start, Limit) IN
  /\ start \in StartIds(s)
  /\ optimistic => DeleteUnread
  /\ Accept(s, Request("fetch", optimistic,
                       IF optimistic THEN [i \in DOMAIN page |-> page[i].msg] ELSE <<>>,
                       Contents(ToSet(page)), NextStart(page, start)))

\* A list names the oldest entries of a folder of the session's own DID and
\* returns no texts; the outbox is the SEND_Q of the DID, and every message is
\* sent by the mediator.  Clients may name what they saw there in later
\* requests (IdLists).
Listed(did, folder) ==
  RangeSet([inbox |-> recvQ[did], outbox |-> {e \in sendQ : did = Mediator}][folder],
           ZeroId, MaxListed)

ListMessages(s, did, folder) ==
  Accept(s, [Request("list", FALSE, <<>>, Nothing, cursor[s]) EXCEPT
               !.listed = IF did = DidOf[s] THEN Listed(did, folder) ELSE {}])

\* A delivery request reads the same page from the start and deletes nothing;
\* the entries without a text are left out of the answer, and the ids of the
\* attachments are message ids: the client learns no receive_id.
DeliveryBodyOk(s, recipient, limit) == recipient = DidOf[s] /\ limit \in AcceptedLimits

DeliveryRequest(s, recipient, limit) ==
  LET page == FetchMessages(DidOf[s], ZeroId, limit)
      texts == {r \in ToSet(page) : r.text /\ DeliveryBodyOk(s, recipient, limit)}
  IN  Accept(s, Request("delivery", FALSE, <<>>, Contents(texts), cursor[s]))

\* The requests that name message ids.  The ids to read may come from a list
\* of the inbox, the ids to delete are of texts the client has.
Outbound(s, ids, delete) ==
  /\ delete => DeleteUnread
  /\ Accept(s, Request("outbound", delete, ids, Nothing, cursor[s]))

MessagesReceived(s, ids) ==
  /\ ToSet(ids) \subseteq got[s].texts
  /\ Accept(s, Request("received", TRUE, ids, Nothing, cursor[s]))

DeleteRequest(s, ids) ==
  /\ ToSet(ids) \subseteq got[s].texts
  /\ Accept(s, Request("delete", TRUE, ids, Nothing, cursor[s]))

\* get_message, in the loops of outbound and received.  When the request
\* deletes and the message was found, deleting it is the next call.
GetNext(s) ==
  LET h == Head(req[s].todo)
      found == GetMessageOk(DidOf[s], h)
      held == found /\ req[s].delete
  IN  /\ req[s].op \in {"outbound", "received"}
      /\ req[s].todo # <<>>
      /\ ~req[s].held
      /\ req' = [req EXCEPT
           ![s].todo = IF held THEN @ ELSE Tail(@),
           ![s].held = held,
           ![s].reply.texts = IF found /\ req[s].op = "outbound" THEN @ \cup {h} ELSE @]
      /\ UNCHANGED <<vars, got, cursor, claims>>

\* delete_message for the next id; a refused delete is only reported.
DeleteNext(s) ==
  LET h == Head(req[s].todo) IN
  /\ req[s].todo # <<>>
  /\ req[s].op \in {"fetch", "delete"} \/ req[s].held
  /\ req' = [req EXCEPT ![s].todo = Tail(@), ![s].held = FALSE]
  /\ \/ DeleteMessage(DidOf[s], h) /\ claims' = [claims EXCEPT ![h] = @ + 1]
     \/ ~Owns(DidOf[s], h) /\ UNCHANGED <<vars, claims>>
  /\ UNCHANGED <<got, cursor>>

\* The loop is done and the client gets the response.
Respond(s) ==
  /\ req[s] # Idle
  /\ req[s].todo = <<>>
  /\ got' = [got EXCEPT ![s].texts = @ \cup req[s].reply.texts,
                        ![s].shown = @ \cup req[s].reply.shown]
  /\ cursor' = [cursor EXCEPT ![s] = req[s].next]
  /\ req' = [req EXCEPT ![s] = Idle]
  /\ UNCHANGED <<vars, claims>>

\* The client is gone: the rest of the loop does not run.
Disconnect(s) ==
  /\ req[s] # Idle
  /\ req' = [req EXCEPT ![s] = Idle]
  /\ UNCHANGED <<vars, got, cursor, claims>>

StoreStep ==
  /\ Tick \/ \E d \in Dids, h \in Hashes : StoreMessage(d, h)
  /\ UNCHANGED requestVars

SessionStep(s) ==
  \/ \E start \in {ZeroId, cursor[s]}, optimistic \in BOOLEAN : Fetch(s, start, optimistic)
  \/ \E did \in Dids, folder \in Folders : ListMessages(s, did, folder)
  \/ \E recipient \in Dids, limit \in {0, Limit} : DeliveryRequest(s, recipient, limit)
  \/ \E ids \in IdLists :
       \/ \E delete \in BOOLEAN : Outbound(s, ids, delete)
       \/ MessagesReceived(s, ids)
       \/ DeleteRequest(s, ids)
  \/ GetNext(s)
  \/ DeleteNext(s)
  \/ Respond(s)
  \/ Disconnect(s)

PickupNext == StoreStep \/ \E s \in Sessions : SessionStep(s)

PickupSpec == PickupInit /\ [][PickupNext]_pickupVars

-----------------------------------------------------------------------------
(* Properties *)

ContentType == [texts : SUBSET Hashes, shown : SUBSET StreamId]
RequestType ==
  [op : {"idle", "list", "fetch", "delivery", "outbound", "received", "delete"},
   delete : BOOLEAN, todo : Seq(Hashes), held : BOOLEAN,
   reply : ContentType, listed : SUBSET Entry, next : StreamId]

\* Requests and what clients hold are well formed.
PickupTypeOK ==
  /\ req \in [Sessions -> RequestType]
  /\ got \in [Sessions -> ContentType]
  /\ cursor \in [Sessions -> StreamId]
  /\ claims \in [Hashes -> Nat]

(***************************************************************************)
(* When clients ask to delete only texts they have, no text leaves the     *)
(* database before some client of its receiver got it, whatever requests   *)
(* of whatever sessions are cut off or interleaved, and also when the same *)
(* text is stored again for another DID while its first receiver deletes.  *)
(***************************************************************************)
NoUnreadLoss ==
  [][\A h \in Hashes : meta[h] # NoMeta /\ meta'[h] = NoMeta =>
        \E s \in Sessions : DidOf[s] = meta[h].to /\ h \in got[s].texts]_pickupVars

(***************************************************************************)
(* However many requests race to delete a text, no more of them succeed    *)
(* than the text was stored: clients can take a successful delete as a     *)
(* claim on the message.                                                   *)
(***************************************************************************)
ClaimedOnce == \A h \in Hashes : claims[h] <= copies[h]

(***************************************************************************)
(* A client that pages through its inbox with the last receive_id it got   *)
(* was shown every entry that is not behind that id: nothing is skipped,   *)
(* although entries come and go while it pages.                            *)
(***************************************************************************)
PagingSkipsNothing ==
  \A s \in Sessions : \A e \in recvQ[DidOf[s]] :
    ~IdLess(cursor[s], e.id) => e.id \in got[s].shown
=============================================================================
