------------------------------- MODULE Inbound -------------------------------
(***************************************************************************)
(* POST /inbound and messages that come in over a WebSocket                *)
(* (handle_inbound), composed with the requests that read an inbox.  A     *)
(* message is unpacked and processed, the result is published to the live  *)
(* stream of its recipient, and only then it is stored; the answer lists   *)
(* what was stored.  Readers, other posts and the end of the caller come   *)
(* in between any two of these steps, and a caller without an answer posts *)
(* the same text again.                                                    *)
(*                                                                         *)
(* Who is live and what the streaming task does with a publication is in   *)
(* Streaming: here a publication reaches a session of the DID at once or   *)
(* never.                                                                  *)
(* Every result has one recipient: the `next` of a forward, or the sender  *)
(* that a reply is for.                                                    *)
(***************************************************************************)
EXTENDS Pickup

CONSTANTS
  Posts,     \* the callers of handle_inbound
  MaxPosts   \* bound: how many messages are accepted for storing

ASSUME MaxPostsAssumption == MaxPosts \in Nat

VARIABLES
  post,   \* what each caller is at
  told    \* history: how many answers listed a text as stored for a DID

postVars == <<post, told>>
inboundVars == <<pickupVars, postVars>>

NoPost == [pc |-> "idle"]
At(pc, to, text) == [pc |-> pc, to |-> to, text |-> text]

\* An answer lists the messages that were stored.
Answer(listed) == [pc |-> "answer", listed |-> listed]

InboundInit ==
  /\ PickupInit
  /\ post = [p \in Posts |-> NoPost]
  /\ told = [d \in Dids |-> [h \in Hashes |-> 0]]

\* The posts that can still store, and the bounds.
InFlight(h) ==
  {p \in Posts : post[p] # NoPost /\ post[p].pc # "answer" /\ post[p].text = h}
MayPost(h) ==
  /\ copies[h] + Cardinality(InFlight(h)) < MaxCopies
  /\ received + Cardinality(UNION {InFlight(g) : g \in Hashes}) < MaxPosts

Accepted(p, x) ==
  /\ post[p] = NoPost
  /\ post' = [post EXCEPT ![p] = x]
  /\ UNCHANGED <<pickupVars, told>>

\* routing::process: the attachment goes to `next` as it is, so that the text
\* of a second post is the text of the first.
Forward(p, next, h) == MayPost(h) /\ Accepted(p, At("publish", next, h))

\* ping::process: the reply goes to the sender, and is packed anew each time.
\* Without a wish for a reply there is no message, which handle_inbound takes
\* for an error: that is Unhandled.
Ping(p, from, h) ==
  /\ MayPost(h)
  /\ copies[h] = 0 /\ InFlight(h) = {}
  /\ Accepted(p, At("publish", from, h))

\* What ends without a message to store.  Unreadable: no envelope, no key, or
\* more operations than the limit.  Unhandled: a type that is unknown or only
\* for /authenticate, or a message that has expired.  Ephemeral: the replies of
\* Message Pickup, which are in the answer.  NoRecipients: the reply is for
\* nobody or for too many.  Unpackable: for a DID that it cannot be packed for.
Unreadable(p) == Accepted(p, Answer({}))
Unhandled(p) == Accepted(p, Answer({}))
Ephemeral(p) == Accepted(p, Answer({}))
NoRecipients(p) == Accepted(p, Answer({}))
Unpackable(p) == Accepted(p, Answer({}))

\* _try_live_stream; failures are ignored.
TryLiveStream(p) ==
  /\ post[p].pc = "publish"
  /\ \/ \E s \in Sessions :
          /\ DidOf[s] = post[p].to
          /\ got' = [got EXCEPT ![s].texts = @ \cup {post[p].text}]
     \/ got' = got
  /\ post' = [post EXCEPT ![p].pc = "store"]
  /\ UNCHANGED <<vars, req, cursor, claims, told>>

\* A store that Redis refuses is listed among the errors of the answer.
StoredAlways(d) == TRUE
Stored(d) == CanAppend(recvLast[d], Now) /\ CanAppend(sendLast, Now)

TryStore(p) ==
  LET x == post[p] IN
  /\ x.pc = "store"
  /\ StoreMessage(x.to, x.text)
  /\ post' = [post EXCEPT ![p] =
       Answer(IF Stored(x.to) THEN {[to |-> x.to, text |-> x.text]} ELSE {})]
  /\ UNCHANGED <<requestVars, told>>

Answered(p) ==
  /\ post[p].pc = "answer"
  /\ told' = [d \in Dids |-> [h \in Hashes |->
                 told[d][h] + Cardinality({[to |-> d, text |-> h]} \cap post[p].listed)]]
  /\ post' = [post EXCEPT ![p] = NoPost]
  /\ UNCHANGED pickupVars

\* The caller is gone, the mediator dies, or the database does not answer.
Cut(p) ==
  /\ post[p] # NoPost
  /\ post' = [post EXCEPT ![p] = NoPost]
  /\ UNCHANGED <<pickupVars, told>>

Post(p) ==
  \/ \E d \in Dids, h \in Hashes : Forward(p, d, h) \/ Ping(p, d, h)
  \/ Unreadable(p) \/ Unhandled(p) \/ Ephemeral(p) \/ NoRecipients(p) \/ Unpackable(p)

PostStep(p) == TryLiveStream(p) \/ TryStore(p) \/ Answered(p)

\* Clients page through their inbox with the cursor of the last page, and tell
\* with messages-received what they have.  The other requests of Pickup read or
\* delete in the same way.
ReadStep(s) ==
  /\ \/ Fetch(s, cursor[s], FALSE)
     \/ \E ids \in IdLists : MessagesReceived(s, ids)
     \/ GetNext(s) \/ DeleteNext(s) \/ Respond(s) \/ Disconnect(s)
  /\ UNCHANGED postVars

InboundNext ==
  \/ \E p \in Posts : Post(p) \/ PostStep(p) \/ Cut(p)
  \/ \E s \in Sessions : ReadStep(s)
  \/ Tick /\ UNCHANGED <<requestVars, postVars>>

InboundSpec == InboundInit /\ [][InboundNext]_inboundVars

\* Handlers run, and clients ask for the next page again and again, and not
\* every one of these requests is cut off.
PageOn(s) == Fetch(s, cursor[s], FALSE) /\ UNCHANGED postVars

FairInboundSpec ==
  /\ InboundSpec
  /\ \A p \in Posts : WF_inboundVars(PostStep(p))
  /\ \A s \in Sessions :
       /\ WF_inboundVars((GetNext(s) \/ DeleteNext(s) \/ Respond(s)) /\ UNCHANGED postVars)
       /\ SF_inboundVars(PageOn(s))
       /\ SF_inboundVars(Respond(s) /\ req[s].op = "fetch" /\ UNCHANGED postVars)

-----------------------------------------------------------------------------
(* Properties *)

MessageFor == [to : Dids, text : Hashes]
PostType ==
  {NoPost} \cup [pc : {"publish", "store"}, to : Dids, text : Hashes]
           \cup [pc : {"answer"}, listed : SUBSET MessageFor]

\* Posts and publications are well formed.
InboundTypeOK ==
  /\ PickupTypeOK
  /\ post \in [Posts -> PostType]
  /\ told \in [Dids -> [Hashes -> Nat]]

(***************************************************************************)
(* "Stored" in an answer can be relied on: for every answer that lists a   *)
(* text there is a copy in the queue of its recipient, unless a delete of  *)
(* that text succeeded.  No copy is lost to another post of the same text, *)
(* to a caller that was cut off, or to a recipient that tried to delete    *)
(* the live copy before the text was stored.                               *)
(***************************************************************************)
ToldIsStored ==
  \A d \in Dids, h \in Hashes :
    told[d][h] <= Cardinality({e \in recvQ[d] : e.msg = h}) + claims[h]

\* An entry that its metadata does not name: the second copy of a text, or a
\* store that stopped half way.
Detached(d) ==
  \E e \in recvQ[d] : meta[e.msg] = NoMeta \/ meta[e.msg].receive_id # e.id

(***************************************************************************)
(* What was answered as stored is read some time by a recipient that pages *)
(* through its inbox, unless somebody deletes the text before.  Two things *)
(* stop such a client, and are excepted: a detached entry, which shows no  *)
(* receive_id or that of a later entry, so that the cursor stays or jumps; *)
(* and a receive_id that the mediator does not take as a start_id.         *)
(***************************************************************************)
ToldIsRead ==
  \A s \in Sessions, h \in Hashes :
    told[DidOf[s]][h] > 0 ~>
      \/ h \in got[s].texts
      \/ claims[h] > 0
      \/ Detached(DidOf[s])
      \/ cursor[s] \notin StartIds(s)
=============================================================================
