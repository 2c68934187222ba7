---------------------------- MODULE InboundProofs ----------------------------
(***************************************************************************)
(* The requests that read and empty inboxes, alone (PickupSpec) and        *)
(* composed with the posts that fill them (InboundSpec), for any number of *)
(* sessions, callers, messages and copies, whichever clients are cut off.  *)
(*                                                                         *)
(* Every step of either specification is a step of the database or leaves  *)
(* it alone, so that what MessageStoreProofs shows of the database holds   *)
(* here, and the invariants below are about what requests and posts add.   *)
(***************************************************************************)
EXTENDS Inbound, MessageStoreProofs

\* The next message id of a request is a message id.
LEMMA HeadOfTodo ==
  ASSUME PickupTypeOK, NEW s \in Sessions, req[s].todo # <<>>
  PROVE  /\ Head(req[s].todo) \in Hashes
         /\ Tail(req[s].todo) \in Seq(Hashes)
         /\ ToSet(Tail(req[s].todo)) \subseteq ToSet(req[s].todo)
         /\ Head(req[s].todo) \in ToSet(req[s].todo)
<1> DEFINE q == req[s].todo
<1>1. q \in Seq(Hashes) /\ q # <<>>
  BY DEF PickupTypeOK, RequestType
<1> HIDE DEF q
<1>2. Len(q) \in Nat \ {0} /\ DOMAIN q = 1..Len(q) /\ \A i \in 1..Len(q) : q[i] \in Hashes
  BY <1>1
<1>3. Head(q) = q[1] /\ 1 \in DOMAIN q
  BY <1>1, <1>2
<1>4. /\ Tail(q) \in Seq(Hashes)
      /\ \A i \in DOMAIN Tail(q) : i + 1 \in DOMAIN q /\ Tail(q)[i] = q[i + 1]
  BY <1>1, <1>2
<1>5. ToSet(Tail(q)) \subseteq ToSet(q) /\ Head(q) \in ToSet(q)
  BY <1>3, <1>4 DEF ToSet
<1>6. Head(q) \in Hashes
  BY <1>2, <1>3
<1> QED BY <1>4, <1>5, <1>6 DEF q

\* What fetch_messages returns of one entry.
FetchedEntry == [id : StreamId, msg : Hashes, text : BOOLEAN, receive_id : StreamId]

\* The elements of a page.
Fetchable(d, start, limit) == {Fetched(e) : e \in RangeSet(recvQ[d], start, limit)}

LEMMA FetchedType ==
  ASSUME TypeOK, NEW e \in Entry
  PROVE  /\ Fetched(e) \in FetchedEntry /\ Fetched(e).id = e.id /\ Fetched(e).msg = e.msg
         /\ Fetched(e).text = (e.msg \in msgs)
<1>1. e.id \in StreamId /\ e.msg \in Hashes
  BY DEF Entry
<1>2. ZeroId \in StreamId
  BY DEF ZeroId, StreamId
<1>3. meta[e.msg] = NoMeta \/ meta[e.msg].receive_id \in StreamId
  BY <1>1 DEF TypeOK, Meta
<1> QED BY <1>1, <1>2, <1>3 DEF Fetched, FetchedEntry

\* A page is a sequence of fetched entries: each of them once, in their order.
LEMMA PageOfQueue ==
  ASSUME CountInv, NEW d \in Dids, NEW start \in StreamId, NEW limit
  PROVE  /\ Lists(FetchMessages(d, start, limit), Fetchable(d, start, limit))
         /\ FetchMessages(d, start, limit) \in Seq(FetchedEntry)
         /\ ToSet(FetchMessages(d, start, limit)) = Fetchable(d, start, limit)
<1> DEFINE R == RangeSet(recvQ[d], start, limit)
           page == Fetchable(d, start, limit)
<1>1. R \subseteq recvQ[d] /\ R \subseteq Entry
  BY QueueIsStream DEF RangeSet
<1>2. Stream(R)
  BY <1>1, QueueIsStream, SubStream
<1>3. \A e \in R : Fetched(e) \in FetchedEntry /\ Fetched(e).id = e.id
  BY <1>1, FetchedType DEF CountInv, IndexInv
<1>4. Stream(page)
  <2>1. [e \in R |-> Fetched(e)] \in Surjection(R, page)
    BY DEF Surjection, Fetchable
  <2>2. IsFiniteSet(page)
    BY <1>2, <2>1, FS_Surjection DEF Stream
  <2>3. \A x \in page : \E e \in R : x = Fetched(e)
    BY DEF Fetchable
  <2> QED BY <1>2, <1>3, <2>2, <2>3 DEF Stream
<1>5. page \subseteq FetchedEntry
  BY <1>3 DEF Fetchable
<1>6. FetchMessages(d, start, limit) = InStreamOrder(page)
  BY DEF FetchMessages, Fetchable
<1> HIDE DEF page
<1>7. /\ Lists(InStreamOrder(page), page)
      /\ InStreamOrder(page) \in Seq(page) /\ ToSet(InStreamOrder(page)) = page
  BY <1>4, InStreamOrderLists, InStreamOrderIsSeq
<1>8. Seq(page) \subseteq Seq(FetchedEntry)
  BY <1>5, SeqMonotonic
<1> QED BY <1>6, <1>7, <1>8 DEF page

LEMMA NextStartType ==
  ASSUME NEW page \in Seq(FetchedEntry), NEW start \in StreamId
  PROVE  NextStart(page, start) \in StreamId
<1> DEFINE known == {i \in DOMAIN page : page[i].receive_id # ZeroId}
<1>0. /\ Len(page) \in Nat /\ DOMAIN page = 1..Len(page)
      /\ \A i \in DOMAIN page : page[i] \in FetchedEntry
  OBVIOUS
<1>1. \A i \in DOMAIN page : page[i].receive_id \in StreamId
  BY <1>0 DEF FetchedEntry
<1>2. known # {} => Max(known) \in known
  BY <1>0, MaxOfPositions
<1> QED BY <1>1, <1>2 DEF NextStart

\* A request ends, or its list gets shorter, without a change of the database,
\* unless its delete succeeds.
LEMMA PickupIsStore == PickupTypeOK /\ [PickupNext]_pickupVars => [Next]_vars
<1> SUFFICES ASSUME PickupTypeOK, [PickupNext]_pickupVars PROVE [Next]_vars
  OBVIOUS
<1>1. CASE StoreStep
  BY <1>1 DEF StoreStep, Next
<1>2. ASSUME NEW s \in Sessions, SessionStep(s) PROVE [Next]_vars
  <2>1. CASE DeleteNext(s)
    <3>1. req[s].todo # <<>> /\ DidOf[s] \in Dids
      BY <2>1, DidOfAssumption DEF DeleteNext
    <3>2. Head(req[s].todo) \in Hashes
      BY <3>1, HeadOfTodo
    <3> QED BY <2>1, <3>1, <3>2 DEF DeleteNext, Next
  <2>2. CASE ~DeleteNext(s)
    BY <1>2, <2>2 DEF SessionStep, Fetch, ListMessages, DeliveryRequest, Outbound,
       MessagesReceived, DeleteRequest, Accept, GetNext, Respond, Disconnect
  <2> QED BY <2>1, <2>2
<1>3. CASE UNCHANGED pickupVars
  BY <1>3 DEF pickupVars
<1> QED BY <1>1, <1>2, <1>3 DEF PickupNext

-----------------------------------------------------------------------------
(* Types *)

LEMMA RequestIsTyped ==
  ASSUME NEW op \in {"idle", "list", "fetch", "delivery", "outbound", "received", "delete"},
         NEW delete \in BOOLEAN, NEW todo \in Seq(Hashes), NEW reply \in ContentType,
         NEW next \in StreamId
  PROVE  Request(op, delete, todo, reply, next) \in RequestType
BY DEF Request, RequestType

LEMMA ContentsAreTyped ==
  ASSUME NEW page \in SUBSET FetchedEntry
  PROVE  Contents(page) \in ContentType
BY DEF Contents, ContentType, FetchedEntry

LEMMA IdleIsTyped == Idle \in RequestType /\ Nothing \in ContentType /\ <<>> \in Seq(Hashes)
<1>1. Nothing \in ContentType /\ ZeroId \in StreamId /\ <<>> \in Seq(Hashes)
  BY DEF Nothing, ContentType, ZeroId, StreamId
<1> QED BY <1>1, RequestIsTyped DEF Idle

LEMMA PickupTypeInit == PickupInit => PickupTypeOK
<1> SUFFICES ASSUME PickupInit PROVE PickupTypeOK
  OBVIOUS
<1>1. ZeroId \in StreamId
  BY DEF ZeroId, StreamId
<1> QED BY <1>1, IdleIsTyped DEF PickupInit, PickupTypeOK

\* A request that a client makes.
LEMMA AcceptTyped ==
  ASSUME PickupTypeOK, NEW s \in Sessions, NEW r \in RequestType, Accept(s, r)
  PROVE  PickupTypeOK'
BY DEF Accept, PickupTypeOK

LEMMA FetchTyped ==
  ASSUME CountInv, PickupTypeOK, NEW s \in Sessions,
         NEW start \in StreamId, NEW optimistic \in BOOLEAN, Fetch(s, start, optimistic)
  PROVE  PickupTypeOK'
<1> DEFINE page == FetchMessages(DidOf[s], start, Limit)
           todo == IF optimistic THEN [i \in DOMAIN page |-> page[i].msg] ELSE <<>>
           r == Request("fetch", optimistic, todo, Contents(ToSet(page)), NextStart(page, start))
<1>1. /\ page \in Seq(FetchedEntry) /\ ToSet(page) = Fetchable(DidOf[s], start, Limit)
  BY PageOfQueue, DidOfAssumption
<1> HIDE DEF page
<1>2. Len(page) \in Nat /\ DOMAIN page = 1..Len(page) /\ \A i \in DOMAIN page : page[i] \in FetchedEntry
  BY <1>1
<1>3. \A i \in DOMAIN page : page[i].msg \in Hashes
  BY <1>2 DEF FetchedEntry
<1>4. todo \in Seq(Hashes)
  BY <1>2, <1>3, IdleIsTyped
<1>5. ToSet(page) \in SUBSET FetchedEntry
  BY <1>2 DEF ToSet
<1>6. r \in RequestType
  <2> HIDE DEF todo
  <2>1. NextStart(page, start) \in StreamId /\ Contents(ToSet(page)) \in ContentType
    BY <1>1, <1>5, NextStartType, ContentsAreTyped
  <2> QED BY <1>4, <2>1, RequestIsTyped
<1>7. Accept(s, r)
  BY DEF Fetch, page
<1> QED BY <1>6, <1>7, AcceptTyped

LEMMA DeliveryTyped ==
  ASSUME CountInv, PickupTypeOK, NEW s \in Sessions, NEW recipient, NEW limit,
         DeliveryRequest(s, recipient, limit)
  PROVE  PickupTypeOK'
<1> DEFINE page == FetchMessages(DidOf[s], ZeroId, limit)
           texts == {r \in ToSet(page) : r.text /\ DeliveryBodyOk(s, recipient, limit)}
           q == Request("delivery", FALSE, <<>>, Contents(texts), cursor[s])
<1>1. page \in Seq(FetchedEntry)
  BY PageOfQueue, DidOfAssumption DEF ZeroId, StreamId
<1>2. texts \in SUBSET FetchedEntry
  <2> HIDE DEF page
  <2>1. \A i \in DOMAIN page : page[i] \in FetchedEntry
    BY <1>1
  <2> QED BY <2>1 DEF ToSet
<1>3. q \in RequestType
  <2> HIDE DEF texts
  <2>1. Contents(texts) \in ContentType /\ cursor[s] \in StreamId
    BY <1>2, ContentsAreTyped DEF PickupTypeOK
  <2> QED BY <2>1, RequestIsTyped, IdleIsTyped
<1>4. Accept(s, q)
  BY DEF DeliveryRequest
<1> QED BY <1>3, <1>4, AcceptTyped

\* The requests that name ids.
LEMMA NamingTyped ==
  ASSUME PickupTypeOK, NEW s \in Sessions, NEW ids \in IdLists, NEW delete \in BOOLEAN,
         \/ Outbound(s, ids, delete)
         \/ MessagesReceived(s, ids)
         \/ DeleteRequest(s, ids)
  PROVE  PickupTypeOK'
<1>1. ids \in Seq(Hashes) /\ cursor[s] \in StreamId /\ Nothing \in ContentType /\ <<>> \in Seq(Hashes)
  BY IdListsAssumption, IdleIsTyped DEF PickupTypeOK
<1>2. CASE Outbound(s, ids, delete)
  BY <1>1, <1>2, RequestIsTyped, AcceptTyped DEF Outbound
<1>3. CASE MessagesReceived(s, ids)
  BY <1>1, <1>3, RequestIsTyped, AcceptTyped DEF MessagesReceived
<1>4. CASE DeleteRequest(s, ids)
  BY <1>1, <1>4, RequestIsTyped, AcceptTyped DEF DeleteRequest
<1> QED BY <1>2, <1>3, <1>4

\* A step of the loop of a request.
LEMMA GetTyped ==
  ASSUME PickupTypeOK, NEW s \in Sessions, GetNext(s)
  PROVE  PickupTypeOK'
<1> DEFINE h == Head(req[s].todo)
<1>1. req[s] \in RequestType /\ h \in Hashes /\ Tail(req[s].todo) \in Seq(Hashes)
  BY HeadOfTodo DEF GetNext, PickupTypeOK
<1>2. PICK todo \in Seq(Hashes), held \in BOOLEAN, texts \in SUBSET Hashes :
        req' = [req EXCEPT ![s].todo = todo, ![s].held = held, ![s].reply.texts = texts]
  <2> HIDE DEF h
  <2>1. req[s].todo \in Seq(Hashes) /\ req[s].reply.texts \in SUBSET Hashes /\ req[s].delete \in BOOLEAN
    BY <1>1 DEF RequestType, ContentType
  <2>2. GetMessageOk(DidOf[s], h) \in BOOLEAN
    BY DEF GetMessageOk, Owns
  <2> DEFINE held == GetMessageOk(DidOf[s], h) /\ req[s].delete
             todo == IF held THEN req[s].todo ELSE Tail(req[s].todo)
             texts == IF GetMessageOk(DidOf[s], h) /\ req[s].op = "outbound"
                      THEN req[s].reply.texts \cup {h} ELSE req[s].reply.texts
  <2>3. held \in BOOLEAN /\ todo \in Seq(Hashes) /\ texts \in SUBSET Hashes
    BY <1>1, <2>1, <2>2
  <2>4. req' = [req EXCEPT ![s].todo = todo, ![s].held = held, ![s].reply.texts = texts]
    BY DEF GetNext, h
  <2> QED BY <2>3, <2>4
<1>3. [req[s] EXCEPT !.todo = todo, !.held = held, !.reply.texts = texts] \in RequestType
  BY <1>1 DEF RequestType, ContentType
<1>4. req' \in [Sessions -> RequestType]
  BY <1>2, <1>3 DEF PickupTypeOK
<1> QED BY <1>4 DEF GetNext, PickupTypeOK

LEMMA DeleteTyped ==
  ASSUME PickupTypeOK, NEW s \in Sessions, DeleteNext(s)
  PROVE  PickupTypeOK'
<1> DEFINE h == Head(req[s].todo)
<1>1. req[s] \in RequestType /\ h \in Hashes /\ Tail(req[s].todo) \in Seq(Hashes)
  BY HeadOfTodo DEF DeleteNext, PickupTypeOK
<1>2. [req[s] EXCEPT !.todo = Tail(req[s].todo), !.held = FALSE] \in RequestType
  BY <1>1 DEF RequestType
<1>3. req' \in [Sessions -> RequestType]
  BY <1>2 DEF PickupTypeOK, DeleteNext
<1>4. claims' \in [Hashes -> Nat]
  BY <1>1 DEF DeleteNext, PickupTypeOK
<1> QED BY <1>3, <1>4 DEF DeleteNext, PickupTypeOK

LEMMA EndTyped ==
  ASSUME PickupTypeOK, NEW s \in Sessions, Respond(s) \/ Disconnect(s)
  PROVE  PickupTypeOK'
<1>1. req[s] \in RequestType /\ got[s] \in ContentType /\ req[s].reply \in ContentType
  BY DEF PickupTypeOK, RequestType
<1>2. req' \in [Sessions -> RequestType]
  BY IdleIsTyped DEF Respond, Disconnect, PickupTypeOK
<1>3. CASE Respond(s)
  <2>1. got' \in [Sessions -> ContentType]
    BY <1>1, <1>3 DEF Respond, PickupTypeOK, ContentType
  <2>2. cursor' \in [Sessions -> StreamId]
    BY <1>1, <1>3 DEF Respond, PickupTypeOK, RequestType
  <2> QED BY <1>2, <1>3, <2>1, <2>2 DEF Respond, PickupTypeOK
<1>4. CASE Disconnect(s)
  BY <1>2, <1>4 DEF Disconnect, PickupTypeOK
<1> QED BY <1>3, <1>4

\* What a list names are entries of the folder.
LEMMA ListIsTyped ==
  ASSUME TypeOK, PickupTypeOK, NEW s \in Sessions, NEW did \in Dids, NEW folder \in Folders
  PROVE  LET r == [Request("list", FALSE, <<>>, Nothing, cursor[s]) EXCEPT
                     !.listed = IF did = DidOf[s] THEN Listed(did, folder) ELSE {}]
         IN  /\ r \in RequestType /\ ~r.held /\ ~r.delete /\ r.op = "list"
             /\ r.todo = <<>> /\ r.next = cursor[s] /\ r.reply = Nothing
<1> DEFINE q == Request("list", FALSE, <<>>, Nothing, cursor[s])
           x == IF did = DidOf[s] THEN Listed(did, folder) ELSE {}
<1>1. q \in RequestType
  BY IdleIsTyped, RequestIsTyped DEF PickupTypeOK
<1>2. /\ ~q.held /\ ~q.delete /\ q.op = "list" /\ q.todo = <<>> /\ q.next = cursor[s]
      /\ q.reply = Nothing
  BY DEF Request
<1>3. recvQ[did] \subseteq Entry /\ sendQ \subseteq Entry
  BY DEF TypeOK
<1>4. Listed(did, folder) \subseteq Entry
  BY <1>3 DEF Listed, RangeSet, Folders
<1>5. x \subseteq Entry
  BY <1>4
<1> HIDE DEF q, x
<1>6. [q EXCEPT !.listed = x] \in RequestType
  BY <1>1, <1>5 DEF RequestType
<1>7. /\ [q EXCEPT !.listed = x].held = q.held /\ [q EXCEPT !.listed = x].delete = q.delete
      /\ [q EXCEPT !.listed = x].op = q.op /\ [q EXCEPT !.listed = x].todo = q.todo
      /\ [q EXCEPT !.listed = x].next = q.next /\ [q EXCEPT !.listed = x].reply = q.reply
  BY <1>1 DEF RequestType
<1> QED BY <1>2, <1>6, <1>7 DEF q, x

LEMMA SessionTyped ==
  ASSUME CountInv, PickupTypeOK, NEW s \in Sessions, SessionStep(s)
  PROVE  PickupTypeOK'
<1>1. cursor[s] \in StreamId /\ ZeroId \in StreamId
  BY DEF PickupTypeOK, ZeroId, StreamId
<1>2. ASSUME NEW start \in {ZeroId, cursor[s]}, NEW optimistic \in BOOLEAN,
             Fetch(s, start, optimistic)
      PROVE  PickupTypeOK'
  BY <1>1, <1>2, FetchTyped
<1>3. ASSUME NEW did \in Dids, NEW folder \in Folders, ListMessages(s, did, folder)
      PROVE  PickupTypeOK'
  BY <1>3, ListIsTyped, AcceptTyped DEF ListMessages, CountInv, IndexInv
<1>4. ASSUME NEW recipient, NEW limit, DeliveryRequest(s, recipient, limit) PROVE PickupTypeOK'
  BY <1>4, DeliveryTyped
<1>5. ASSUME NEW ids \in IdLists, NEW delete \in BOOLEAN,
             Outbound(s, ids, delete) \/ MessagesReceived(s, ids) \/ DeleteRequest(s, ids)
      PROVE  PickupTypeOK'
  BY <1>5, NamingTyped
<1> QED BY <1>2, <1>3, <1>4, <1>5, GetTyped, DeleteTyped, EndTyped DEF SessionStep

\* The database keeps its invariants, and requests their types.
PickupInv == CountInv /\ PickupTypeOK

LEMMA PickupInvInit == PickupInit => PickupInv
BY InitCountInv, PickupTypeInit DEF PickupInit, PickupInv

LEMMA PickupInvStep == PickupInv /\ [PickupNext]_pickupVars => PickupInv'
<1> SUFFICES ASSUME PickupInv, [PickupNext]_pickupVars PROVE PickupInv'
  OBVIOUS
<1>1. CountInv'
  BY PickupIsStore, NextCountInv DEF PickupInv
<1>2. CASE StoreStep \/ UNCHANGED pickupVars
  BY <1>1, <1>2 DEF StoreStep, requestVars, pickupVars, PickupInv, PickupTypeOK
<1>3. ASSUME NEW s \in Sessions, SessionStep(s) PROVE PickupInv'
  BY <1>1, <1>3, SessionTyped DEF PickupInv
<1> QED BY <1>2, <1>3 DEF PickupNext

-----------------------------------------------------------------------------
(***************************************************************************)
(* Claims.  A delete succeeds only on metadata, which it takes away; only  *)
(* a store brings metadata back, and it is counted in copies: so metadata  *)
(* that is there stands for a copy that no request has claimed yet.        *)
(***************************************************************************)
Unclaimed(h) == IF meta[h] = NoMeta THEN 0 ELSE 1

ClaimsCovered == \A h \in Hashes : claims[h] + Unclaimed(h) <= copies[h]

LEMMA ClaimsStore ==
  ASSUME PickupInv, ClaimsCovered, NEW d \in Dids, NEW h \in Hashes,
         StoreMessage(d, h), UNCHANGED claims
  PROVE  ClaimsCovered'
<1>1. /\ TypeOK /\ claims \in [Hashes -> Nat]
  BY DEF PickupInv, CountInv, IndexInv, PickupTypeOK
<1>2. \A g \in Hashes : copies[g] \in Nat /\ claims[g] \in Nat
  BY <1>1, CopiesAssumption DEF TypeOK
<1>3. StorePrefix(d, h) /\ \A g \in Hashes \ {h} : meta'[g] = meta[g]
  BY <1>1 DEF StoreMessage, StoreRefusedByReceiveQ, StoreRefusedBySendQ, StoreOk, TypeOK
<1>4. /\ copies'[h] = copies[h] + 1
      /\ \A g \in Hashes \ {h} : copies'[g] = copies[g]
  BY <1>1, <1>3 DEF StorePrefix, TypeOK
<1>5. ASSUME NEW g \in Hashes PROVE claims'[g] + Unclaimed(g)' <= copies'[g]
  BY <1>2, <1>3, <1>4 DEF ClaimsCovered, Unclaimed
<1> QED BY <1>5 DEF ClaimsCovered

LEMMA ClaimsSession ==
  ASSUME PickupInv, ClaimsCovered, NEW s \in Sessions, SessionStep(s)
  PROVE  ClaimsCovered'
<1>1. CASE UNCHANGED <<vars, claims>>
  BY <1>1 DEF vars, ClaimsCovered, Unclaimed
<1>2. CASE DeleteNext(s) /\ DeleteMessage(DidOf[s], Head(req[s].todo))
               /\ claims' = [claims EXCEPT ![Head(req[s].todo)] = @ + 1]
  <2> DEFINE h == Head(req[s].todo)
  <2>1. h \in Hashes /\ TypeOK /\ claims \in [Hashes -> Nat]
    BY <1>2, HeadOfTodo DEF DeleteNext, PickupInv, PickupTypeOK, CountInv, IndexInv
  <2> HIDE DEF h
  <2>2. \A g \in Hashes : copies[g] \in Nat /\ claims[g] \in Nat
    BY <2>1, CopiesAssumption DEF TypeOK
  <2>3. /\ meta[h] # NoMeta /\ meta'[h] = NoMeta /\ copies' = copies
        /\ \A g \in Hashes \ {h} : meta'[g] = meta[g]
    BY <1>2, <2>1 DEF DeleteMessage, Owns, ForgetMeta, TypeOK, h
  <2>4. claims'[h] = claims[h] + 1 /\ \A g \in Hashes \ {h} : claims'[g] = claims[g]
    BY <1>2, <2>1 DEF h
  <2>5. ASSUME NEW g \in Hashes PROVE claims'[g] + Unclaimed(g)' <= copies'[g]
    BY <2>2, <2>3, <2>4 DEF ClaimsCovered, Unclaimed
  <2> QED BY <2>5 DEF ClaimsCovered
<1>3. CASE DeleteNext(s)
  BY <1>1, <1>2, <1>3 DEF DeleteNext
<1>4. CASE ~DeleteNext(s)
  BY <1>1, <1>4 DEF SessionStep, Fetch, ListMessages, DeliveryRequest, Outbound,
     MessagesReceived, DeleteRequest, Accept, GetNext, Respond, Disconnect
<1> QED BY <1>3, <1>4

\* What every step of either specification does to the claims.
LEMMA ClaimsPickupStep ==
  ASSUME PickupInv, ClaimsCovered, [PickupNext]_pickupVars
  PROVE  ClaimsCovered'
<1>1. CASE Tick /\ UNCHANGED requestVars
  BY <1>1 DEF Tick, requestVars, ClaimsCovered, Unclaimed
<1>2. ASSUME NEW d \in Dids, NEW h \in Hashes, StoreMessage(d, h), UNCHANGED requestVars
      PROVE  ClaimsCovered'
  BY <1>2, ClaimsStore DEF requestVars
<1>3. ASSUME NEW s \in Sessions, SessionStep(s) PROVE ClaimsCovered'
  BY <1>3, ClaimsSession
<1>4. CASE UNCHANGED pickupVars
  BY <1>4 DEF pickupVars, vars, requestVars, ClaimsCovered, Unclaimed
<1> QED BY <1>1, <1>2, <1>3, <1>4 DEF PickupNext, StoreStep

LEMMA ClaimsInit == PickupInit => ClaimsCovered
BY DEF PickupInit, Init, ClaimsCovered, Unclaimed

LEMMA CoveredMeansOnce == PickupInv /\ ClaimsCovered => ClaimedOnce
<1> SUFFICES ASSUME PickupInv, ClaimsCovered, NEW h \in Hashes PROVE claims[h] <= copies[h]
  BY DEF ClaimedOnce
<1>1. claims[h] \in Nat /\ copies[h] \in Nat
  BY CopiesAssumption DEF PickupInv, PickupTypeOK, CountInv, IndexInv, TypeOK
<1> QED BY <1>1 DEF ClaimsCovered, Unclaimed

(***************************************************************************)
(* However many requests race to delete a text, no more of them succeed    *)
(* than the text was stored: "deleted" in an answer is a claim on a copy,  *)
(* also when a fetch with the policy Optimistic, a delete and a            *)
(* messages-received of one DID run at the same time.                      *)
(***************************************************************************)
THEOREM ClaimsAreExclusive == PickupSpec => []ClaimedOnce
<1>1. PickupInit => PickupInv /\ ClaimsCovered
  BY PickupInvInit, ClaimsInit
<1>2. (PickupInv /\ ClaimsCovered) /\ [PickupNext]_pickupVars => (PickupInv /\ ClaimsCovered)'
  BY PickupInvStep, ClaimsPickupStep
<1>3. PickupInv /\ ClaimsCovered => ClaimedOnce
  BY CoveredMeansOnce
<1> QED BY <1>1, <1>2, <1>3, PTL DEF PickupSpec

-----------------------------------------------------------------------------
(***************************************************************************)
(* Reading before deleting.  When clients do not ask for texts to be       *)
(* deleted as they are read, the ids that a running request may still      *)
(* delete are of texts its client has.                                     *)
(***************************************************************************)
ReadsBeforeDeletes ==
  \A s \in Sessions :
    /\ req[s].op \in {"received", "delete"} => ToSet(req[s].todo) \subseteq got[s].texts
    /\ req[s].op = "fetch" => req[s].todo = <<>>
    /\ req[s].held => req[s].op = "received"
    /\ req[s].delete => req[s].op \in {"received", "delete"}

LEMMA ReadsInit == PickupInit => ReadsBeforeDeletes
BY DEF PickupInit, Idle, Request, ReadsBeforeDeletes

LEMMA ReadsSession ==
  ASSUME ~DeleteUnread, PickupInv, ReadsBeforeDeletes, NEW s \in Sessions, SessionStep(s)
  PROVE  ReadsBeforeDeletes'
<1>1. PickupTypeOK /\ req \in [Sessions -> RequestType] /\ got \in [Sessions -> ContentType]
  BY DEF PickupInv, PickupTypeOK
<1>2. ASSUME NEW r, Accept(s, r), ~r.held,
             r.op \in {"received", "delete"} => ToSet(r.todo) \subseteq got[s].texts,
             r.op = "fetch" => r.todo = <<>>,
             r.delete => r.op \in {"received", "delete"}
      PROVE  ReadsBeforeDeletes'
  BY <1>1, <1>2 DEF Accept, ReadsBeforeDeletes
<1>3. ASSUME NEW start, NEW optimistic \in BOOLEAN, Fetch(s, start, optimistic)
      PROVE  ReadsBeforeDeletes'
  <2>1. ~optimistic
    BY <1>3 DEF Fetch
  <2> DEFINE page == FetchMessages(DidOf[s], start, Limit)
             r == Request("fetch", optimistic, <<>>, Contents(ToSet(page)), NextStart(page, start))
  <2>2. Accept(s, r)
    BY <1>3, <2>1 DEF Fetch
  <2>3. ~r.held /\ r.op = "fetch" /\ r.todo = <<>> /\ ~r.delete
    BY <2>1 DEF Request
  <2> HIDE DEF r
  <2> QED BY <1>2, <2>2, <2>3
<1>4. ASSUME NEW did \in Dids, NEW folder \in Folders, ListMessages(s, did, folder)
      PROVE  ReadsBeforeDeletes'
  <2> DEFINE r == [Request("list", FALSE, <<>>, Nothing, cursor[s]) EXCEPT
                     !.listed = IF did = DidOf[s] THEN Listed(did, folder) ELSE {}]
  <2>1. Accept(s, r)
    BY <1>4 DEF ListMessages
  <2>2. ~r.held /\ r.op = "list" /\ ~r.delete
    BY ListIsTyped DEF PickupInv, CountInv, IndexInv
  <2> HIDE DEF r
  <2> QED BY <1>2, <2>1, <2>2
<1>5. ASSUME NEW recipient, NEW limit, DeliveryRequest(s, recipient, limit)
      PROVE  ReadsBeforeDeletes'
  BY <1>2, <1>5 DEF DeliveryRequest, Request
<1>6. ASSUME NEW ids, NEW delete \in BOOLEAN, Outbound(s, ids, delete) PROVE ReadsBeforeDeletes'
  BY <1>2, <1>6 DEF Outbound, Request
<1>7. ASSUME NEW ids, MessagesReceived(s, ids) PROVE ReadsBeforeDeletes'
  BY <1>2, <1>7 DEF MessagesReceived, Request
<1>8. ASSUME NEW ids, DeleteRequest(s, ids) PROVE ReadsBeforeDeletes'
  BY <1>2, <1>8 DEF DeleteRequest, Request
<1>9. ASSUME req[s].todo # <<>>, UNCHANGED got, \A c \in Sessions \ {s} : req'[c] = req[c],
             req'[s].op = req[s].op, req'[s].delete = req[s].delete,
             req'[s].todo \in {req[s].todo, Tail(req[s].todo)},
             req'[s].held => req[s].op = "received"
      PROVE  ReadsBeforeDeletes'
  <2>1. ToSet(Tail(req[s].todo)) \subseteq ToSet(req[s].todo)
    BY <1>1, <1>9, HeadOfTodo
  <2> QED BY <1>9, <2>1 DEF ReadsBeforeDeletes
<1>10. CASE GetNext(s)
  <2>1. req[s] \in RequestType
    BY <1>1
  <2>2. /\ req[s].todo # <<>> /\ UNCHANGED got /\ \A c \in Sessions \ {s} : req'[c] = req[c]
        /\ req[s].op \in {"outbound", "received"}
    BY <1>1, <1>10 DEF GetNext
  <2>3. /\ req'[s].op = req[s].op /\ req'[s].delete = req[s].delete
        /\ req'[s].todo \in {req[s].todo, Tail(req[s].todo)}
        /\ req'[s].held => req[s].delete
    BY <1>1, <1>10, <2>1 DEF GetNext, RequestType, ContentType
  <2>4. req'[s].held => req[s].op = "received"
    BY <2>2, <2>3 DEF ReadsBeforeDeletes
  <2> QED BY <1>9, <2>2, <2>3, <2>4
<1>13. CASE DeleteNext(s)
  <2>1. req[s] \in RequestType
    BY <1>1
  <2>2. req[s].todo # <<>> /\ UNCHANGED got /\ \A c \in Sessions \ {s} : req'[c] = req[c]
    BY <1>1, <1>13 DEF DeleteNext
  <2>3. /\ req'[s].op = req[s].op /\ req'[s].delete = req[s].delete
        /\ req'[s].todo = Tail(req[s].todo) /\ ~req'[s].held
    BY <1>1, <1>13, <2>1 DEF DeleteNext, RequestType
  <2> QED BY <1>9, <2>2, <2>3
<1>11. CASE Respond(s)
  BY <1>1, <1>11 DEF Respond, Idle, Request, ContentType, ReadsBeforeDeletes
<1>12. CASE Disconnect(s)
  BY <1>1, <1>12 DEF Disconnect, Idle, Request, ReadsBeforeDeletes
<1> QED BY <1>3, <1>4, <1>5, <1>6, <1>7, <1>8, <1>10, <1>11, <1>12, <1>13 DEF SessionStep

\* A delete of a request takes a text that its client has.
LEMMA DeletesWhatWasRead ==
  ASSUME PickupInv, ReadsBeforeDeletes, NEW s \in Sessions, SessionStep(s),
         NEW h \in Hashes, meta[h] # NoMeta, meta'[h] = NoMeta
  PROVE  DidOf[s] = meta[h].to /\ h \in got[s].texts
<1>1. CASE DeleteNext(s)
  <2> DEFINE g == Head(req[s].todo)
  <2>1. g \in Hashes /\ g \in ToSet(req[s].todo) /\ TypeOK
    BY <1>1, HeadOfTodo DEF DeleteNext, PickupInv, CountInv, IndexInv
  <2>2. DeleteMessage(DidOf[s], g)
    BY <1>1 DEF DeleteNext, vars
  <2>3. g = h
    BY <2>1, <2>2 DEF DeleteMessage, ForgetMeta, TypeOK
  <2>4. DidOf[s] \in {meta[h].to, meta[h].from} /\ DidOf[s] \in Dids /\ meta[h].from = Mediator
    BY <2>1, <2>2, <2>3, DidOfAssumption DEF DeleteMessage, Owns, TypeOK, Meta
  <2>5. req[s].op \in {"received", "delete"}
    BY <1>1 DEF DeleteNext, ReadsBeforeDeletes
  <2> QED BY <2>1, <2>3, <2>4, <2>5, DidsAssumption DEF ReadsBeforeDeletes
<1>2. CASE ~DeleteNext(s)
  <2>1. UNCHANGED vars
    BY <1>2 DEF SessionStep, Fetch, ListMessages, DeliveryRequest, Outbound,
       MessagesReceived, DeleteRequest, Accept, GetNext, Respond, Disconnect
  <2> QED BY <2>1 DEF vars
<1> QED BY <1>1, <1>2

\* A step of the database by itself takes no metadata away.
LEMMA StoreKeepsMeta ==
  ASSUME TypeOK, StoreStep, NEW h \in Hashes, meta[h] # NoMeta
  PROVE  meta'[h] # NoMeta
<1>1. CASE Tick
  BY <1>1 DEF Tick
<1>2. ASSUME NEW d \in Dids, NEW g \in Hashes, StoreMessage(d, g) PROVE meta'[h] # NoMeta
  <2>1. CASE StoreOk(d, g)
    <3>1. MetaOf(d).to = d /\ MetaOf(d).from = Mediator
          /\ MetaOf(d).receive_id = ReceiveId(d) /\ MetaOf(d).send_id = SendId
      BY DEF MetaOf
    <3>2. Now \in Nat /\ CanAppend(recvLast[d], Now) /\ CanAppend(sendLast, Now)
      BY <2>1, StreamTimeNat DEF StoreOk, Now, TypeOK
    <3>3. ReceiveId(d) \in StreamId /\ SendId \in StreamId
      BY <3>2, AppendIdAbove DEF TypeOK, ReceiveId, SendId
    <3>4. MetaOf(d) \in Meta
      BY <3>3 DEF MetaOf, Meta
    <3> QED BY <2>1, <3>4, NoMetaAssumption DEF StoreOk, TypeOK
  <2>2. CASE ~StoreOk(d, g)
    BY <1>2, <2>2 DEF StoreMessage, StoreRefusedByReceiveQ, StoreRefusedBySendQ
  <2> QED BY <2>1, <2>2
<1> QED BY <1>1, <1>2 DEF StoreStep

\* The step of NoUnreadLoss.
ReadWhenGone ==
  \A h \in Hashes : meta[h] # NoMeta /\ meta'[h] = NoMeta =>
     \E s \in Sessions : DidOf[s] = meta[h].to /\ h \in got[s].texts

LEMMA ReadsPickupStep ==
  ASSUME ~DeleteUnread, PickupInv, ReadsBeforeDeletes, [PickupNext]_pickupVars
  PROVE  ReadsBeforeDeletes' /\ ReadWhenGone
<1>1. CASE StoreStep
  BY <1>1, StoreKeepsMeta
  DEF StoreStep, requestVars, ReadsBeforeDeletes, ReadWhenGone, PickupInv, CountInv, IndexInv
<1>2. ASSUME NEW s \in Sessions, SessionStep(s) PROVE ReadsBeforeDeletes' /\ ReadWhenGone
  BY <1>2, ReadsSession, DeletesWhatWasRead DEF ReadWhenGone
<1>3. CASE UNCHANGED pickupVars
  BY <1>3 DEF pickupVars, vars, requestVars, ReadsBeforeDeletes, ReadWhenGone
<1> QED BY <1>1, <1>2, <1>3 DEF PickupNext

(***************************************************************************)
(* When clients ask to delete only texts they have, the handlers, as loops *)
(* of calls that other requests come between and that can be cut off, let  *)
(* no text leave the database before a client of its receiver got it.      *)
(***************************************************************************)
THEOREM NothingLeavesUnread ==
  ASSUME ~DeleteUnread PROVE PickupSpec => NoUnreadLoss
<1>1. PickupInit => PickupInv /\ ReadsBeforeDeletes
  BY PickupInvInit, ReadsInit
<1>2. (PickupInv /\ ReadsBeforeDeletes) /\ [PickupNext]_pickupVars
        => (PickupInv /\ ReadsBeforeDeletes)' /\ [ReadWhenGone]_pickupVars
  BY PickupInvStep, ReadsPickupStep
<1>3. [][ReadWhenGone]_pickupVars => NoUnreadLoss
  BY PTL DEF NoUnreadLoss, ReadWhenGone
<1> QED BY <1>1, <1>2, <1>3, PTL DEF PickupSpec

-----------------------------------------------------------------------------
(* Posts *)

LEMMA PostFields ==
  ASSUME NEW x \in PostType
  PROVE  /\ x.pc \in {"idle", "publish", "store", "answer"}
         /\ x.pc = "idle" => x = NoPost
         /\ x.pc \in {"publish", "store"} =>
              x \in [pc : {"publish", "store"}, to : Dids, text : Hashes]
         /\ x.pc = "answer" => x \in [pc : {"answer"}, listed : SUBSET MessageFor]
BY DEF PostType, NoPost

\* A publication reaches clients and touches nothing else.
Published ==
  /\ \E s \in Sessions, texts \in SUBSET Hashes : got' = [got EXCEPT ![s].texts = @ \cup texts]
  /\ UNCHANGED <<vars, req, cursor, claims>>

\* What a step of the composition is for the database and the requests.
LEMMA InboundIsPickup ==
  ASSUME InboundTypeOK, [InboundNext]_inboundVars
  PROVE  [PickupNext]_pickupVars \/ Published
<1>1. ASSUME NEW p \in Posts, Post(p) PROVE UNCHANGED pickupVars
  BY <1>1 DEF Post, Forward, Ping, Unreadable, Unhandled, Ephemeral, NoRecipients, Unpackable, Accepted
<1>2. ASSUME NEW p \in Posts, TryLiveStream(p) PROVE UNCHANGED pickupVars \/ Published
  <2>1. post[p].text \in Hashes
    BY <1>2, PostFields DEF TryLiveStream, InboundTypeOK
  <2> QED BY <1>2, <2>1 DEF TryLiveStream, Published, pickupVars, requestVars
<1>3. ASSUME NEW p \in Posts, TryStore(p) PROVE StoreStep
  <2>1. post[p].text \in Hashes /\ post[p].to \in Dids
    BY <1>3, PostFields DEF TryStore, InboundTypeOK
  <2> QED BY <1>3, <2>1 DEF TryStore, StoreStep
<1>4. ASSUME NEW p \in Posts, Answered(p) \/ Cut(p) PROVE UNCHANGED pickupVars
  BY <1>4 DEF Answered, Cut
<1>5. ASSUME NEW s \in Sessions, ReadStep(s) PROVE SessionStep(s)
  BY <1>5 DEF ReadStep, SessionStep
<1>6. CASE Tick /\ UNCHANGED <<requestVars, postVars>>
  BY <1>6 DEF StoreStep, PickupNext
<1>7. CASE UNCHANGED inboundVars
  BY <1>7 DEF inboundVars
<1> QED BY <1>1, <1>2, <1>3, <1>4, <1>5, <1>6, <1>7 DEF InboundNext, PostStep, PickupNext

\* A publication keeps what the invariants say of requests and claims.
LEMMA PublishedKeeps ==
  ASSUME PickupInv, Published
  PROVE  /\ PickupInv'
         /\ ClaimsCovered => ClaimsCovered'
         /\ ReadsBeforeDeletes => ReadsBeforeDeletes'
<1>1. CountInv'
  BY NextCountInv DEF PickupInv, Published
<1>2. PICK s \in Sessions, texts \in SUBSET Hashes : got' = [got EXCEPT ![s].texts = @ \cup texts]
  BY DEF Published
<1>3. got \in [Sessions -> ContentType]
  BY DEF PickupInv, PickupTypeOK
<1>4. got' \in [Sessions -> ContentType]
  BY <1>2, <1>3 DEF ContentType
<1>5. \A c \in Sessions : got[c].texts \subseteq got'[c].texts
  BY <1>2, <1>3 DEF ContentType
<1>6. PickupTypeOK'
  BY <1>4 DEF PickupInv, PickupTypeOK, Published
<1>7. ClaimsCovered => ClaimsCovered'
  BY DEF Published, vars, ClaimsCovered, Unclaimed
<1>8. ReadsBeforeDeletes => ReadsBeforeDeletes'
  BY <1>5 DEF Published, ReadsBeforeDeletes
<1> QED BY <1>1, <1>6, <1>7, <1>8 DEF PickupInv

InboundInv == PickupInv /\ InboundTypeOK /\ ClaimsCovered

LEMMA InboundInvInit == InboundInit => InboundInv
<1> SUFFICES ASSUME InboundInit PROVE InboundInv
  OBVIOUS
<1>1. PickupInv /\ ClaimsCovered
  BY PickupInvInit, ClaimsInit DEF InboundInit
<1> QED BY <1>1 DEF InboundInit, InboundInv, InboundTypeOK, PostType, PickupInv

\* An answer lists a text for a DID once or not at all.
LEMMA ListedOnce ==
  ASSUME NEW x, NEW L
  PROVE  Cardinality({x} \cap L) = IF x \in L THEN 1 ELSE 0
<1>1. CASE x \in L
  <2>1. {x} \cap L = {x}
    BY <1>1
  <2> QED BY <1>1, <2>1, FS_Singleton
<1>2. CASE x \notin L
  <2>1. {x} \cap L = {}
    BY <1>2
  <2> QED BY <1>2, <2>1, FS_EmptySet
<1> QED BY <1>1, <1>2

\* Posts and counts of answers keep their types.
LEMMA InboundTyped ==
  ASSUME InboundTypeOK, [InboundNext]_inboundVars
  PROVE  post' \in [Posts -> PostType] /\ told' \in [Dids -> [Hashes -> Nat]]
<1>1. post \in [Posts -> PostType] /\ told \in [Dids -> [Hashes -> Nat]]
  BY DEF InboundTypeOK
<1>2. ASSUME NEW p \in Posts, NEW x \in PostType, post' = [post EXCEPT ![p] = x], UNCHANGED told
      PROVE  post' \in [Posts -> PostType] /\ told' \in [Dids -> [Hashes -> Nat]]
  BY <1>1, <1>2
<1>3. ASSUME NEW p \in Posts, Post(p)
      PROVE  post' \in [Posts -> PostType] /\ told' \in [Dids -> [Hashes -> Nat]]
  <2>1. \A d \in Dids, h \in Hashes : At("publish", d, h) \in PostType
    BY DEF At, PostType
  <2>2. Answer({}) \in PostType
    BY DEF Answer, PostType
  <2>3. \E x \in PostType : Accepted(p, x)
    BY <1>3, <2>1, <2>2 DEF Post, Forward, Ping, Unreadable, Unhandled, Ephemeral, NoRecipients, Unpackable
  <2> QED BY <1>2, <2>3 DEF Accepted
<1>4. ASSUME NEW p \in Posts, TryLiveStream(p)
      PROVE  post' \in [Posts -> PostType] /\ told' \in [Dids -> [Hashes -> Nat]]
  <2>1. post[p] \in [pc : {"publish", "store"}, to : Dids, text : Hashes]
    BY <1>1, <1>4, PostFields DEF TryLiveStream
  <2>2. [post[p] EXCEPT !.pc = "store"] \in PostType
    BY <2>1 DEF PostType
  <2> QED BY <1>2, <1>4, <2>2 DEF TryLiveStream
<1>5. ASSUME NEW p \in Posts, TryStore(p)
      PROVE  post' \in [Posts -> PostType] /\ told' \in [Dids -> [Hashes -> Nat]]
  <2>1. post[p].to \in Dids /\ post[p].text \in Hashes
    BY <1>1, <1>5, PostFields DEF TryStore
  <2>2. [to |-> post[p].to, text |-> post[p].text] \in MessageFor
    BY <2>1 DEF MessageFor
  <2>3. \A L \in SUBSET MessageFor : Answer(L) \in PostType
    BY DEF Answer, PostType
  <2>4. \E L \in SUBSET MessageFor : post' = [post EXCEPT ![p] = Answer(L)]
    BY <1>5, <2>2 DEF TryStore
  <2> QED BY <1>2, <1>5, <2>3, <2>4 DEF TryStore
<1>6. ASSUME NEW p \in Posts, Answered(p)
      PROVE  post' \in [Posts -> PostType] /\ told' \in [Dids -> [Hashes -> Nat]]
  <2>1. ASSUME NEW d \in Dids, NEW h \in Hashes
        PROVE  Cardinality({[to |-> d, text |-> h]} \cap post[p].listed) \in Nat
    BY ListedOnce
  <2>2. told' \in [Dids -> [Hashes -> Nat]]
    BY <1>1, <1>6, <2>1 DEF Answered
  <2>3. post' \in [Posts -> PostType]
    BY <1>1, <1>6 DEF Answered, PostType
  <2> QED BY <2>2, <2>3
<1>7. ASSUME NEW p \in Posts, Cut(p)
      PROVE  post' \in [Posts -> PostType] /\ told' \in [Dids -> [Hashes -> Nat]]
  BY <1>1, <1>7 DEF Cut, PostType
<1>8. CASE UNCHANGED postVars
  BY <1>1, <1>8 DEF postVars
<1>9. ASSUME NEW s \in Sessions, ReadStep(s) PROVE UNCHANGED postVars
  BY <1>9 DEF ReadStep
<1>10. UNCHANGED inboundVars => UNCHANGED postVars
  BY DEF inboundVars
<1> QED BY <1>3, <1>4, <1>5, <1>6, <1>7, <1>8, <1>9, <1>10 DEF InboundNext, PostStep

LEMMA InboundInvStep == InboundInv /\ [InboundNext]_inboundVars => InboundInv'
<1> SUFFICES ASSUME InboundInv, [InboundNext]_inboundVars PROVE InboundInv'
  OBVIOUS
<1>1. PickupInv /\ ClaimsCovered /\ InboundTypeOK
  BY DEF InboundInv
<1>2. [PickupNext]_pickupVars \/ Published
  BY <1>1, InboundIsPickup
<1>3. PickupInv' /\ ClaimsCovered'
  BY <1>1, <1>2, PickupInvStep, ClaimsPickupStep, PublishedKeeps
<1>4. post' \in [Posts -> PostType] /\ told' \in [Dids -> [Hashes -> Nat]]
  BY <1>1, InboundTyped
<1> QED BY <1>3, <1>4 DEF InboundInv, InboundTypeOK, PickupInv

\* What posts and requests hold is well formed whatever comes in between.
THEOREM InboundTypesCorrect == InboundSpec => []InboundTypeOK
<1>1. InboundInv => InboundTypeOK BY DEF InboundInv
<1> QED BY InboundInvInit, InboundInvStep, <1>1, PTL DEF InboundSpec

THEOREM InboundClaimsAreExclusive == InboundSpec => []ClaimedOnce
<1>1. InboundInv => ClaimedOnce
  BY CoveredMeansOnce DEF InboundInv
<1> QED BY InboundInvInit, InboundInvStep, <1>1, PTL DEF InboundSpec

(***************************************************************************)
(* No text leaves the database unread either when posts, posts again of    *)
(* one text and live deliveries come between the steps of the requests.    *)
(***************************************************************************)
THEOREM NothingPostedLeavesUnread ==
  ASSUME ~DeleteUnread PROVE InboundSpec => NoUnreadLoss
<1>1. InboundInit => InboundInv /\ ReadsBeforeDeletes
  BY InboundInvInit, ReadsInit DEF InboundInit
<1>2. (InboundInv /\ ReadsBeforeDeletes) /\ [InboundNext]_inboundVars
        => (InboundInv /\ ReadsBeforeDeletes)' /\ [ReadWhenGone]_pickupVars
  <2> SUFFICES ASSUME InboundInv, ReadsBeforeDeletes, [InboundNext]_inboundVars
               PROVE  InboundInv' /\ ReadsBeforeDeletes' /\ ReadWhenGone
    OBVIOUS
  <2>1. [PickupNext]_pickupVars \/ Published
    BY InboundIsPickup DEF InboundInv
  <2>2. CASE [PickupNext]_pickupVars
    BY <2>2, InboundInvStep, ReadsPickupStep DEF InboundInv
  <2>3. CASE Published
    BY <2>3, InboundInvStep, PublishedKeeps DEF InboundInv, Published, vars, ReadWhenGone
  <2> QED BY <2>1, <2>2, <2>3
<1>3. [][ReadWhenGone]_pickupVars => NoUnreadLoss
  BY PTL DEF NoUnreadLoss, ReadWhenGone
<1> QED BY <1>1, <1>2, <1>3, PTL DEF InboundSpec

-----------------------------------------------------------------------------
(***************************************************************************)
(* Answers.  A post that is about to be answered has its copy queued, or a *)
(* delete of the text succeeded since: so the answers that were given and  *)
(* those that are ready are together covered by copies and claims.         *)
(***************************************************************************)
Queued(d, h) == {e \in recvQ[d] : e.msg = h}
Ready(d, h) ==
  {p \in Posts : post[p].pc = "answer" /\ [to |-> d, text |-> h] \in post[p].listed}

AnswersCovered ==
  \A d \in Dids, h \in Hashes :
    /\ IsFiniteSet(Ready(d, h))
    /\ told[d][h] + Cardinality(Ready(d, h)) <= Cardinality(Queued(d, h)) + claims[h]

\* A store adds at most to what is queued, and one copy when it is accepted.
LEMMA QueuedAfterStore ==
  ASSUME CountInv, NEW d \in Dids, NEW h \in Hashes, StoreMessage(d, h),
         NEW c \in Dids, NEW g \in Hashes
  PROVE  /\ IsFiniteSet(Queued(c, g)) /\ IsFiniteSet(Queued(c, g)')
         /\ Cardinality(Queued(c, g)) \in Nat /\ Cardinality(Queued(c, g)') \in Nat
         /\ Cardinality(Queued(c, g)) <= Cardinality(Queued(c, g)')
         /\ c = d /\ g = h /\ Stored(d) =>
              Cardinality(Queued(c, g)') = Cardinality(Queued(c, g)) + 1
<1>1. IndexInv /\ TypeOK /\ CountInv'
  BY StoreCountInv DEF CountInv, IndexInv
<1>2. IsFiniteSet(recvQ[c]) /\ IsFiniteSet(recvQ'[c])
  BY <1>1 DEF CountInv
<1>3. /\ Queued(c, g)' = {e \in recvQ'[c] : e.msg = g}
      /\ IsFiniteSet(Queued(c, g)) /\ IsFiniteSet(Queued(c, g)')
  BY <1>2, FS_Subset DEF Queued
<1>4. recvQ[c] \subseteq recvQ'[c]
  BY <1>1, AppendReceiveSound
  DEF StoreMessage, StoreRefusedByReceiveQ, StoreRefusedBySendQ, StoreOk, queueVars
<1>5. Queued(c, g) \subseteq Queued(c, g)'
  BY <1>3, <1>4 DEF Queued
<1>6. /\ Cardinality(Queued(c, g)) \in Nat /\ Cardinality(Queued(c, g)') \in Nat
      /\ Cardinality(Queued(c, g)) <= Cardinality(Queued(c, g)')
  BY <1>3, <1>5, FS_Subset, FS_CardinalityType
<1>7. ASSUME c = d, g = h, Stored(d)
      PROVE  Cardinality(Queued(c, g)') = Cardinality(Queued(c, g)) + 1
  <2> DEFINE x == [id |-> ReceiveId(d), msg |-> h]
  <2>1. CanAppend(recvLast[d], Now) /\ AppendReceive(d, h)
    BY <1>7 DEF Stored, StoreMessage, StoreRefusedByReceiveQ, StoreRefusedBySendQ, StoreOk
  <2>2. recvQ'[d] = recvQ[d] \cup {x} /\ x \notin recvQ[d] /\ x.msg = h
    BY <1>1, <2>1, AppendReceiveSound
  <2>3. Queued(c, g)' = Queued(c, g) \cup {x} /\ x \notin Queued(c, g)
    BY <1>3, <1>7, <2>2 DEF Queued
  <2> QED BY <1>3, <2>3, FS_AddElement
<1> QED BY <1>3, <1>6, <1>7

\* A delete takes at most one copy, and of the text it is for.
LEMMA QueuedAfterDelete ==
  ASSUME CountInv, NEW d \in Dids, NEW h \in Hashes, DeleteMessage(d, h),
         NEW c \in Dids, NEW g \in Hashes
  PROVE  /\ Cardinality(Queued(c, g)) \in Nat /\ Cardinality(Queued(c, g)') \in Nat
         /\ g # h => Cardinality(Queued(c, g)') = Cardinality(Queued(c, g))
         /\ Cardinality(Queued(c, g)) <= Cardinality(Queued(c, g)') + 1
<1> DEFINE r == [id |-> meta[h].receive_id, msg |-> h]
<1>1. IndexInv /\ TypeOK /\ meta[h] # NoMeta /\ IsFiniteSet(recvQ[c])
  BY DEF CountInv, IndexInv, DeleteMessage, Owns
<1>2. meta[h].to \in Dids /\ r \in recvQ[meta[h].to]
  BY <1>1 DEF IndexInv, IndexSound, TypeOK, Meta
<1>3. recvQ' = [recvQ EXCEPT ![meta[h].to] = WithoutId(@, meta[h].receive_id)]
  BY DEF DeleteMessage
<1>4. recvQ[c] \ {r} \subseteq recvQ'[c] /\ recvQ'[c] \subseteq recvQ[c]
  BY <1>1, <1>2, <1>3, DeleteTakesOwnEntries DEF TypeOK
<1>5. r.msg = h
  OBVIOUS
<1> HIDE DEF r
<1>6. Queued(c, g)' = {e \in recvQ'[c] : e.msg = g} /\ IsFiniteSet(Queued(c, g))
  BY <1>1, FS_Subset DEF Queued
<1>7. Queued(c, g) \ {r} \subseteq Queued(c, g)' /\ Queued(c, g)' \subseteq Queued(c, g)
  BY <1>4, <1>6 DEF Queued
<1>8. g # h => Queued(c, g)' = Queued(c, g)
  BY <1>4, <1>5, <1>6 DEF Queued
<1>9. /\ IsFiniteSet(Queued(c, g)') /\ IsFiniteSet(Queued(c, g) \ {r})
      /\ Cardinality(Queued(c, g) \ {r}) <= Cardinality(Queued(c, g)')
      /\ Cardinality(Queued(c, g)) \in Nat /\ Cardinality(Queued(c, g)') \in Nat
      /\ Cardinality(Queued(c, g) \ {r}) \in Nat
  BY <1>6, <1>7, FS_Subset, FS_CardinalityType
<1>10. Cardinality(Queued(c, g)) <= Cardinality(Queued(c, g) \ {r}) + 1
  <2>1. CASE r \in Queued(c, g)
    BY <1>6, <1>9, <2>1, FS_RemoveElement
  <2>2. CASE r \notin Queued(c, g)
    <3>1. Queued(c, g) \ {r} = Queued(c, g)
      BY <2>2
    <3> QED BY <1>9, <3>1
  <2> QED BY <2>1, <2>2
<1> QED BY <1>8, <1>9, <1>10

\* What the database and the requests do, posts apart, keeps answers covered.
LEMMA AnswersRead ==
  ASSUME InboundInv, AnswersCovered, UNCHANGED postVars,
         (Tick /\ UNCHANGED requestVars) \/ (\E s \in Sessions : SessionStep(s))
  PROVE  AnswersCovered'
<1>1. \A d \in Dids, h \in Hashes : Ready(d, h)' = Ready(d, h) /\ told'[d][h] = told[d][h]
  BY DEF postVars, Ready
<1>2. /\ CountInv /\ PickupTypeOK /\ claims \in [Hashes -> Nat] /\ told \in [Dids -> [Hashes -> Nat]]
      /\ post \in [Posts -> PostType]
  BY DEF InboundInv, PickupInv, PickupTypeOK, InboundTypeOK
<1>3. CASE UNCHANGED <<recvQ, claims>>
  <2>1. \A d \in Dids, h \in Hashes : Queued(d, h)' = Queued(d, h)
    BY <1>3 DEF Queued
  <2> QED BY <1>1, <1>3, <2>1 DEF AnswersCovered
<1>4. ASSUME NEW s \in Sessions, DeleteNext(s) PROVE AnswersCovered'
  <2> DEFINE h == Head(req[s].todo)
  <2>1. h \in Hashes /\ DidOf[s] \in Dids
    BY <1>2, <1>4, HeadOfTodo, DidOfAssumption DEF DeleteNext
  <2>2. CASE DeleteMessage(DidOf[s], h) /\ claims' = [claims EXCEPT ![h] = @ + 1]
    <3> HIDE DEF h
    <3> SUFFICES ASSUME NEW c \in Dids, NEW g \in Hashes
                 PROVE  told[c][g] + Cardinality(Ready(c, g))
                          <= Cardinality(Queued(c, g)') + claims'[g]
      BY <1>1 DEF AnswersCovered
    <3>1. /\ Cardinality(Queued(c, g)) \in Nat /\ Cardinality(Queued(c, g)') \in Nat
          /\ g # h => Cardinality(Queued(c, g)') = Cardinality(Queued(c, g))
          /\ Cardinality(Queued(c, g)) <= Cardinality(Queued(c, g)') + 1
      BY <1>2, <2>1, <2>2, QueuedAfterDelete
    <3>2. claims'[g] = IF g = h THEN claims[g] + 1 ELSE claims[g]
      BY <1>2, <2>1, <2>2
    <3>3. IsFiniteSet(Ready(c, g)) /\ Cardinality(Ready(c, g)) \in Nat
      BY FS_CardinalityType DEF AnswersCovered
    <3>4. told[c][g] \in Nat /\ claims[g] \in Nat
      BY <1>2
    <3>5. told[c][g] + Cardinality(Ready(c, g)) <= Cardinality(Queued(c, g)) + claims[g]
      BY DEF AnswersCovered
    <3> QED BY <3>1, <3>2, <3>3, <3>4, <3>5
  <2>3. CASE UNCHANGED <<vars, claims>>
    BY <1>3, <2>3 DEF vars, queueVars
  <2> QED BY <1>4, <2>2, <2>3 DEF DeleteNext
<1>5. ASSUME NEW s \in Sessions, SessionStep(s), ~DeleteNext(s) PROVE UNCHANGED <<recvQ, claims>>
  BY <1>5 DEF SessionStep, Fetch, ListMessages, DeliveryRequest, Outbound, MessagesReceived,
     DeleteRequest, Accept, GetNext, Respond, Disconnect, vars, queueVars
<1>6. CASE Tick /\ UNCHANGED requestVars
  BY <1>3, <1>6 DEF Tick, queueVars, requestVars
<1> QED BY <1>3, <1>4, <1>5, <1>6

\* A post is accepted, published, or ends: nothing is listed that was not.
LEMMA AnswersPost ==
  ASSUME InboundInv, AnswersCovered, NEW p \in Posts, NEW x \in PostType,
         post' = [post EXCEPT ![p] = x], x.pc = "answer" => x.listed = {},
         UNCHANGED <<vars, claims, told>>
  PROVE  AnswersCovered'
<1>1. post \in [Posts -> PostType] /\ claims \in [Hashes -> Nat] /\ told \in [Dids -> [Hashes -> Nat]]
  BY DEF InboundInv, PickupInv, PickupTypeOK, InboundTypeOK
<1> SUFFICES ASSUME NEW c \in Dids, NEW g \in Hashes
             PROVE  /\ IsFiniteSet(Ready(c, g)')
                    /\ told[c][g] + Cardinality(Ready(c, g)')
                          <= Cardinality(Queued(c, g)) + claims[g]
  BY DEF AnswersCovered, vars, queueVars, Queued
<1>2. Ready(c, g)' \subseteq Ready(c, g)
  BY <1>1 DEF Ready
<1>3. /\ IsFiniteSet(Ready(c, g))
      /\ told[c][g] + Cardinality(Ready(c, g)) <= Cardinality(Queued(c, g)) + claims[g]
  BY DEF AnswersCovered
<1>4. IsFiniteSet(recvQ[c])
  BY DEF InboundInv, PickupInv, CountInv
<1>5. Cardinality(Queued(c, g)) \in Nat
  BY <1>4, FS_Subset, FS_CardinalityType DEF Queued
<1>6. /\ IsFiniteSet(Ready(c, g)') /\ Cardinality(Ready(c, g)') \in Nat
      /\ Cardinality(Ready(c, g)') <= Cardinality(Ready(c, g)) /\ Cardinality(Ready(c, g)) \in Nat
  BY <1>2, <1>3, FS_Subset, FS_CardinalityType
<1>7. told[c][g] \in Nat /\ claims[g] \in Nat
  BY <1>1
<1> QED BY <1>3, <1>5, <1>6, <1>7

\* A store is listed only when its copy is queued.
LEMMA AnswersStore ==
  ASSUME InboundInv, AnswersCovered, NEW p \in Posts, TryStore(p)
  PROVE  AnswersCovered'
<1> DEFINE d == post[p].to
           h == post[p].text
           x == [to |-> d, text |-> h]
           L == IF Stored(d) THEN {x} ELSE {}
<1>1. /\ CountInv /\ post \in [Posts -> PostType] /\ claims \in [Hashes -> Nat]
      /\ told \in [Dids -> [Hashes -> Nat]]
  BY DEF InboundInv, PickupInv, PickupTypeOK, InboundTypeOK
<1>2. d \in Dids /\ h \in Hashes
  BY <1>1, PostFields DEF TryStore
<1>3. /\ StoreMessage(d, h) /\ UNCHANGED <<claims, told>>
      /\ post' = [post EXCEPT ![p] = Answer(L)] /\ post[p].pc = "store"
  BY DEF TryStore, requestVars
<1> HIDE DEF d, h
<1> SUFFICES ASSUME NEW c \in Dids, NEW g \in Hashes
             PROVE  /\ IsFiniteSet(Ready(c, g)')
                    /\ told[c][g] + Cardinality(Ready(c, g)')
                          <= Cardinality(Queued(c, g)') + claims[g]
  BY <1>3 DEF AnswersCovered
<1>4. /\ Cardinality(Queued(c, g)) \in Nat /\ Cardinality(Queued(c, g)') \in Nat
      /\ Cardinality(Queued(c, g)) <= Cardinality(Queued(c, g)')
      /\ c = d /\ g = h /\ Stored(d) =>
            Cardinality(Queued(c, g)') = Cardinality(Queued(c, g)) + 1
  BY <1>1, <1>2, <1>3, QueuedAfterStore
<1>5. /\ IsFiniteSet(Ready(c, g)) /\ Cardinality(Ready(c, g)) \in Nat
      /\ told[c][g] + Cardinality(Ready(c, g)) <= Cardinality(Queued(c, g)) + claims[g]
      /\ told[c][g] \in Nat /\ claims[g] \in Nat
  BY <1>1, FS_CardinalityType DEF AnswersCovered
<1>6. p \notin Ready(c, g) /\ post'[p] = Answer(L)
  BY <1>1, <1>3 DEF Ready
<1>7. \A q \in Posts \ {p} : post'[q] = post[q]
  BY <1>1, <1>3
<1>8. Answer(L).pc = "answer" /\ Answer(L).listed = L
  BY DEF Answer
<1> HIDE DEF L
<1>9. CASE [to |-> c, text |-> g] \in L
  <2>1. c = d /\ g = h /\ Stored(d)
    BY <1>9 DEF L
  <2>2. Ready(c, g)' = Ready(c, g) \cup {p}
    BY <1>6, <1>7, <1>8, <1>9 DEF Ready
  <2>3. IsFiniteSet(Ready(c, g)') /\ Cardinality(Ready(c, g)') = Cardinality(Ready(c, g)) + 1
    BY <1>5, <1>6, <2>2, FS_AddElement
  <2> QED BY <1>4, <1>5, <2>1, <2>3
<1>10. CASE [to |-> c, text |-> g] \notin L
  <2>1. Ready(c, g)' = Ready(c, g)
    BY <1>6, <1>7, <1>8, <1>10 DEF Ready
  <2> QED BY <1>4, <1>5, <2>1
<1> QED BY <1>9, <1>10

\* An answer that is given moves from the ready ones to those told.
LEMMA AnswersTold ==
  ASSUME InboundInv, AnswersCovered, NEW p \in Posts, Answered(p)
  PROVE  AnswersCovered'
<1>1. /\ post \in [Posts -> PostType] /\ told \in [Dids -> [Hashes -> Nat]]
      /\ UNCHANGED <<vars, claims>>
  BY DEF InboundInv, InboundTypeOK, Answered, pickupVars, requestVars
<1> SUFFICES ASSUME NEW c \in Dids, NEW g \in Hashes
             PROVE  /\ IsFiniteSet(Ready(c, g)')
                    /\ told'[c][g] + Cardinality(Ready(c, g)')
                          <= Cardinality(Queued(c, g)) + claims[g]
  BY <1>1 DEF AnswersCovered, vars, queueVars, Queued
<1> DEFINE x == [to |-> c, text |-> g]
<1>2. told'[c][g] = told[c][g] + (IF x \in post[p].listed THEN 1 ELSE 0)
  BY <1>1, ListedOnce DEF Answered
<1>3. /\ IsFiniteSet(Ready(c, g)) /\ Cardinality(Ready(c, g)) \in Nat
      /\ told[c][g] + Cardinality(Ready(c, g)) <= Cardinality(Queued(c, g)) + claims[g]
      /\ told[c][g] \in Nat
  BY <1>1, FS_CardinalityType DEF AnswersCovered
<1>4. Ready(c, g)' = Ready(c, g) \ {p}
  BY <1>1 DEF Ready, Answered, NoPost
<1>5. p \in Ready(c, g) <=> x \in post[p].listed
  BY DEF Ready, Answered
<1>6. CASE p \in Ready(c, g)
  <2>1. IsFiniteSet(Ready(c, g)') /\ Cardinality(Ready(c, g)') = Cardinality(Ready(c, g)) - 1
    BY <1>3, <1>4, <1>6, FS_RemoveElement
  <2>2. told'[c][g] = told[c][g] + 1
    BY <1>2, <1>5, <1>6
  <2>3. told'[c][g] + Cardinality(Ready(c, g)') = told[c][g] + Cardinality(Ready(c, g))
    BY <1>3, <2>1, <2>2
  <2> QED BY <1>3, <2>1, <2>3
<1>7. CASE p \notin Ready(c, g)
  <2>1. Ready(c, g)' = Ready(c, g) /\ told'[c][g] = told[c][g]
    BY <1>2, <1>3, <1>4, <1>5, <1>7
  <2> QED BY <1>3, <2>1
<1> QED BY <1>6, <1>7

LEMMA AnswersStep ==
  ASSUME InboundInv, AnswersCovered, [InboundNext]_inboundVars
  PROVE  AnswersCovered'
<1>1. post \in [Posts -> PostType]
  BY DEF InboundInv, InboundTypeOK
<1>2. ASSUME NEW p \in Posts, Post(p) PROVE AnswersCovered'
  <2>1. /\ Answer({}) \in PostType /\ Answer({}).listed = {}
        /\ \A d \in Dids, h \in Hashes :
              At("publish", d, h) \in PostType /\ At("publish", d, h).pc # "answer"
    BY DEF Answer, At, PostType
  <2>2. \E x \in PostType : Accepted(p, x) /\ (x.pc = "answer" => x.listed = {})
    BY <1>2, <2>1 DEF Post, Forward, Ping, Unreadable, Unhandled, Ephemeral, NoRecipients, Unpackable
  <2> QED BY <2>2, AnswersPost DEF Accepted, pickupVars, requestVars
<1>3. ASSUME NEW p \in Posts, TryLiveStream(p) PROVE AnswersCovered'
  <2>1. post[p] \in [pc : {"publish", "store"}, to : Dids, text : Hashes]
    BY <1>1, <1>3, PostFields DEF TryLiveStream
  <2> DEFINE x == [post[p] EXCEPT !.pc = "store"]
  <2>2. x \in PostType /\ x.pc = "store"
    BY <2>1 DEF PostType
  <2>3. post' = [post EXCEPT ![p] = x] /\ UNCHANGED <<vars, claims, told>>
    BY <1>3 DEF TryLiveStream
  <2> HIDE DEF x
  <2> QED BY <2>2, <2>3, AnswersPost
<1>4. ASSUME NEW p \in Posts, Cut(p) PROVE AnswersCovered'
  <2>1. NoPost \in PostType /\ NoPost.pc # "answer"
    BY DEF NoPost, PostType
  <2> QED BY <1>4, <2>1, AnswersPost DEF Cut, pickupVars, requestVars
<1>5. ASSUME NEW s \in Sessions, ReadStep(s) PROVE AnswersCovered'
  BY <1>5, AnswersRead DEF ReadStep, SessionStep
<1>6. CASE UNCHANGED inboundVars
  BY <1>6 DEF inboundVars, pickupVars, requestVars, postVars, vars, queueVars,
     AnswersCovered, Queued, Ready
<1>7. CASE Tick /\ UNCHANGED <<requestVars, postVars>>
  BY <1>7, AnswersRead
<1> QED BY <1>2, <1>3, <1>4, <1>5, <1>6, <1>7, AnswersStore, AnswersTold
        DEF InboundNext, PostStep

(***************************************************************************)
(* "Stored" in an answer of POST /inbound can be relied on: each answer    *)
(* that lists a text stands for a copy of its own in the queue of the      *)
(* recipient, or for a delete of that text that succeeded; whatever other  *)
(* posts, repeats, refused stores, readers and dropped callers do.         *)
(***************************************************************************)
THEOREM StoredMeansQueued == InboundSpec => []ToldIsStored
<1>1. InboundInit => InboundInv /\ AnswersCovered
  <2> SUFFICES ASSUME InboundInit PROVE InboundInv /\ AnswersCovered
    OBVIOUS
  <2>1. ASSUME NEW d \in Dids, NEW h \in Hashes
        PROVE  Ready(d, h) = {} /\ Queued(d, h) = {} /\ told[d][h] = 0 /\ claims[h] = 0
    BY DEF InboundInit, PickupInit, Init, Ready, Queued, NoPost
  <2> QED BY <2>1, InboundInvInit, FS_EmptySet DEF AnswersCovered
<1>2. (InboundInv /\ AnswersCovered) /\ [InboundNext]_inboundVars => (InboundInv /\ AnswersCovered)'
  BY InboundInvStep, AnswersStep
<1>3. InboundInv /\ AnswersCovered => ToldIsStored
  <2> SUFFICES ASSUME InboundInv, AnswersCovered, NEW d \in Dids, NEW h \in Hashes
               PROVE  told[d][h] <= Cardinality({e \in recvQ[d] : e.msg = h}) + claims[h]
    BY DEF ToldIsStored
  <2>1. /\ Cardinality(Ready(d, h)) \in Nat
        /\ told[d][h] + Cardinality(Ready(d, h)) <= Cardinality(Queued(d, h)) + claims[h]
    BY FS_CardinalityType DEF AnswersCovered
  <2>2. told[d][h] \in Nat /\ claims[h] \in Nat /\ IsFiniteSet(recvQ[d])
    BY DEF InboundInv, PickupInv, PickupTypeOK, InboundTypeOK, CountInv
  <2>3. Cardinality(Queued(d, h)) \in Nat
    BY <2>2, FS_Subset, FS_CardinalityType DEF Queued
  <2> QED BY <2>1, <2>2, <2>3 DEF Queued
<1> QED BY <1>1, <1>2, <1>3, PTL DEF InboundSpec

-----------------------------------------------------------------------------
(***************************************************************************)
(* Paging.  A cursor, and the one a running request will leave, is not     *)
(* above the last id of the queue, and what is queued up to it was shown   *)
(* or is in the reply.  A page ends with an id of its own queue only under *)
(* clean use, where the metadata of every queued entry names that entry.   *)
(***************************************************************************)
ShownUpTo(d, id, shown) ==
  /\ ~IdLess(recvLast[d], id)
  /\ \A e \in recvQ[d] : ~IdLess(id, e.id) => e.id \in shown

PagesHaveNoGap ==
  \A s \in Sessions :
    /\ ShownUpTo(DidOf[s], cursor[s], got[s].shown)
    /\ req[s] # Idle =>
         ShownUpTo(DidOf[s], req[s].next, got[s].shown \cup req[s].reply.shown)

\* Stores and deletes do not add to what should have been shown.
LEMMA ShownKept ==
  ASSUME CountInv, [Next]_vars, NEW d \in Dids, NEW id \in StreamId, NEW shown,
         ShownUpTo(d, id, shown)
  PROVE  /\ ~IdLess(recvLast'[d], id)
         /\ \A e \in recvQ'[d] : ~IdLess(id, e.id) => e.id \in shown
<1>1. TypeOK /\ TypeOK' /\ IndexInv
  BY NextCountInv DEF CountInv, IndexInv
<1>2. /\ recvLast[d] \in StreamId /\ recvLast'[d] \in StreamId
      /\ \A e \in recvQ[d] \cup recvQ'[d] : e.id \in StreamId
  BY <1>1 DEF TypeOK, Entry
<1>3. recvLast'[d] = recvLast[d] \/ IdLess(recvLast[d], recvLast'[d])
  <2>1. ASSUME NEW c \in Dids, NEW h \in Hashes, StoreMessage(c, h)
        PROVE  recvLast'[d] = recvLast[d] \/ IdLess(recvLast[d], recvLast'[d])
    <3>1. Now \in Nat
      BY <1>1, StreamTimeNat DEF TypeOK, Now
    <3>2. CASE CanAppend(recvLast[c], Now) /\ AppendReceive(c, h)
      BY <1>1, <3>1, <3>2, AppendIdAbove DEF AppendReceive, ReceiveId, TypeOK
    <3> QED BY <2>1, <3>2 DEF StoreMessage, StoreRefusedByReceiveQ, StoreRefusedBySendQ,
               StoreOk, queueVars
  <2> QED BY <2>1 DEF Next, Tick, DeleteMessage, vars, queueVars
<1>4. \A e \in recvQ'[d] \ recvQ[d] : IdLess(recvLast[d], e.id)
  <2>1. ASSUME NEW c \in Dids, NEW h \in Hashes, StoreMessage(c, h)
        PROVE  \A e \in recvQ'[d] \ recvQ[d] : IdLess(recvLast[d], e.id)
    <3>1. Now \in Nat
      BY <1>1, StreamTimeNat DEF TypeOK, Now
    <3>2. CASE CanAppend(recvLast[c], Now) /\ AppendReceive(c, h)
      <4>1. IdLess(recvLast[c], ReceiveId(c))
        BY <1>1, <3>1, <3>2, AppendIdAbove DEF ReceiveId, TypeOK
      <4>2. /\ recvQ'[c] = recvQ[c] \cup {[id |-> ReceiveId(c), msg |-> h]}
            /\ \A b \in Dids \ {c} : recvQ'[b] = recvQ[b]
        BY <1>1, <3>2, AppendReceiveSound
      <4> QED BY <4>1, <4>2
    <3> QED BY <2>1, <3>2 DEF StoreMessage, StoreRefusedByReceiveQ, StoreRefusedBySendQ,
               StoreOk, queueVars
  <2>2. ASSUME NEW c \in Dids, NEW h \in Hashes, DeleteMessage(c, h)
        PROVE  recvQ'[d] \subseteq recvQ[d]
    BY <1>1, <2>2 DEF DeleteMessage, WithoutId, TypeOK
  <2> QED BY <2>1, <2>2 DEF Next, Tick, vars, queueVars
<1>5. ~IdLess(recvLast'[d], id)
  BY <1>2, <1>3, IdOrder DEF ShownUpTo
<1>6. \A e \in recvQ'[d] : ~IdLess(id, e.id) => e.id \in shown
  <2> SUFFICES ASSUME NEW e \in recvQ'[d], ~IdLess(id, e.id) PROVE e.id \in shown
    OBVIOUS
  <2>1. CASE e \in recvQ[d]
    BY <2>1 DEF ShownUpTo
  <2>2. CASE e \notin recvQ[d]
    <3>1. IdLess(recvLast[d], e.id) /\ ~IdLess(recvLast[d], id)
      BY <1>4, <2>2 DEF ShownUpTo
    <3>2. IdLess(id, e.id)
      BY <1>2, <3>1, IdOrder
    <3> QED BY <3>2
  <2> QED BY <2>1, <2>2
<1> QED BY <1>5, <1>6

\* A page shows what is between its start and the id it ends with.
LEMMA PageHasNoGap ==
  ASSUME CleanInv, CountInv, NEW d \in Dids, NEW start \in StreamId, NEW id \in StreamId,
         NEW shown, ShownUpTo(d, id, shown), ~IdLess(id, start)
  PROVE  LET page == FetchMessages(d, start, Limit)
         IN  ShownUpTo(d, NextStart(page, start), shown \cup Contents(ToSet(page)).shown)
<1> DEFINE page == FetchMessages(d, start, Limit)
           last == NextStart(page, start)
           R == RangeSet(recvQ[d], start, Limit)
<1>1. page \in Seq(FetchedEntry) /\ ToSet(page) = Fetchable(d, start, Limit)
  BY PageOfQueue
<1>2. TypeOK /\ Stream(recvQ[d]) /\ recvQ[d] \in SUBSET Entry /\ Limit \in Nat
  BY QueueIsStream, LimitAssumption DEF AcceptedLimits, CountInv, IndexInv
<1>3. R \subseteq recvQ[d] /\ \A e \in R : IdLess(start, e.id) /\ e.id \in StreamId
  BY <1>2 DEF RangeSet, Entry
<1>4. \A e \in R : Fetched(e).id = e.id /\ Fetched(e).receive_id = e.id
  BY <1>2, <1>3, FetchedType DEF CleanInv, Fetched
<1>5. Contents(ToSet(page)).shown = {e.id : e \in R}
  BY <1>1, <1>4 DEF Contents, Fetchable
<1>6. last = start \/ \E e \in R : last = e.id
  <2> DEFINE known == {i \in DOMAIN page : page[i].receive_id # ZeroId}
  <2> HIDE DEF page
  <2>1. CASE known = {}
    BY <2>1 DEF NextStart
  <2>2. CASE known # {}
    <3>1. Len(page) \in Nat /\ DOMAIN page = 1..Len(page)
      BY <1>1
    <3>2. Max(known) \in known
      BY <2>2, <3>1, MaxOfPositions
    <3>3. page[Max(known)] \in Fetchable(d, start, Limit)
      BY <1>1, <3>2 DEF ToSet
    <3>4. last = page[Max(known)].receive_id
      BY <2>2 DEF NextStart
    <3> QED BY <1>4, <3>3, <3>4 DEF Fetchable
  <2> QED BY <2>1, <2>2
<1> HIDE DEF last, page
<1>7. recvLast[d] \in StreamId /\ \A e \in recvQ[d] : e.id \in StreamId /\ ~IdLess(recvLast[d], e.id)
  BY <1>2 DEF CountInv, IndexInv, StreamsSound, StreamSound, TypeOK, Entry
<1>8. last \in StreamId /\ ~IdLess(recvLast[d], last)
  <2>1. ~IdLess(recvLast[d], start)
    BY <1>7, IdOrder DEF ShownUpTo
  <2> QED BY <1>3, <1>6, <1>7, <2>1
<1>9. ASSUME NEW e \in recvQ[d], ~IdLess(last, e.id)
      PROVE  e.id \in shown \cup {f.id : f \in R}
  <2>1. CASE ~IdLess(start, e.id)
    <3>1. ~IdLess(id, e.id)
      BY <1>7, <2>1, IdOrder
    <3> QED BY <3>1 DEF ShownUpTo
  <2>2. CASE IdLess(start, e.id)
    <3>1. PICK f \in R : last = f.id
      BY <1>6, <1>9, <2>2
    <3>2. e = f \/ IdLess(e.id, f.id)
      BY <1>2, <1>3, <1>7, <1>9, <3>1, IdOrder DEF Stream
    <3>3. e \in R
      BY <1>2, <2>2, <3>2, RangeSetHasNoGap
    <3> QED BY <3>3
  <2> QED BY <2>1, <2>2
<1> QED BY <1>5, <1>8, <1>9 DEF ShownUpTo, page, last

\* A request that reads nothing, or a part of the queue in no order, leaves
\* the cursor where it was.
LEMMA SameCursorHasNoGap ==
  ASSUME PickupInv, PagesHaveNoGap, NEW s \in Sessions, NEW r \in RequestType,
         Accept(s, r), r.next = cursor[s]
  PROVE  PagesHaveNoGap'
<1>1. req \in [Sessions -> RequestType] /\ UNCHANGED <<recvQ, recvLast, got, cursor>>
  BY DEF PickupInv, PickupTypeOK, Accept, vars, queueVars
<1>2. \A c \in Sessions : req'[c] = IF c = s THEN r ELSE req[c]
  BY <1>1 DEF Accept
<1>3. ShownUpTo(DidOf[s], r.next, got[s].shown \cup r.reply.shown)
  BY DEF PagesHaveNoGap, ShownUpTo
<1> QED BY <1>1, <1>2, <1>3 DEF PagesHaveNoGap, ShownUpTo

\* Nor does it matter what the database does while cursors stay.
LEMMA PagesKept ==
  ASSUME PickupInv, PagesHaveNoGap, [Next]_vars, UNCHANGED <<got, cursor>>,
         \A c \in Sessions : req'[c] # Idle =>
            /\ req[c] # Idle
            /\ req'[c].next = req[c].next
            /\ req'[c].reply.shown = req[c].reply.shown
  PROVE  PagesHaveNoGap'
<1> SUFFICES ASSUME NEW c \in Sessions
             PROVE  /\ ShownUpTo(DidOf[c], cursor[c], got[c].shown)'
                    /\ req'[c] # Idle =>
                         ShownUpTo(DidOf[c], req[c].next, got[c].shown \cup req[c].reply.shown)'
  BY DEF PagesHaveNoGap
<1>1. CountInv /\ cursor[c] \in StreamId /\ DidOf[c] \in Dids /\ req[c].next \in StreamId
  BY DidOfAssumption DEF PickupInv, PickupTypeOK, RequestType
<1>2. /\ ~IdLess(recvLast'[DidOf[c]], cursor[c])
      /\ \A e \in recvQ'[DidOf[c]] : ~IdLess(cursor[c], e.id) => e.id \in got[c].shown
  <2>1. ShownUpTo(DidOf[c], cursor[c], got[c].shown)
    BY DEF PagesHaveNoGap
  <2> QED BY <1>1, <2>1, ShownKept
<1>3. ASSUME req[c] # Idle
      PROVE  /\ ~IdLess(recvLast'[DidOf[c]], req[c].next)
             /\ \A e \in recvQ'[DidOf[c]] : ~IdLess(req[c].next, e.id) =>
                   e.id \in got[c].shown \cup req[c].reply.shown
  <2>1. ShownUpTo(DidOf[c], req[c].next, got[c].shown \cup req[c].reply.shown)
    BY <1>3 DEF PagesHaveNoGap
  <2> QED BY <1>1, <2>1, ShownKept
<1> QED BY <1>2, <1>3 DEF ShownUpTo

LEMMA PagesSession ==
  ASSUME CleanInv, PickupInv, PagesHaveNoGap, NEW s \in Sessions, SessionStep(s)
  PROVE  PagesHaveNoGap'
<1>1. /\ PickupTypeOK /\ CountInv /\ DidOf \in [Sessions -> Dids] /\ cursor[s] \in StreamId
      /\ req \in [Sessions -> RequestType] /\ got \in [Sessions -> ContentType]
      /\ cursor \in [Sessions -> StreamId]
  BY DidOfAssumption DEF PickupInv, PickupTypeOK
<1>2. TypeOK /\ recvLast[DidOf[s]] \in StreamId
  BY <1>1 DEF CountInv, IndexInv, TypeOK
<1>3. ASSUME NEW start \in {ZeroId, cursor[s]}, NEW optimistic \in BOOLEAN,
             Fetch(s, start, optimistic)
      PROVE  PagesHaveNoGap'
  <2> DEFINE page == FetchMessages(DidOf[s], start, Limit)
             todo == IF optimistic THEN [i \in DOMAIN page |-> page[i].msg] ELSE <<>>
             r == Request("fetch", optimistic, todo, Contents(ToSet(page)), NextStart(page, start))
  <2>1. start \in StreamId /\ ~IdLess(cursor[s], start)
    BY <1>1 DEF ZeroId, StreamId, IdLess
  <2>2. ShownUpTo(DidOf[s], NextStart(page, start), got[s].shown \cup Contents(ToSet(page)).shown)
    BY <1>1, <2>1, PageHasNoGap DEF PagesHaveNoGap
  <2>3. Accept(s, r)
    BY <1>3 DEF Fetch
  <2>4. r.next = NextStart(page, start) /\ r.reply = Contents(ToSet(page))
    BY DEF Request
  <2> HIDE DEF r, page
  <2>5. UNCHANGED <<recvQ, recvLast, got, cursor>>
    BY <2>3 DEF Accept, vars, queueVars
  <2>6. \A c \in Sessions : req'[c] = IF c = s THEN r ELSE req[c]
    BY <1>1, <2>3 DEF Accept
  <2> QED BY <2>2, <2>4, <2>5, <2>6 DEF PagesHaveNoGap, ShownUpTo
<1>4. ASSUME NEW did \in Dids, NEW folder \in Folders, ListMessages(s, did, folder)
      PROVE  PagesHaveNoGap'
  <2> DEFINE r == [Request("list", FALSE, <<>>, Nothing, cursor[s]) EXCEPT
                     !.listed = IF did = DidOf[s] THEN Listed(did, folder) ELSE {}]
  <2>1. Accept(s, r)
    BY <1>4 DEF ListMessages
  <2>2. r \in RequestType /\ r.next = cursor[s]
    BY ListIsTyped DEF PickupInv, CountInv, IndexInv
  <2> HIDE DEF r
  <2> QED BY <1>1, <2>1, <2>2, SameCursorHasNoGap
<1>5. ASSUME NEW recipient, NEW limit, DeliveryRequest(s, recipient, limit) PROVE PagesHaveNoGap'
  <2> DEFINE page == FetchMessages(DidOf[s], ZeroId, limit)
             texts == {r \in ToSet(page) : r.text /\ DeliveryBodyOk(s, recipient, limit)}
  <2>1. page \in Seq(FetchedEntry)
    BY <1>1, PageOfQueue DEF ZeroId, StreamId
  <2>2. texts \in SUBSET FetchedEntry
    <3> HIDE DEF page
    <3>1. \A i \in DOMAIN page : page[i] \in FetchedEntry
      BY <2>1
    <3> QED BY <3>1 DEF ToSet
  <2>3. Contents(texts) \in ContentType
    BY <2>2, ContentsAreTyped
  <2>4. Accept(s, Request("delivery", FALSE, <<>>, Contents(texts), cursor[s]))
    BY <1>5 DEF DeliveryRequest
  <2> HIDE DEF texts
  <2> QED BY <1>1, <2>3, <2>4, IdleIsTyped, RequestIsTyped, SameCursorHasNoGap DEF Request
<1>6. ASSUME NEW ids \in IdLists, NEW delete \in BOOLEAN,
             Outbound(s, ids, delete) \/ MessagesReceived(s, ids) \/ DeleteRequest(s, ids)
      PROVE  PagesHaveNoGap'
  <2>1. ids \in Seq(Hashes)
    BY IdListsAssumption
  <2>2. \E op \in {"outbound", "received", "delete"}, del \in BOOLEAN :
           Accept(s, Request(op, del, ids, Nothing, cursor[s]))
    BY <1>6 DEF Outbound, MessagesReceived, DeleteRequest
  <2> QED BY <1>1, <2>1, <2>2, IdleIsTyped, RequestIsTyped, SameCursorHasNoGap DEF Request
<1>7. ASSUME UNCHANGED <<got, cursor>>, \A c \in Sessions \ {s} : req'[c] = req[c],
             req[s] # Idle,
             req'[s] # Idle => req'[s].next = req[s].next /\ req'[s].reply.shown = req[s].reply.shown
      PROVE  PagesHaveNoGap'
  <2>1. [Next]_vars
    BY <1>1, PickupIsStore DEF PickupNext
  <2> QED BY <1>7, <2>1, PagesKept
<1>8. CASE GetNext(s)
  <2>1. req[s] \in RequestType
    BY <1>1
  <2>2. UNCHANGED <<got, cursor>> /\ (\A c \in Sessions \ {s} : req'[c] = req[c])
        /\ req[s] # Idle
    BY <1>1, <1>8 DEF GetNext, Idle, Request
  <2>3. req'[s].next = req[s].next /\ req'[s].reply.shown = req[s].reply.shown
    BY <1>1, <1>8, <2>1 DEF GetNext, RequestType, ContentType
  <2> QED BY <1>7, <2>2, <2>3
<1>9. CASE DeleteNext(s)
  <2>1. req[s] \in RequestType
    BY <1>1
  <2>2. UNCHANGED <<got, cursor>> /\ (\A c \in Sessions \ {s} : req'[c] = req[c])
        /\ req[s] # Idle
    BY <1>1, <1>9 DEF DeleteNext, Idle, Request
  <2>3. req'[s].next = req[s].next /\ req'[s].reply.shown = req[s].reply.shown
    BY <1>1, <1>9, <2>1 DEF DeleteNext, RequestType
  <2> QED BY <1>7, <2>2, <2>3
<1>10. CASE Disconnect(s)
  BY <1>1, <1>7, <1>10 DEF Disconnect
<1>11. CASE Respond(s)
  <2>1. /\ UNCHANGED <<recvQ, recvLast>> /\ req[s] # Idle
        /\ \A c \in Sessions \ {s} : /\ req'[c] = req[c] /\ cursor'[c] = cursor[c]
                                    /\ got'[c] = got[c]
        /\ req'[s] = Idle /\ cursor'[s] = req[s].next
    BY <1>1, <1>11 DEF Respond, vars, queueVars
  <2>2. got'[s].shown = got[s].shown \cup req[s].reply.shown
    BY <1>1, <1>11 DEF Respond, ContentType
  <2> QED BY <2>1, <2>2 DEF PagesHaveNoGap, ShownUpTo
<1> QED BY <1>3, <1>4, <1>5, <1>6, <1>8, <1>9, <1>10, <1>11 DEF SessionStep

(***************************************************************************)
(* A client that pages with the last receive_id it got, as the SDK's fetch *)
(* does, is shown every entry it pages over, as long as no packed message  *)
(* is stored twice and the clock is not seen in the first 100 ms of a      *)
(* second: other requests of its DID and new messages do no harm.          *)
(***************************************************************************)
THEOREM PagingIsComplete ==
  ASSUME CleanUse PROVE PickupSpec => []PagingSkipsNothing
<1> DEFINE I == PickupInv /\ CleanInv /\ PagesHaveNoGap
<1>1. PickupInit => I
  <2> SUFFICES ASSUME PickupInit PROVE I
    OBVIOUS
  <2>1. PickupInv /\ CleanInv
    BY PickupInvInit, InitCleanInv DEF PickupInit
  <2>2. PagesHaveNoGap
    BY DidOfAssumption DEF PickupInit, Init, PagesHaveNoGap, ShownUpTo, ZeroId, IdLess
  <2> QED BY <2>1, <2>2
<1>2. I /\ [PickupNext]_pickupVars => I'
  <2> SUFFICES ASSUME I, [PickupNext]_pickupVars PROVE I'
    OBVIOUS
  <2>1. [Next]_vars
    BY PickupIsStore DEF PickupInv
  <2>2. PickupInv' /\ CleanInv'
    BY <2>1, PickupInvStep, NextCleanInv
  <2>3. UNCHANGED requestVars => PagesHaveNoGap'
    BY <2>1, PagesKept DEF requestVars
  <2>4. ASSUME NEW s \in Sessions, SessionStep(s) PROVE PagesHaveNoGap'
    BY <2>4, PagesSession
  <2>5. PagesHaveNoGap'
    BY <2>3, <2>4 DEF PickupNext, StoreStep, pickupVars
  <2> QED BY <2>2, <2>5
<1>3. I => PagingSkipsNothing
  BY DEF PagesHaveNoGap, ShownUpTo, PagingSkipsNothing
<1> QED BY <1>1, <1>2, <1>3, PTL DEF PickupSpec

-----------------------------------------------------------------------------
\* A step of the requests is a step of the mailbox, or leaves it alone.
LEMMA PickupMailStep ==
  ASSUME CleanUse, PickupInv, CleanInv, [PickupNext]_pickupVars
  PROVE  (Mail!Next \/ UNCHANGED [d \in Dids |-> Inbox(d)]) /\ CleanInv'
<1>1. [Next]_vars
  BY PickupIsStore DEF PickupInv
<1>2. CountInv
  BY DEF PickupInv
<1> QED BY <1>1, <1>2, MailStep, NextCleanInv

(***************************************************************************)
(* With the requests that fetch, deliver, list and delete running side by  *)
(* side, the database still implements the mailbox: whatever a request     *)
(* does with what it read before, one of its steps takes out at most one   *)
(* message and moves nothing else.                                         *)
(***************************************************************************)
THEOREM PickupImplementsMailbox == ASSUME CleanUse PROVE PickupSpec => MailboxSpec
<1> DEFINE I == PickupInv /\ CleanInv
<1>1. PickupInit => I /\ Mail!Init
  BY PickupInvInit, InitCleanInv, MailInit DEF PickupInit
<1>2. I /\ [PickupNext]_pickupVars => I' /\ [Mail!Next]_([d \in Dids |-> Inbox(d)])
  BY PickupInvStep, PickupMailStep
<1> HIDE DEF I
<1> QED BY <1>1, <1>2, PTL DEF PickupSpec, MailboxSpec, Mail!Spec

\* And so it does when the posts that fill the inboxes come from its senders.
THEOREM InboundImplementsMailbox == ASSUME CleanUse PROVE InboundSpec => MailboxSpec
<1> DEFINE I == InboundInv /\ CleanInv
<1>1. InboundInit => I /\ Mail!Init
  BY InboundInvInit, InitCleanInv, MailInit DEF InboundInit, PickupInit
<1>2. I /\ [InboundNext]_inboundVars => I' /\ [Mail!Next]_([d \in Dids |-> Inbox(d)])
  <2> SUFFICES ASSUME I, [InboundNext]_inboundVars
               PROVE  I' /\ [Mail!Next]_([d \in Dids |-> Inbox(d)])
    OBVIOUS
  <2>1. InboundInv' /\ PickupInv /\ InboundTypeOK
    BY InboundInvStep DEF InboundInv
  <2>2. [PickupNext]_pickupVars \/ Published
    BY <2>1, InboundIsPickup
  <2>3. CASE [PickupNext]_pickupVars
    BY <2>1, <2>3, PickupMailStep
  <2>4. CASE Published
    <3>1. UNCHANGED vars /\ UNCHANGED [d \in Dids |-> Inbox(d)]
      BY <2>4 DEF Published, vars, queueVars, Inbox
    <3>2. CleanInv'
      BY <3>1, NextCleanInv
    <3> QED BY <2>1, <3>1, <3>2
  <2> QED BY <2>2, <2>3, <2>4
<1> HIDE DEF I
<1> QED BY <1>1, <1>2, PTL DEF InboundSpec, MailboxSpec, Mail!Spec
=============================================================================
