------------------------- MODULE MessageStoreProofs -------------------------
(***************************************************************************)
(* The index of the message database can be trusted, for any number of     *)
(* DIDs, messages and copies and for every clock: proofs about Spec of     *)
(* MessageStore.                                                           *)
(*                                                                         *)
(* The inductive invariant is IndexInv.  IndexSound alone is not           *)
(* inductive: a delete removes a stream entry by its id, which is harmless *)
(* for the other messages only because no two entries share an id, and     *)
(* that in turn holds because every new id is above the last-generated one *)
(* (StreamsSound).                                                         *)
(***************************************************************************)
EXTENDS MessageStore, StreamIdsProofs

IndexInv == TypeOK /\ StreamsSound /\ IndexSound

\* The time of a stream id is a natural number, whatever the clock shows.
LEMMA StreamTimeNat ==
  ASSUME NEW c \in Clocks PROVE StreamTime(c) \in Nat
<1>1. c.sec \in Nat /\ c.ms \in Nat
  BY ClocksAssumption
<1> QED BY <1>1 DEF StreamTime

\* XADD, when Redis accepts it, gives an id above the last one.
LEMMA AppendIdAbove ==
  ASSUME NEW last \in StreamId, NEW time \in Nat, CanAppend(last, time)
  PROVE  /\ AppendId(last, time) \in StreamId
         /\ IdLess(last, AppendId(last, time))
BY DEF StreamId, CanAppend, AppendId, IdLess

\* Adding an entry above the last id keeps a stream sound.
LEMMA StreamSoundAppend ==
  ASSUME NEW q \in SUBSET Entry, NEW last \in StreamId, NEW id \in StreamId, NEW h \in Hashes,
         StreamSound(q, last), IdLess(last, id)
  PROVE  /\ StreamSound(q \cup {[id |-> id, msg |-> h]}, id)
         /\ [id |-> id, msg |-> h] \notin q
         /\ q \cup {[id |-> id, msg |-> h]} \in SUBSET Entry
<1> DEFINE x == [id |-> id, msg |-> h]
<1>1. x \in Entry /\ x.id = id
  BY DEF Entry
<1>2. \A e \in q : e.id \in StreamId /\ ~IdLess(id, e.id) /\ e.id # id
  BY DEF StreamSound, IdLess, StreamId, Entry
<1>3. ~IdLess(id, id)
  BY DEF IdLess, StreamId
<1> HIDE DEF x
<1>4. StreamSound(q \cup {x}, id)
  BY <1>1, <1>2, <1>3 DEF StreamSound
<1> QED BY <1>1, <1>2, <1>4 DEF x

\* Deleting an id keeps a stream sound.
LEMMA StreamSoundDelete ==
  ASSUME NEW q, NEW last, NEW id, StreamSound(q, last)
  PROVE  StreamSound(WithoutId(q, id), last)
BY DEF StreamSound, WithoutId

-----------------------------------------------------------------------------

LEMMA InitIndexInv == Init => IndexInv
<1> SUFFICES ASSUME Init PROVE IndexInv
  OBVIOUS
<1>1. ZeroId \in StreamId
  BY DEF ZeroId, StreamId
<1>2. TypeOK
  BY <1>1, CopiesAssumption DEF Init, TypeOK
<1>3. StreamsSound
  BY DEF Init, StreamsSound, StreamSound
<1>4. IndexSound
  BY DEF Init, IndexSound
<1> QED BY <1>2, <1>3, <1>4 DEF IndexInv

LEMMA TickIndexInv == IndexInv /\ Tick => IndexInv'
<1> SUFFICES ASSUME IndexInv, Tick PROVE IndexInv'
  OBVIOUS
<1> USE DEF Tick, queueVars, countVars
<1>1. TypeOK' BY DEF IndexInv, TypeOK
<1>2. StreamsSound' BY DEF IndexInv, StreamsSound
<1>3. IndexSound' BY DEF IndexInv, IndexSound
<1> QED BY <1>1, <1>2, <1>3 DEF IndexInv

\* What every store writes first keeps the types of what it touches.
LEMMA StorePrefixTypes ==
  ASSUME TypeOK, NEW d \in Dids, NEW h \in Hashes, StorePrefix(d, h)
  PROVE  /\ clock' \in Clocks
         /\ msgs' = msgs \cup {h}
         /\ msgs' \subseteq Hashes
         /\ rqCount' \in [Dids -> Int]
         /\ received' \in Nat
         /\ deleted' \in Nat
         /\ expiry' \in Seq(Hashes)
         /\ copies' \in [Hashes -> 0..MaxCopies]
<1>1. copies[h] + 1 \in 0..MaxCopies
  BY CopiesAssumption DEF TypeOK, StorePrefix
<1> QED BY <1>1 DEF TypeOK, StorePrefix, CountReceived

\* The entry that a store adds to the receiver's stream.
LEMMA AppendReceiveSound ==
  ASSUME IndexInv, NEW d \in Dids, NEW h \in Hashes,
         CanAppend(recvLast[d], Now), AppendReceive(d, h)
  PROVE  /\ ReceiveId(d) \in StreamId
         /\ [id |-> ReceiveId(d), msg |-> h] \notin recvQ[d]
         /\ recvQ' \in [Dids -> SUBSET Entry]
         /\ recvLast' \in [Dids -> StreamId]
         /\ \A c \in Dids : StreamSound(recvQ'[c], recvLast'[c])
         /\ \A c \in Dids : recvQ[c] \subseteq recvQ'[c]
         /\ recvQ'[d] = recvQ[d] \cup {[id |-> ReceiveId(d), msg |-> h]}
         /\ \A c \in Dids \ {d} : recvQ'[c] = recvQ[c]
<1>1. Now \in Nat
  BY StreamTimeNat DEF Now, IndexInv, TypeOK
<1>2. recvLast[d] \in StreamId /\ recvQ[d] \in SUBSET Entry
  BY DEF IndexInv, TypeOK
<1>3. ReceiveId(d) \in StreamId /\ IdLess(recvLast[d], ReceiveId(d))
  BY <1>1, <1>2, AppendIdAbove DEF ReceiveId
<1>4. StreamSound(recvQ[d], recvLast[d])
  BY DEF IndexInv, StreamsSound
<1>5. /\ StreamSound(recvQ[d] \cup {[id |-> ReceiveId(d), msg |-> h]}, ReceiveId(d))
      /\ [id |-> ReceiveId(d), msg |-> h] \notin recvQ[d]
      /\ recvQ[d] \cup {[id |-> ReceiveId(d), msg |-> h]} \in SUBSET Entry
  BY <1>2, <1>3, <1>4, StreamSoundAppend
<1>6. /\ recvQ'[d] = recvQ[d] \cup {[id |-> ReceiveId(d), msg |-> h]}
      /\ recvLast'[d] = ReceiveId(d)
      /\ \A c \in Dids \ {d} : recvQ'[c] = recvQ[c] /\ recvLast'[c] = recvLast[c]
  BY DEF AppendReceive, IndexInv, TypeOK
<1>7. recvQ' \in [Dids -> SUBSET Entry] /\ recvLast' \in [Dids -> StreamId]
  BY <1>3, <1>5 DEF AppendReceive, IndexInv, TypeOK
<1>8. \A c \in Dids : StreamSound(recvQ'[c], recvLast'[c])
  BY <1>5, <1>6 DEF IndexInv, StreamsSound
<1> QED BY <1>3, <1>5, <1>6, <1>7, <1>8

LEMMA RefusedByReceiveQIndexInv ==
  ASSUME IndexInv, NEW d \in Dids, NEW h \in Hashes, StoreRefusedByReceiveQ(d, h)
  PROVE  IndexInv'
<1> USE DEF StoreRefusedByReceiveQ, queueVars
<1>0. TypeOK /\ StorePrefix(d, h)
  BY DEF IndexInv
<1>1. TypeOK'
  BY <1>0, StorePrefixTypes DEF TypeOK
<1>2. StreamsSound'
  BY DEF IndexInv, StreamsSound
<1>3. IndexSound'
  BY DEF IndexInv, IndexSound, StorePrefix
<1> QED BY <1>1, <1>2, <1>3 DEF IndexInv

LEMMA RefusedBySendQIndexInv ==
  ASSUME IndexInv, NEW d \in Dids, NEW h \in Hashes, StoreRefusedBySendQ(d, h)
  PROVE  IndexInv'
<1> USE DEF StoreRefusedBySendQ
<1>0. /\ StorePrefix(d, h)
      /\ CanAppend(recvLast[d], Now) /\ AppendReceive(d, h)
      /\ TypeOK
  BY DEF IndexInv
<1>1. TypeOK'
  <2>1. recvQ' \in [Dids -> SUBSET Entry] /\ recvLast' \in [Dids -> StreamId]
    BY <1>0, AppendReceiveSound
  <2>2. sqCount' \in Int
    BY <1>0 DEF TypeOK
  <2> QED BY <1>0, <2>1, <2>2, StorePrefixTypes DEF TypeOK
<1>2. StreamsSound'
  BY AppendReceiveSound DEF IndexInv, StreamsSound
<1>3. IndexSound'
  <2> SUFFICES ASSUME NEW g \in Hashes, meta'[g] # NoMeta
               PROVE  /\ g \in msgs'
                      /\ [id |-> meta'[g].receive_id, msg |-> g] \in recvQ'[meta'[g].to]
                      /\ [id |-> meta'[g].send_id, msg |-> g] \in sendQ'
    BY DEF IndexSound
  <2>1. meta[g] # NoMeta /\ meta[g] \in Meta /\ meta'[g] = meta[g]
    BY DEF IndexInv, TypeOK
  <2>2. meta[g].to \in Dids
    BY <2>1 DEF Meta
  <2>3. /\ g \in msgs
        /\ [id |-> meta[g].receive_id, msg |-> g] \in recvQ[meta[g].to]
        /\ [id |-> meta[g].send_id, msg |-> g] \in sendQ
    BY <2>1 DEF IndexInv, IndexSound
  <2>4. recvQ[meta[g].to] \subseteq recvQ'[meta[g].to] /\ msgs \subseteq msgs'
    BY <1>0, <2>2, AppendReceiveSound, StorePrefixTypes
  <2> QED BY <2>1, <2>3, <2>4
<1> QED BY <1>1, <1>2, <1>3 DEF IndexInv

LEMMA StoreOkIndexInv ==
  ASSUME IndexInv, NEW d \in Dids, NEW h \in Hashes, StoreOk(d, h)
  PROVE  IndexInv'
<1> USE DEF StoreOk, MetaOf
<1> DEFINE m == MetaOf(d)
<1>0. /\ StorePrefix(d, h)
      /\ CanAppend(recvLast[d], Now) /\ AppendReceive(d, h)
      /\ TypeOK
  BY DEF IndexInv
<1>1. Now \in Nat
  BY StreamTimeNat DEF Now, IndexInv, TypeOK
<1>2. SendId \in StreamId /\ IdLess(sendLast, SendId)
  BY <1>1, AppendIdAbove DEF SendId, IndexInv, TypeOK
<1>3. /\ StreamSound(sendQ', sendLast')
      /\ sendQ' \in SUBSET Entry
      /\ sendQ \subseteq sendQ'
  BY <1>2, StreamSoundAppend DEF IndexInv, StreamsSound, TypeOK
<1>4. /\ m \in Meta
      /\ meta' \in [Hashes -> Meta \cup {NoMeta}]
      /\ meta'[h] = m
      /\ \A g \in Hashes \ {h} : meta'[g] = meta[g]
  <2>1. m \in Meta
    BY <1>0, <1>2, AppendReceiveSound DEF Meta
  <2> QED BY <2>1 DEF IndexInv, TypeOK
<1>5. TypeOK'
  <2>1. recvQ' \in [Dids -> SUBSET Entry] /\ recvLast' \in [Dids -> StreamId]
    BY <1>0, AppendReceiveSound
  <2>2. sqCount' \in Int
    BY <1>0 DEF TypeOK
  <2> QED BY <1>0, <1>2, <1>3, <1>4, <2>1, <2>2, StorePrefixTypes DEF TypeOK
<1>6. StreamsSound'
  BY <1>0, <1>3, AppendReceiveSound DEF IndexInv, StreamsSound
<1>7. IndexSound'
  <2> SUFFICES ASSUME NEW g \in Hashes, meta'[g] # NoMeta
               PROVE  /\ g \in msgs'
                      /\ [id |-> meta'[g].receive_id, msg |-> g] \in recvQ'[meta'[g].to]
                      /\ [id |-> meta'[g].send_id, msg |-> g] \in sendQ'
    BY DEF IndexSound
  <2>1. CASE g = h
    <3>1. h \in msgs' /\ [id |-> ReceiveId(d), msg |-> h] \in recvQ'[d]
      BY <1>0, AppendReceiveSound, StorePrefixTypes
    <3> QED BY <2>1, <1>4, <3>1
  <2>2. CASE g # h
    <3>1. meta'[g] = meta[g] /\ meta[g] \in Meta
      BY <2>2, <1>4 DEF IndexInv, TypeOK
    <3>2. meta[g].to \in Dids
      BY <3>1 DEF Meta
    <3>3. /\ g \in msgs
          /\ [id |-> meta[g].receive_id, msg |-> g] \in recvQ[meta[g].to]
          /\ [id |-> meta[g].send_id, msg |-> g] \in sendQ
      BY <3>1 DEF IndexInv, IndexSound
    <3>4. recvQ[meta[g].to] \subseteq recvQ'[meta[g].to]
      BY <1>0, <3>2, AppendReceiveSound
    <3>5. msgs \subseteq msgs'
      BY <1>0, StorePrefixTypes
    <3> QED BY <1>3, <3>1, <3>3, <3>4, <3>5
  <2> QED BY <2>1, <2>2
<1> QED BY <1>5, <1>6, <1>7 DEF IndexInv

(***************************************************************************)
(* The entries a delete takes out of the two streams: exactly those of the *)
(* message it deletes.                                                     *)
(***************************************************************************)
LEMMA DeleteTakesOwnEntries ==
  ASSUME IndexInv, NEW h \in Hashes, meta[h] # NoMeta
  PROVE  /\ meta[h] \in Meta
         /\ meta[h].to \in Dids
         /\ [id |-> meta[h].receive_id, msg |-> h] \in recvQ[meta[h].to]
         /\ [id |-> meta[h].send_id, msg |-> h] \in sendQ
         /\ WithoutId(recvQ[meta[h].to], meta[h].receive_id) =
              recvQ[meta[h].to] \ {[id |-> meta[h].receive_id, msg |-> h]}
         /\ WithoutId(sendQ, meta[h].send_id) =
              sendQ \ {[id |-> meta[h].send_id, msg |-> h]}
<1>1. meta[h] \in Meta
  BY DEF IndexInv, TypeOK
<1>2. meta[h].to \in Dids
  BY <1>1 DEF Meta
<1> DEFINE r == [id |-> meta[h].receive_id, msg |-> h]
           s == [id |-> meta[h].send_id, msg |-> h]
<1>3. r \in recvQ[meta[h].to] /\ s \in sendQ
  BY DEF IndexInv, IndexSound
<1>4. r.id = meta[h].receive_id /\ s.id = meta[h].send_id
  OBVIOUS
<1>5. /\ \A e, f \in recvQ[meta[h].to] : e.id = f.id => e = f
      /\ \A e, f \in sendQ : e.id = f.id => e = f
  BY <1>2 DEF IndexInv, StreamsSound, StreamSound
<1> HIDE DEF r, s
<1>6. WithoutId(recvQ[meta[h].to], meta[h].receive_id) = recvQ[meta[h].to] \ {r}
  BY <1>3, <1>4, <1>5 DEF WithoutId
<1>7. WithoutId(sendQ, meta[h].send_id) = sendQ \ {s}
  BY <1>3, <1>4, <1>5 DEF WithoutId
<1> QED BY <1>1, <1>2, <1>3, <1>6, <1>7 DEF r, s

LEMMA DeleteIndexInv ==
  ASSUME IndexInv, NEW d \in Dids, NEW h \in Hashes, DeleteMessage(d, h)
  PROVE  IndexInv'
<1> DEFINE to == meta[h].to
           r == [id |-> meta[h].receive_id, msg |-> h]
           s == [id |-> meta[h].send_id, msg |-> h]
<1>1. meta[h] # NoMeta
  BY DEF DeleteMessage, ForgetMeta, Owns
<1>2. /\ to \in Dids
      /\ r \in recvQ[to]
      /\ s \in sendQ
      /\ WithoutId(recvQ[to], meta[h].receive_id) = recvQ[to] \ {r}
      /\ WithoutId(sendQ, meta[h].send_id) = sendQ \ {s}
  BY <1>1, DeleteTakesOwnEntries
<1>3. /\ recvQ' = [recvQ EXCEPT ![to] = recvQ[to] \ {r}]
      /\ sendQ' = sendQ \ {s}
  BY <1>2 DEF DeleteMessage, ForgetMeta
<1>4. /\ recvQ'[to] = recvQ[to] \ {r}
      /\ \A c \in Dids \ {to} : recvQ'[c] = recvQ[c]
  BY <1>2, <1>3 DEF IndexInv, TypeOK
<1>5. TypeOK'
  <2>1. recvQ' \in [Dids -> SUBSET Entry] /\ sendQ' \subseteq Entry
    BY <1>2, <1>3 DEF IndexInv, TypeOK
  <2>2. meta' \in [Hashes -> Meta \cup {NoMeta}]
    BY DEF DeleteMessage, ForgetMeta, IndexInv, TypeOK
  <2>3. rqCount' \in [Dids -> Int] /\ sqCount' \in Int /\ deleted' \in Nat
    BY <1>2 DEF DeleteMessage, ForgetMeta, IndexInv, TypeOK
  <2> QED BY <2>1, <2>2, <2>3 DEF DeleteMessage, ForgetMeta, IndexInv, TypeOK
<1>6. StreamsSound'
  <2>1. StreamSound(sendQ', sendLast')
    BY StreamSoundDelete DEF DeleteMessage, ForgetMeta, IndexInv, StreamsSound
  <2>2. \A c \in Dids : StreamSound(recvQ'[c], recvLast'[c])
    BY <1>4 DEF DeleteMessage, ForgetMeta, IndexInv, StreamsSound, StreamSound
  <2> QED BY <2>1, <2>2 DEF StreamsSound
<1>7. IndexSound'
  <2> SUFFICES ASSUME NEW g \in Hashes, meta'[g] # NoMeta
               PROVE  /\ g \in msgs'
                      /\ [id |-> meta'[g].receive_id, msg |-> g] \in recvQ'[meta'[g].to]
                      /\ [id |-> meta'[g].send_id, msg |-> g] \in sendQ'
    BY DEF IndexSound
  <2>1. g # h /\ meta'[g] = meta[g] /\ meta[g] # NoMeta
    BY DEF DeleteMessage, ForgetMeta, IndexInv, TypeOK
  <2>2. /\ meta[g].to \in Dids
        /\ g \in msgs
        /\ [id |-> meta[g].receive_id, msg |-> g] \in recvQ[meta[g].to]
        /\ [id |-> meta[g].send_id, msg |-> g] \in sendQ
    BY <2>1, DeleteTakesOwnEntries DEF IndexInv, IndexSound
  <2>3. /\ [id |-> meta[g].receive_id, msg |-> g] # r
        /\ [id |-> meta[g].send_id, msg |-> g] # s
    BY <2>1
  <2> QED BY <2>1, <2>2, <2>3, <1>3, <1>4 DEF DeleteMessage, ForgetMeta
<1> QED BY <1>5, <1>6, <1>7 DEF IndexInv

LEMMA NextIndexInv == IndexInv /\ [Next]_vars => IndexInv'
<1> SUFFICES ASSUME IndexInv, [Next]_vars PROVE IndexInv'
  OBVIOUS
<1>1. CASE Tick
  BY <1>1, TickIndexInv
<1>2. ASSUME NEW d \in Dids, NEW h \in Hashes, StoreMessage(d, h) PROVE IndexInv'
  BY <1>2, RefusedByReceiveQIndexInv, RefusedBySendQIndexInv, StoreOkIndexInv
  DEF StoreMessage
<1>3. ASSUME NEW d \in Dids, NEW h \in Hashes, DeleteMessage(d, h) PROVE IndexInv'
  BY <1>3, DeleteIndexInv
<1>4. CASE UNCHANGED vars
  BY <1>4 DEF vars, queueVars, countVars, IndexInv, TypeOK, StreamsSound, IndexSound
<1> QED BY <1>1, <1>2, <1>3, <1>4 DEF Next

(***************************************************************************)
(* Whatever is stored, refused and deleted, every key of the database      *)
(* keeps the form the Lua functions rely on.                               *)
(***************************************************************************)
THEOREM TypeCorrect == Spec => []TypeOK
<1>1. Init => IndexInv BY InitIndexInv
<1>2. IndexInv /\ [Next]_vars => IndexInv' BY NextIndexInv
<1>3. IndexInv => TypeOK BY DEF IndexInv
<1> QED BY <1>1, <1>2, <1>3, PTL DEF Spec

(***************************************************************************)
(* The receive_id and send_id in a message's metadata always lead to       *)
(* entries of that message, and its text is there: what delete_message     *)
(* removes is the message it was asked to remove.                          *)
(***************************************************************************)
THEOREM IndexCorrect == Spec => []IndexSound
<1>1. Init => IndexInv BY InitIndexInv
<1>2. IndexInv /\ [Next]_vars => IndexInv' BY NextIndexInv
<1>3. IndexInv => IndexSound BY DEF IndexInv
<1> QED BY <1>1, <1>2, <1>3, PTL DEF Spec

-----------------------------------------------------------------------------
(***************************************************************************)
(* The counters.  A delete takes one off the counter of the DID named in   *)
(* the metadata and one entry out of the queue of the same DID.            *)
(***************************************************************************)
CountInv ==
  /\ IndexInv
  /\ IsFiniteSet(sendQ)
  /\ \A d \in Dids : IsFiniteSet(recvQ[d])
  /\ CountersCoverQueues

LEMMA InitCountInv == Init => CountInv
<1> SUFFICES ASSUME Init PROVE CountInv
  OBVIOUS
<1>1. IsFiniteSet({}) /\ Cardinality({}) = 0
  BY FS_EmptySet
<1> QED BY <1>1, InitIndexInv DEF Init, CountInv, CountersCoverQueues

LEMMA StoreCountInv ==
  ASSUME CountInv, NEW d \in Dids, NEW h \in Hashes, StoreMessage(d, h)
  PROVE  CountInv'
<1>1. /\ IndexInv /\ IndexInv'
      /\ StorePrefix(d, h)
      /\ TypeOK
  BY RefusedByReceiveQIndexInv, RefusedBySendQIndexInv, StoreOkIndexInv
  DEF CountInv, IndexInv, StoreMessage, StoreRefusedByReceiveQ, StoreRefusedBySendQ, StoreOk
<1>2. /\ rqCount'[d] = rqCount[d] + 1
      /\ \A c \in Dids \ {d} : rqCount'[c] = rqCount[c]
      /\ \A c \in Dids : rqCount[c] \in Int
      /\ sqCount \in Int
  BY <1>1 DEF StorePrefix, CountReceived, TypeOK
<1>3. /\ \A c \in Dids : IsFiniteSet(recvQ[c]) /\ Cardinality(recvQ[c]) \in Nat
      /\ IsFiniteSet(sendQ) /\ Cardinality(sendQ) \in Nat
      /\ \A c \in Dids : rqCount[c] >= Cardinality(recvQ[c])
      /\ sqCount >= Cardinality(sendQ)
  BY FS_CardinalityType DEF CountInv, CountersCoverQueues
<1>4. CASE StoreRefusedByReceiveQ(d, h)
  <2>1. recvQ' = recvQ /\ sendQ' = sendQ /\ sqCount' = sqCount
    BY <1>4 DEF StoreRefusedByReceiveQ, queueVars
  <2> QED BY <1>1, <1>2, <1>3, <2>1 DEF CountInv, CountersCoverQueues
<1>5. CASE StoreRefusedBySendQ(d, h) \/ StoreOk(d, h)
  <2>1. /\ CanAppend(recvLast[d], Now) /\ AppendReceive(d, h)
        /\ sqCount' = sqCount + 1
    BY <1>5 DEF StoreRefusedBySendQ, StoreOk
  <2> DEFINE x == [id |-> ReceiveId(d), msg |-> h]
             y == [id |-> SendId, msg |-> h]
  <2>2. /\ x \notin recvQ[d]
        /\ recvQ'[d] = recvQ[d] \cup {x}
        /\ \A c \in Dids \ {d} : recvQ'[c] = recvQ[c]
    BY <1>1, <2>1, AppendReceiveSound
  <2>3. sendQ' = sendQ \/ sendQ' = sendQ \cup {y}
    BY <1>5 DEF StoreRefusedBySendQ, StoreOk
  <2> HIDE DEF x, y
  <2>4. IsFiniteSet(recvQ'[d]) /\ Cardinality(recvQ'[d]) = Cardinality(recvQ[d]) + 1
    <3>1. IsFiniteSet(recvQ[d])
      BY <1>3
    <3>2. /\ IsFiniteSet(recvQ[d] \cup {x})
          /\ Cardinality(recvQ[d] \cup {x}) = Cardinality(recvQ[d]) + 1
      BY <2>2, <3>1, FS_AddElement, Zenon
    <3> QED BY <2>2, <3>2
  <2>5. IsFiniteSet(sendQ') /\ Cardinality(sendQ') <= Cardinality(sendQ) + 1
    <3>1. /\ IsFiniteSet(sendQ \cup {y})
          /\ Cardinality(sendQ \cup {y}) = Cardinality(sendQ)
             \/ Cardinality(sendQ \cup {y}) = Cardinality(sendQ) + 1
      BY <1>3, FS_AddElement
    <3> QED BY <1>3, <2>3, <3>1
  <2>6. \A c \in Dids : IsFiniteSet(recvQ'[c]) /\ rqCount'[c] >= Cardinality(recvQ'[c])
    BY <1>2, <1>3, <2>2, <2>4
  <2>7. sqCount' >= Cardinality(sendQ')
    <3>1. Cardinality(sendQ') \in Nat
      BY <2>5, FS_CardinalityType
    <3> QED BY <1>2, <1>3, <2>1, <2>5, <3>1
  <2> QED BY <1>1, <2>5, <2>6, <2>7 DEF CountInv, CountersCoverQueues
<1> QED BY <1>4, <1>5 DEF StoreMessage

LEMMA DeleteCountInv ==
  ASSUME CountInv, NEW d \in Dids, NEW h \in Hashes, DeleteMessage(d, h)
  PROVE  CountInv'
<1> DEFINE to == meta[h].to
           r == [id |-> meta[h].receive_id, msg |-> h]
           s == [id |-> meta[h].send_id, msg |-> h]
<1>1. IndexInv /\ TypeOK /\ IndexInv' /\ meta[h] # NoMeta
  BY DeleteIndexInv DEF CountInv, IndexInv, DeleteMessage, ForgetMeta, Owns
<1>2. /\ to \in Dids
      /\ r \in recvQ[to]
      /\ s \in sendQ
      /\ WithoutId(recvQ[to], meta[h].receive_id) = recvQ[to] \ {r}
      /\ WithoutId(sendQ, meta[h].send_id) = sendQ \ {s}
  BY <1>1, DeleteTakesOwnEntries
<1>3. /\ recvQ'[to] = recvQ[to] \ {r}
      /\ sendQ' = sendQ \ {s}
      /\ \A c \in Dids \ {to} : recvQ'[c] = recvQ[c] /\ rqCount'[c] = rqCount[c]
      /\ rqCount'[to] = rqCount[to] - 1
      /\ sqCount' = sqCount - 1
  BY <1>1, <1>2 DEF DeleteMessage, ForgetMeta, TypeOK
<1>4. /\ \A c \in Dids : IsFiniteSet(recvQ[c]) /\ rqCount[c] \in Int
      /\ IsFiniteSet(sendQ) /\ sqCount \in Int
      /\ \A c \in Dids : rqCount[c] >= Cardinality(recvQ[c])
      /\ sqCount >= Cardinality(sendQ)
  BY <1>1 DEF CountInv, CountersCoverQueues, TypeOK
<1>0. to \in Dids BY <1>2
<1> HIDE DEF to, r, s
<1>5. /\ IsFiniteSet(recvQ'[to]) /\ Cardinality(recvQ'[to]) = Cardinality(recvQ[to]) - 1
      /\ IsFiniteSet(sendQ') /\ Cardinality(sendQ') = Cardinality(sendQ) - 1
  <2>1. IsFiniteSet(recvQ[to]) /\ r \in recvQ[to] /\ IsFiniteSet(sendQ) /\ s \in sendQ
    BY <1>2, <1>4
  <2>2. /\ IsFiniteSet(recvQ[to] \ {r})
        /\ Cardinality(recvQ[to] \ {r}) = Cardinality(recvQ[to]) - 1
    BY <2>1, FS_RemoveElement, Zenon
  <2>3. IsFiniteSet(sendQ \ {s}) /\ Cardinality(sendQ \ {s}) = Cardinality(sendQ) - 1
    BY <2>1, FS_RemoveElement, Zenon
  <2> QED BY <1>3, <2>2, <2>3
<1>6. /\ \A c \in Dids : Cardinality(recvQ[c]) \in Nat
      /\ Cardinality(sendQ) \in Nat
  BY <1>4, FS_CardinalityType
<1>7. \A c \in Dids : IsFiniteSet(recvQ'[c]) /\ rqCount'[c] >= Cardinality(recvQ'[c])
  <2>1. rqCount'[to] >= Cardinality(recvQ'[to])
    <3>1. rqCount[to] \in Int /\ Cardinality(recvQ[to]) \in Nat
          /\ rqCount[to] >= Cardinality(recvQ[to])
      BY <1>2, <1>4, <1>6
    <3> QED BY <1>3, <1>5, <3>1
  <2> QED BY <1>3, <1>4, <1>5, <2>1
<1>8. sqCount' >= Cardinality(sendQ')
  BY <1>3, <1>4, <1>5, <1>6
<1> QED BY <1>1, <1>5, <1>7, <1>8 DEF CountInv, CountersCoverQueues

LEMMA NextCountInv == CountInv /\ [Next]_vars => CountInv'
<1> SUFFICES ASSUME CountInv, [Next]_vars PROVE CountInv'
  OBVIOUS
<1>1. CASE Tick
  <2>1. IndexInv'
    BY <1>1, TickIndexInv DEF CountInv
  <2> QED BY <1>1, <2>1 DEF Tick, queueVars, countVars, CountInv, CountersCoverQueues
<1>2. ASSUME NEW d \in Dids, NEW h \in Hashes, StoreMessage(d, h) PROVE CountInv'
  BY <1>2, StoreCountInv
<1>3. ASSUME NEW d \in Dids, NEW h \in Hashes, DeleteMessage(d, h) PROVE CountInv'
  BY <1>3, DeleteCountInv
<1>4. CASE UNCHANGED vars
  <2>1. IndexInv'
    BY <1>4, NextIndexInv DEF CountInv
  <2> QED BY <1>4, <2>1 DEF vars, queueVars, countVars, CountInv, CountersCoverQueues
<1> QED BY <1>1, <1>2, <1>3, <1>4 DEF Next

(***************************************************************************)
(* The counts that status replies report are never below the number of     *)
(* queued messages, and so never negative.                                 *)
(***************************************************************************)
THEOREM CountersCorrect == Spec => []CountersCoverQueues
<1>1. CountInv => CountersCoverQueues BY DEF CountInv
<1> QED BY InitCountInv, NextCountInv, <1>1, PTL DEF Spec

-----------------------------------------------------------------------------
(***************************************************************************)
(* A delete takes away one copy of the message and nothing else.           *)
(***************************************************************************)
THEOREM DeletesCorrect == Spec => DeletesOneCopy
<1> DEFINE A == \A d \in Dids : \A e \in recvQ[d] \ recvQ'[d] :
                  /\ deleted' = deleted + 1
                  /\ meta[e.msg] # NoMeta
                  /\ meta[e.msg].to = d /\ meta[e.msg].receive_id = e.id
                  /\ recvQ[d] \ recvQ'[d] = {e}
                  /\ \A c \in Dids \ {d} : recvQ'[c] = recvQ[c]
<1>1. IndexInv /\ [Next]_vars => [A]_vars
  <2> SUFFICES ASSUME IndexInv, Next,
                      NEW c \in Dids, NEW e \in recvQ[c] \ recvQ'[c]
               PROVE  /\ deleted' = deleted + 1
                      /\ meta[e.msg] # NoMeta /\ meta[e.msg].to = c /\ meta[e.msg].receive_id = e.id
                      /\ recvQ[c] \ recvQ'[c] = {e}
                      /\ \A b \in Dids \ {c} : recvQ'[b] = recvQ[b]
    OBVIOUS
  <2>1. CASE Tick
    BY <2>1 DEF Tick, queueVars
  <2>2. ASSUME NEW d \in Dids, NEW h \in Hashes, StoreMessage(d, h)
        PROVE  recvQ[c] \subseteq recvQ'[c]
    <3>1. CASE StoreRefusedByReceiveQ(d, h)
      BY <3>1 DEF StoreRefusedByReceiveQ, queueVars
    <3>2. CASE StoreRefusedBySendQ(d, h) \/ StoreOk(d, h)
      <4>1. CanAppend(recvLast[d], Now) /\ AppendReceive(d, h)
        BY <3>2 DEF StoreRefusedBySendQ, StoreOk
      <4> QED BY <4>1, AppendReceiveSound
    <3> QED BY <2>2, <3>1, <3>2 DEF StoreMessage
  <2>3. ASSUME NEW d \in Dids, NEW h \in Hashes, DeleteMessage(d, h)
        PROVE  /\ deleted' = deleted + 1
               /\ meta[e.msg] # NoMeta /\ meta[e.msg].to = c /\ meta[e.msg].receive_id = e.id
               /\ recvQ[c] \ recvQ'[c] = {e}
               /\ \A b \in Dids \ {c} : recvQ'[b] = recvQ[b]
    <3> DEFINE r == [id |-> meta[h].receive_id, msg |-> h]
    <3>1. meta[h] # NoMeta
      BY <2>3 DEF DeleteMessage, ForgetMeta, Owns
    <3>2. /\ meta[h].to \in Dids
          /\ r \in recvQ[meta[h].to]
          /\ WithoutId(recvQ[meta[h].to], meta[h].receive_id) = recvQ[meta[h].to] \ {r}
      BY <3>1, DeleteTakesOwnEntries
    <3>3. /\ recvQ'[meta[h].to] = recvQ[meta[h].to] \ {r}
          /\ \A b \in Dids \ {meta[h].to} : recvQ'[b] = recvQ[b]
      BY <2>3, <3>2 DEF DeleteMessage, ForgetMeta, IndexInv, TypeOK
    <3>4. c = meta[h].to /\ e = r
      BY <3>3
    <3>5. e.msg = h /\ e.id = meta[h].receive_id
      BY <3>4
    <3>6. recvQ[c] \ recvQ'[c] = {e}
      BY <3>2, <3>3, <3>4
    <3> QED BY <2>3, <3>1, <3>3, <3>4, <3>5, <3>6 DEF DeleteMessage, ForgetMeta
  <2> QED BY <2>1, <2>2, <2>3 DEF Next
<1>2. Init => IndexInv BY InitIndexInv
<1>3. IndexInv /\ [Next]_vars => IndexInv' BY NextIndexInv
<1> QED BY <1>1, <1>2, <1>3, PTL DEF Spec, DeletesOneCopy

-----------------------------------------------------------------------------
(***************************************************************************)
(* Clean use: with three-digit milliseconds no stream time is below an     *)
(* earlier one, so no store is refused; and as no text comes back, the     *)
(* metadata of a queued entry is that of the entry.                        *)
(***************************************************************************)
CleanInv ==
  /\ IndexInv
  /\ sendLast.time <= Now
  /\ \A d \in Dids : recvLast[d].time <= Now
  /\ \A d \in Dids : \A e \in recvQ[d] :
       /\ copies[e.msg] >= 1
       /\ meta[e.msg] # NoMeta
       /\ meta[e.msg].to = d
       /\ meta[e.msg].receive_id = e.id

LEMMA MillisRange == ASSUME NEW n \in 0..999 PROVE n \in Nat /\ n <= 999
  OBVIOUS

LEMMA StreamTimeGrows ==
  ASSUME CleanUse, NEW c \in Clocks, NEW d \in Clocks, ClockLess(c, d)
  PROVE  StreamTime(c) <= StreamTime(d)
<1>1. ASSUME NEW x \in Clocks
      PROVE  x.sec \in Nat /\ x.ms \in Nat /\ x.ms >= 100 /\ x.ms <= 999
  <2>1. PICK s \in Nat \ {0}, m \in 0..999 : x = [sec |-> s, ms |-> m]
    BY ClocksAssumption
  <2>2. x.sec = s /\ x.ms = m
    BY <2>1
  <2>3. m \in Nat /\ m <= 999 /\ s \in Nat
    BY MillisRange
  <2>4. x.ms >= 100
    BY DEF CleanUse
  <2> QED
    BY <2>2, <2>3, <2>4
<1>2. ASSUME NEW x \in Clocks PROVE StreamTime(x) = 1000 * x.sec + x.ms
  <2>1. ~(x.ms < 10) /\ ~(x.ms < 100)
    BY <1>1
  <2> QED BY <2>1 DEF StreamTime
<1>3. c.sec < d.sec \/ (c.sec = d.sec /\ c.ms < d.ms)
  BY DEF ClockLess
<1>4. ASSUME NEW s \in Nat, NEW t \in Nat, NEW m \in Nat, NEW n \in Nat,
             m <= 999, n >= 100, s < t \/ (s = t /\ m < n)
      PROVE  1000 * s + m <= 1000 * t + n
  BY <1>4
<1>5. 1000 * c.sec + c.ms <= 1000 * d.sec + d.ms
  BY <1>1, <1>3, <1>4
<1> QED BY <1>2, <1>5

LEMMA CleanStore ==
  ASSUME CleanUse, CleanInv, NEW d \in Dids, NEW h \in Hashes, StoreMessage(d, h)
  PROVE  CleanInv'
<1>1. TypeOK /\ IndexInv /\ Now \in Nat
  BY StreamTimeNat DEF CleanInv, IndexInv, TypeOK, Now
<1>2. /\ sendLast \in StreamId
      /\ \A c \in Dids : recvLast[c] \in StreamId
      /\ \A g \in Hashes : copies[g] \in 0..1
  BY <1>1 DEF TypeOK, CleanUse
<1>3. CanAppend(recvLast[d], Now) /\ CanAppend(sendLast, Now)
  BY <1>1, <1>2 DEF CleanInv, CanAppend, StreamId
<1>4. StoreOk(d, h)
  BY <1>3 DEF StoreMessage, StoreRefusedByReceiveQ, StoreRefusedBySendQ
<1>5. IndexInv'
  BY <1>1, <1>4, StoreOkIndexInv
<1>6. /\ copies[h] = 0
      /\ copies'[h] = 1
      /\ \A g \in Hashes \ {h} : copies'[g] = copies[g]
      /\ clock' = clock
  BY <1>1, <1>2, <1>4 DEF StoreOk, StorePrefix, TypeOK, CleanUse
<1>7. Now' = Now
  BY <1>6 DEF Now
<1>8. SendId.time = Now /\ ReceiveId(d).time = Now
  BY DEF SendId, ReceiveId, AppendId
<1>9. /\ recvQ'[d] = recvQ[d] \cup {[id |-> ReceiveId(d), msg |-> h]}
      /\ \A c \in Dids \ {d} : recvQ'[c] = recvQ[c] /\ recvLast'[c] = recvLast[c]
      /\ recvLast'[d] = ReceiveId(d)
      /\ sendLast' = SendId
  BY <1>1, <1>4 DEF StoreOk, AppendReceive, TypeOK
<1>10. /\ meta'[h].to = d /\ meta'[h].receive_id = ReceiveId(d)
       /\ meta'[h] # NoMeta
       /\ \A g \in Hashes \ {h} : meta'[g] = meta[g]
  <2>1. SendId \in StreamId
    BY <1>1, <1>2, <1>3, AppendIdAbove DEF SendId
  <2>2. ReceiveId(d) \in StreamId
    BY <1>1, <1>2, <1>3, AppendIdAbove DEF ReceiveId
  <2>3. [to |-> d, from |-> Mediator, receive_id |-> ReceiveId(d), send_id |-> SendId] \in Meta
    BY <2>1, <2>2 DEF Meta
  <2> QED BY <1>1, <1>4, <2>3, NoMetaAssumption DEF StoreOk, MetaOf, TypeOK
<1>11. sendLast'.time <= Now' /\ \A c \in Dids : recvLast'[c].time <= Now'
  BY <1>1, <1>7, <1>8, <1>9 DEF CleanInv
<1>12. ASSUME NEW c \in Dids, NEW e \in recvQ'[c]
       PROVE  /\ copies'[e.msg] >= 1
              /\ meta'[e.msg] # NoMeta
              /\ meta'[e.msg].to = c
              /\ meta'[e.msg].receive_id = e.id
  <2>1. CASE e \in recvQ[c]
    <3>1. e.msg \in Hashes
      BY <1>1, <2>1 DEF TypeOK, Entry
    <3>2. copies[e.msg] >= 1 /\ e.msg # h
      BY <1>6, <2>1 DEF CleanInv
    <3> QED BY <1>6, <1>10, <2>1, <3>1, <3>2 DEF CleanInv
  <2>2. CASE e \notin recvQ[c]
    <3>1. c = d /\ e = [id |-> ReceiveId(d), msg |-> h]
      BY <1>9, <2>2
    <3>2. e.id = ReceiveId(d) /\ e.msg = h
      BY <3>1
    <3> QED BY <1>6, <1>10, <3>1, <3>2
  <2> QED BY <2>1, <2>2
<1> QED BY <1>5, <1>11, <1>12 DEF CleanInv

LEMMA CleanDelete ==
  ASSUME CleanInv, NEW d \in Dids, NEW h \in Hashes, DeleteMessage(d, h)
  PROVE  CleanInv'
<1> DEFINE to == meta[h].to
           r == [id |-> meta[h].receive_id, msg |-> h]
<1>1. TypeOK /\ IndexInv /\ meta[h] # NoMeta
  BY DEF CleanInv, IndexInv, DeleteMessage, ForgetMeta, Owns
<1>2. IndexInv'
  BY <1>1, DeleteIndexInv
<1>3. /\ to \in Dids
      /\ r \in recvQ[to]
      /\ WithoutId(recvQ[to], meta[h].receive_id) = recvQ[to] \ {r}
  BY <1>1, DeleteTakesOwnEntries
<1>4. /\ recvQ'[to] = recvQ[to] \ {r}
      /\ \A c \in Dids \ {to} : recvQ'[c] = recvQ[c]
      /\ \A g \in Hashes \ {h} : meta'[g] = meta[g]
      /\ clock' = clock /\ copies' = copies /\ recvLast' = recvLast /\ sendLast' = sendLast
  BY <1>1, <1>3 DEF DeleteMessage, ForgetMeta, TypeOK
<1>5. ASSUME NEW c \in Dids, NEW e \in recvQ'[c]
      PROVE  e \in recvQ[c] /\ e.msg \in Hashes \ {h}
  <2>0. e \in recvQ[c]
    BY <1>3, <1>4
  <2>1. e \in recvQ[c] /\ e.msg \in Hashes /\ e \in Entry
    BY <1>1, <2>0 DEF TypeOK, Entry
  <2>2. ASSUME e.msg = h PROVE FALSE
    <3>1. c = to /\ e.id = meta[h].receive_id
      BY <2>1, <2>2 DEF CleanInv
    <3>2. e = r
      BY <2>1, <2>2, <3>1 DEF Entry
    <3> QED BY <1>4, <3>1, <3>2, <2>1
  <2> QED BY <2>1, <2>2
<1>6. Now' = Now
  BY <1>4 DEF Now
<1> QED BY <1>2, <1>4, <1>5, <1>6 DEF CleanInv

LEMMA InitCleanInv == Init => CleanInv
<1> SUFFICES ASSUME Init PROVE CleanInv
  OBVIOUS
<1>1. IndexInv
  BY InitIndexInv
<1>2. Now \in Nat
  BY <1>1, StreamTimeNat DEF Now, IndexInv, TypeOK
<1> QED BY <1>1, <1>2 DEF Init, CleanInv, ZeroId

LEMMA NextCleanInv ==
  ASSUME CleanUse, CleanInv, [Next]_vars PROVE CleanInv'
<1>1. CASE Tick
  <2>1. IndexInv'
    BY <1>1, TickIndexInv DEF CleanInv
  <2>2. /\ clock \in Clocks /\ clock' \in Clocks /\ ClockLess(clock, clock')
        /\ UNCHANGED <<meta, recvQ, recvLast, sendLast, copies>>
    BY <1>1 DEF Tick, queueVars, CleanInv, IndexInv, TypeOK
  <2>3. Now <= Now' /\ Now \in Nat /\ Now' \in Nat
    BY <2>2, StreamTimeGrows, StreamTimeNat DEF Now
  <2>4. sendLast.time \in Nat /\ \A d \in Dids : recvLast[d].time \in Nat
    BY DEF CleanInv, IndexInv, TypeOK, StreamId
  <2>5. sendLast'.time <= Now' /\ \A d \in Dids : recvLast'[d].time <= Now'
    BY <2>2, <2>3, <2>4 DEF CleanInv
  <2> QED BY <2>1, <2>2, <2>5 DEF CleanInv
<1>2. ASSUME NEW d \in Dids, NEW h \in Hashes, StoreMessage(d, h) PROVE CleanInv'
  BY <1>2, CleanStore
<1>3. ASSUME NEW d \in Dids, NEW h \in Hashes, DeleteMessage(d, h) PROVE CleanInv'
  BY <1>3, CleanDelete
<1>4. CASE UNCHANGED vars
  <2>1. IndexInv'
    BY <1>4, NextIndexInv DEF CleanInv
  <2> QED BY <1>4, <2>1 DEF vars, queueVars, countVars, CleanInv, Now
<1> QED BY <1>1, <1>2, <1>3, <1>4 DEF Next

(***************************************************************************)
(* "Receiver can delete any message that is waiting to be delivered to     *)
(* them" is true under clean use.                                          *)
(***************************************************************************)
THEOREM ReceiverCanDeleteInCleanUse ==
  ASSUME CleanUse PROVE Spec => []ReceiverCanDelete
<1>1. CleanInv /\ [Next]_vars => CleanInv'
  BY NextCleanInv
<1>2. CleanInv => ReceiverCanDelete
  BY DEF CleanInv, ReceiverCanDelete, Owns
<1> QED BY InitCleanInv, <1>1, <1>2, PTL DEF Spec

-----------------------------------------------------------------------------
(* The messages of a stream, in its order, and how they change with it. *)

Msgs(entries) ==
  LET q == InStreamOrder(entries) IN [i \in DOMAIN q |-> q[i].msg]

\* A queue of the database is a stream.
LEMMA QueueIsStream ==
  ASSUME CountInv, NEW d \in Dids
  PROVE  Stream(recvQ[d]) /\ recvQ[d] \in SUBSET Entry
BY DEF CountInv, IndexInv, TypeOK, StreamsSound, StreamSound, Stream, Entry

LEMMA MsgsIsSeq ==
  ASSUME NEW entries \in SUBSET Entry, Stream(entries)
  PROVE  LET q == InStreamOrder(entries)
             n == Cardinality(entries)
         IN  /\ Msgs(entries) \in Seq(Hashes) /\ Len(Msgs(entries)) = n /\ n \in Nat
             /\ \A i \in 1..n : q[i] \in entries /\ Msgs(entries)[i] = q[i].msg
<1> DEFINE q == InStreamOrder(entries)
           n == Cardinality(entries)
<1>1. q \in Seq(entries) /\ Len(q) = n /\ n \in Nat
  BY InStreamOrderIsSeq, FS_CardinalityType DEF Stream
<1> HIDE DEF n
<1>2. DOMAIN q = 1..n /\ \A i \in 1..n : q[i] \in entries
  <2> HIDE DEF q
  <2> QED BY <1>1
<1>3. \A i \in 1..n : q[i].msg \in Hashes
  BY <1>2 DEF Entry
<1>4. Msgs(entries) = [i \in 1..n |-> q[i].msg]
  BY <1>2 DEF Msgs
<1> HIDE DEF q
<1>5. [i \in 1..n |-> q[i].msg] \in Seq(Hashes) /\ Len([i \in 1..n |-> q[i].msg]) = n
  BY <1>1, <1>3
<1> QED BY <1>1, <1>2, <1>4, <1>5 DEF q, n

LEMMA MsgsAppended ==
  ASSUME NEW entries \in SUBSET Entry, Stream(entries), NEW x \in Entry,
         \A e \in entries : IdLess(e.id, x.id)
  PROVE  Msgs(entries \cup {x}) = Append(Msgs(entries), x.msg)
<1> DEFINE s == InStreamOrder(entries)
           all == entries \cup {x}
           t == InStreamOrder(all)
           n == Cardinality(entries)
<1>0. x.id \in StreamId
  BY DEF Entry
<1>1. /\ Stream(all) /\ n \in Nat /\ Cardinality(all) = n + 1
      /\ \A i \in 1..n : t[i] = s[i]
      /\ t[n + 1] = x
  <2>1. x \notin entries /\ Stream(all) /\ n \in Nat /\ Cardinality(all) = n + 1
    BY <1>0, ListOfAppended
  <2>2. \A i \in 1..n : t[i] = s[i]
    BY <1>0, ListOfAppended
  <2>3. t[n + 1] = x
    BY <1>0, ListOfAppended
  <2> QED BY <2>1, <2>2, <2>3
<1> HIDE DEF s, all, t, n
<1>2. /\ Msgs(entries) \in Seq(Hashes) /\ Len(Msgs(entries)) = n
      /\ \A i \in 1..n : Msgs(entries)[i] = s[i].msg
  BY MsgsIsSeq DEF s, n
<1>3. /\ Msgs(all) \in Seq(Hashes) /\ Len(Msgs(all)) = n + 1
      /\ \A i \in 1..(n + 1) : Msgs(all)[i] = t[i].msg
  <2>1. all \in SUBSET Entry
    BY DEF all
  <2> QED BY <1>1, <2>1, MsgsIsSeq DEF t
<1>4. x.msg \in Hashes
  BY DEF Entry
<1>5. /\ Append(Msgs(entries), x.msg) \in Seq(Hashes)
      /\ Len(Append(Msgs(entries), x.msg)) = n + 1
      /\ \A i \in 1..n : Append(Msgs(entries), x.msg)[i] = Msgs(entries)[i]
      /\ Append(Msgs(entries), x.msg)[n + 1] = x.msg
  BY <1>1, <1>2, <1>4
<1>6. \A i \in 1..(n + 1) : i \in 1..n \/ i = n + 1
  BY <1>1
<1>7. \A i \in 1..(n + 1) : Msgs(all)[i] = Append(Msgs(entries), x.msg)[i]
  BY <1>1, <1>2, <1>3, <1>5, <1>6
<1> QED BY <1>3, <1>5, <1>7, SeqEqual DEF all

LEMMA MsgsRemoved ==
  ASSUME NEW entries \in SUBSET Entry, Stream(entries), NEW x \in entries
  PROVE  \E k \in DOMAIN Msgs(entries) :
           /\ Msgs(entries)[k] = x.msg
           /\ Msgs(entries \ {x}) = RemoveAt(Msgs(entries), k)
<1> DEFINE s == InStreamOrder(entries)
           rest == entries \ {x}
           t == InStreamOrder(rest)
           n == Cardinality(rest)
<1>0. Stream(rest)
  BY SubStream
<1>1. /\ n \in Nat /\ Cardinality(entries) = n + 1
      /\ \E k \in 1..(n + 1) :
           /\ s[k] = x
           /\ \A i \in 1..n : t[i] = IF i < k THEN s[i] ELSE s[i + 1]
  BY ListOfRemoved
<1>2. /\ Msgs(entries) \in Seq(Hashes) /\ Len(Msgs(entries)) = n + 1
      /\ \A i \in 1..(n + 1) : Msgs(entries)[i] = s[i].msg
  BY <1>1, MsgsIsSeq
<1>3. /\ Msgs(rest) \in Seq(Hashes) /\ Len(Msgs(rest)) = n
      /\ \A i \in 1..n : Msgs(rest)[i] = t[i].msg
  BY <1>0, MsgsIsSeq
<1> HIDE DEF s, t, n, rest
<1>4. PICK k \in 1..(n + 1) :
           /\ s[k] = x
           /\ \A i \in 1..n : t[i] = IF i < k THEN s[i] ELSE s[i + 1]
  BY <1>1
<1> DEFINE u == [i \in 1..n |-> IF i < k THEN Msgs(entries)[i] ELSE Msgs(entries)[i + 1]]
<1>5. RemoveAt(Msgs(entries), k) = u
  BY <1>1, <1>2, RemoveAtElements
<1>6. \A i \in 1..n : i \in 1..(n + 1) /\ i + 1 \in 1..(n + 1)
  BY <1>1
<1>7. \A i \in 1..n : u[i] = Msgs(rest)[i]
  <2> SUFFICES ASSUME NEW i \in 1..n PROVE u[i] = Msgs(rest)[i]
    OBVIOUS
  <2>1. Msgs(entries)[i] = s[i].msg /\ Msgs(entries)[i + 1] = s[i + 1].msg
    BY <1>2, <1>6
  <2>2. Msgs(rest)[i] = t[i].msg
    BY <1>3
  <2>3. CASE i < k
    BY <1>4, <2>1, <2>2, <2>3
  <2>4. CASE ~(i < k)
    BY <1>4, <2>1, <2>2, <2>4
  <2> QED BY <2>3, <2>4
<1>8. u \in Seq(Hashes) /\ Len(u) = n
  <2>1. \A i \in 1..(n + 1) : Msgs(entries)[i] \in Hashes
    BY <1>1, <1>2
  <2>2. u \in [1..n -> Hashes]
    BY <1>6, <2>1
  <2> QED BY <1>1, <2>2
<1> HIDE DEF u
<1>9. Msgs(rest) = u
  BY <1>3, <1>7, <1>8, SeqEqual
<1>10. k \in DOMAIN Msgs(entries) /\ Msgs(entries)[k] = x.msg
  BY <1>1, <1>2, <1>4
<1> QED BY <1>5, <1>9, <1>10 DEF rest

(***************************************************************************)
(* The refinement.  Under clean use every store appends, so the last id of *)
(* a stream has no entry above it and the new one goes behind them all;    *)
(* and a delete takes the one entry its metadata names.                    *)
(***************************************************************************)
LEMMA MailInit == Init => Mail!Init
<1> SUFFICES ASSUME Init PROVE Mail!Init
  OBVIOUS
<1>1. ASSUME NEW d \in Dids PROVE Inbox(d) = <<>>
  <2>1. recvQ[d] = {} /\ Stream({}) /\ Cardinality({}) = 0
    BY FS_EmptySet DEF Init, Stream
  <2>2. Msgs({}) \in Seq(Hashes) /\ Len(Msgs({})) = 0
    BY <2>1, MsgsIsSeq
  <2>3. Msgs({}) = <<>>
    BY <2>2, EmptySeq
  <2> QED BY <2>1, <2>3 DEF Inbox, Msgs
<1> QED BY <1>1 DEF Mail!Init

LEMMA MailArrive ==
  ASSUME CleanUse, CleanInv, CountInv, NEW d \in Dids, NEW h \in Hashes, StoreMessage(d, h)
  PROVE  Mail!Arrive(d, h)
<1> DEFINE x == [id |-> ReceiveId(d), msg |-> h]
<1>1. TypeOK /\ IndexInv /\ Now \in Nat
  BY StreamTimeNat DEF CleanInv, IndexInv, TypeOK, Now
<1>2. /\ sendLast \in StreamId
      /\ \A c \in Dids : recvLast[c] \in StreamId
      /\ \A g \in Hashes : copies[g] \in 0..1
  BY <1>1 DEF TypeOK, CleanUse
<1>3. CanAppend(recvLast[d], Now) /\ CanAppend(sendLast, Now)
  BY <1>1, <1>2 DEF CleanInv, CanAppend, StreamId
<1>4. StoreOk(d, h)
  BY <1>3 DEF StoreMessage, StoreRefusedByReceiveQ, StoreRefusedBySendQ
<1>5. copies[h] = 0
  BY <1>2, <1>4 DEF StoreOk, StorePrefix, CleanUse
<1>6. recvQ'[d] = recvQ[d] \cup {x} /\ \A c \in Dids \ {d} : recvQ'[c] = recvQ[c]
  BY <1>1, <1>4 DEF StoreOk, AppendReceive, TypeOK
<1>7. ReceiveId(d) \in StreamId /\ IdLess(recvLast[d], ReceiveId(d))
  BY <1>1, <1>2, <1>3, AppendIdAbove DEF ReceiveId
<1>8. x \in Entry /\ x.id = ReceiveId(d) /\ x.msg = h
  BY <1>7 DEF Entry
<1>9. \A c \in Dids : Stream(recvQ[c]) /\ recvQ[c] \in SUBSET Entry
  BY QueueIsStream
<1>10. \A e \in recvQ[d] : IdLess(e.id, ReceiveId(d))
  <2> SUFFICES ASSUME NEW e \in recvQ[d] PROVE IdLess(e.id, ReceiveId(d))
    OBVIOUS
  <2>1. e.id \in StreamId /\ ~IdLess(recvLast[d], e.id)
    BY <1>1, <1>9 DEF IndexInv, StreamsSound, StreamSound, Stream
  <2> QED BY <1>2, <1>7, <2>1, IdOrder
<1> HIDE DEF x
<1>11. Msgs(recvQ[d] \cup {x}) = Append(Msgs(recvQ[d]), h)
  BY <1>8, <1>9, <1>10, MsgsAppended
<1>12. \A c \in Dids : Inbox(c) = Msgs(recvQ[c]) /\ Inbox(c)' = Msgs(recvQ'[c])
  BY DEF Inbox, Msgs
<1>13. Inbox(d)' = Append(Inbox(d), h) /\ \A c \in Dids \ {d} : Inbox(c)' = Inbox(c)
  BY <1>6, <1>11, <1>12
<1>14. [c \in Dids |-> Inbox(c)]' = [[c \in Dids |-> Inbox(c)] EXCEPT ![d] = Append(@, h)]
  BY <1>13
<1>15. ASSUME NEW c \in Dids, h \in Mail!Waiting(c) PROVE FALSE
  <2>1. h \in ToSet(Msgs(recvQ[c]))
    BY <1>12, <1>15 DEF Mail!Waiting, Mail!ToSet, ToSet
  <2>2. PICK i \in DOMAIN Msgs(recvQ[c]) : Msgs(recvQ[c])[i] = h
    BY <2>1 DEF ToSet
  <2>3. /\ Msgs(recvQ[c]) \in Seq(Hashes)
        /\ \A j \in 1..Len(Msgs(recvQ[c])) : \E e \in recvQ[c] : Msgs(recvQ[c])[j] = e.msg
    BY <1>9, MsgsIsSeq
  <2>4. PICK e \in recvQ[c] : e.msg = h
    BY <2>2, <2>3
  <2> QED BY <1>5, <2>4 DEF CleanInv
<1> QED BY <1>14, <1>15 DEF Mail!Arrive

LEMMA MailTakeOut ==
  ASSUME CleanInv, CountInv, NEW did \in Dids, NEW h \in Hashes, DeleteMessage(did, h)
  PROVE  \E d \in Dids : Mail!TakeOut(d, h)
<1>1. TypeOK /\ IndexInv /\ meta[h] # NoMeta
  BY DEF CleanInv, IndexInv, DeleteMessage, Owns
<1>0. meta[h].to \in Dids
  BY <1>1, DeleteTakesOwnEntries
<1>2. PICK to, r :
        /\ to \in Dids
        /\ to = meta[h].to
        /\ r = [id |-> meta[h].receive_id, msg |-> h]
        /\ r \in recvQ[to]
        /\ WithoutId(recvQ[to], meta[h].receive_id) = recvQ[to] \ {r}
  BY <1>0, <1>1, DeleteTakesOwnEntries
<1>3. recvQ'[to] = recvQ[to] \ {r} /\ \A c \in Dids \ {to} : recvQ'[c] = recvQ[c]
  BY <1>1, <1>2 DEF DeleteMessage, TypeOK
<1>4. Stream(recvQ[to]) /\ recvQ[to] \in SUBSET Entry /\ r.msg = h
  BY <1>2, QueueIsStream
<1>5. PICK k \in DOMAIN Msgs(recvQ[to]) :
        /\ Msgs(recvQ[to])[k] = h
        /\ Msgs(recvQ[to] \ {r}) = RemoveAt(Msgs(recvQ[to]), k)
  BY <1>2, <1>4, MsgsRemoved
<1>6. \A c \in Dids : Inbox(c) = Msgs(recvQ[c]) /\ Inbox(c)' = Msgs(recvQ'[c])
  BY DEF Inbox, Msgs
<1>7. Inbox(to)' = RemoveAt(Inbox(to), k) /\ \A c \in Dids \ {to} : Inbox(c)' = Inbox(c)
  BY <1>2, <1>3, <1>5, <1>6
<1>8. [c \in Dids |-> Inbox(c)]' = [[c \in Dids |-> Inbox(c)] EXCEPT ![to] = RemoveAt(@, k)]
  BY <1>7
<1>9. k \in DOMAIN Inbox(to) /\ Inbox(to)[k] = h
  BY <1>2, <1>5, <1>6
<1>10. Mail!TakeOut(to, h)
  BY <1>2, <1>8, <1>9 DEF Mail!TakeOut, Mail!RemoveAt, RemoveAt
<1> QED BY <1>2, <1>10

LEMMA MailStep ==
  ASSUME CleanUse, CleanInv, CountInv, [Next]_vars
  PROVE  Mail!Next \/ UNCHANGED [d \in Dids |-> Inbox(d)]
<1>1. ASSUME UNCHANGED recvQ PROVE UNCHANGED [d \in Dids |-> Inbox(d)]
  BY <1>1 DEF Inbox
<1>2. CASE Tick
  BY <1>1, <1>2 DEF Tick, queueVars
<1>3. ASSUME NEW d \in Dids, NEW h \in Hashes, StoreMessage(d, h) PROVE Mail!Next
  BY <1>3, MailArrive DEF Mail!Next
<1>4. ASSUME NEW d \in Dids, NEW h \in Hashes, DeleteMessage(d, h) PROVE Mail!Next
  BY <1>4, MailTakeOut DEF Mail!Next
<1>5. CASE UNCHANGED vars
  BY <1>1, <1>5 DEF vars, queueVars
<1> QED BY <1>2, <1>3, <1>4, <1>5 DEF Next

(***************************************************************************)
(* The database implements the mailbox: a store puts the message at the    *)
(* end of its receiver's inbox, a delete takes one message out, and        *)
(* nothing else moves, as long as no packed message is stored twice and    *)
(* the clock is not seen in the first 100 ms of a second.                  *)
(***************************************************************************)
THEOREM StoreImplementsMailbox == ASSUME CleanUse PROVE Spec => MailboxSpec
<1> DEFINE I == CleanInv /\ CountInv
<1>1. Init => I
  BY InitCleanInv, InitCountInv
<1>2. I /\ [Next]_vars => I'
  BY NextCleanInv, NextCountInv
<1>3. I /\ [Next]_vars => [Mail!Next]_([d \in Dids |-> Inbox(d)])
  BY MailStep
<1> HIDE DEF I
<1> QED BY MailInit, <1>1, <1>2, <1>3, PTL DEF Spec, MailboxSpec, Mail!Spec

-----------------------------------------------------------------------------
(***************************************************************************)
(* The statistic.  SumOfStatus adds up what the status replies report, DID *)
(* after DID; when the counter of one of them changes, the sums from there *)
(* on change by as much.                                                   *)
(***************************************************************************)

\* There is a least number in every set of numbers.
LEMMA LeastNumber ==
  ASSUME NEW T, T \subseteq Nat, T # {}
  PROVE  \E m \in T : \A n \in T : m <= n
<1>1. PICK m \in T : \A n \in T : ~ (<<n, m>> \in OpToRel(<, Nat))
  BY NatLessThanWellFounded, WFMin
<1>2. \A n \in T : ~ (n < m)
  BY <1>1 DEF OpToRel
<1> QED BY <1>2

\* The sum of the first n of f, by the sum s of the first n - 1.
SumStep(f, s, n) == IF n = 0 THEN 0 ELSE s[n - 1] + f[n]
Sums(f, s, m) == s = [n \in 0..m |-> SumStep(f, s, n)]

LEMMA SumsExist ==
  ASSUME NEW f, NEW l \in Nat
  PROVE  \E s : Sums(f, s, l)
<1> DEFINE Bad == {m \in Nat : ~ \E s : Sums(f, s, m)}
<1>1. SUFFICES ASSUME Bad # {} PROVE FALSE
  <2>1. l \notin Bad
    BY <1>1
  <2> QED BY <2>1
<1>2. PICK m \in Bad : \A n \in Bad : m <= n
  BY <1>1, LeastNumber
<1>3. CASE m = 0
  <2>1. Sums(f, [n \in 0..0 |-> 0], 0)
    BY DEF Sums, SumStep
  <2> QED BY <1>2, <1>3, <2>1
<1>4. CASE m # 0
  <2>1. m - 1 \in Nat /\ m - 1 \notin Bad /\ m \in Nat
    BY <1>2, <1>4
  <2>2. PICK s : Sums(f, s, m - 1)
    BY <2>1
  <2>3. PICK t : t = [n \in 0..m |-> IF n = m THEN SumStep(f, s, m) ELSE s[n]]
    OBVIOUS
  <2>4. \A n \in 0..(m - 1) : t[n] = s[n] /\ s[n] = SumStep(f, s, n)
    <3>1. \A n \in 0..(m - 1) : t[n] = s[n]
      BY <2>1, <2>3
    <3>2. \A n \in 0..(m - 1) : s[n] = SumStep(f, s, n)
      <4>1. s = [n \in 0..(m - 1) |-> SumStep(f, s, n)]
        BY <2>2 DEF Sums
      <4> QED BY <4>1, Zenon
    <3> QED BY <3>1, <3>2
  <2>5. t[m] = SumStep(f, s, m)
    BY <2>1, <2>3
  <2>6. \A n \in 0..m : SumStep(f, t, n) = SumStep(f, s, n)
    <3>1. TAKE n \in 0..m
    <3>2. CASE n = 0
      BY <3>2 DEF SumStep
    <3>3. CASE n # 0
      <4>1. n - 1 \in 0..(m - 1)
        BY <2>1, <3>3
      <4>2. t[n - 1] = s[n - 1]
        BY <2>4, <4>1
      <4> QED BY <3>3, <4>2 DEF SumStep
    <3> QED BY <3>2, <3>3
  <2>7. \A n \in 0..m : t[n] = SumStep(f, t, n)
    <3>1. TAKE n \in 0..m
    <3>2. CASE n = m
      BY <2>5, <2>6, <3>2
    <3>3. CASE n # m
      <4>1. n \in 0..(m - 1)
        BY <2>1, <3>3
      <4> QED BY <2>4, <2>6, <4>1
    <3> QED BY <3>2, <3>3
  <2>8. t = [n \in 0..m |-> t[n]]
    BY <2>3
  <2>9. Sums(f, t, m)
    BY <2>7, <2>8 DEF Sums
  <2> QED BY <1>2, <2>9
<1> QED BY <1>3, <1>4

\* One summand changes by e, and so does the sum.
Differ(f, g, l, p, e) ==
  /\ \A i \in 1..l : f[i] \in Int /\ g[i] \in Int
  /\ g[p] = f[p] + e
  /\ \A i \in 1..l : i # p => g[i] = f[i]

LEMMA SumsDiffer ==
  ASSUME NEW l \in Nat, NEW f, NEW g, NEW s, NEW t, Sums(f, s, l), Sums(g, t, l),
         NEW p \in 1..l, NEW e \in Int, Differ(f, g, l, p, e)
  PROVE  s[l] \in Int /\ t[l] = s[l] + e
<1> DEFINE Expected(n) == s[n] \in Int /\ t[n] = s[n] + (IF n >= p THEN e ELSE 0)
           Bad == {n \in 0..l : ~Expected(n)}
<1>1. \A n \in 0..l : s[n] = SumStep(f, s, n) /\ t[n] = SumStep(g, t, n)
  BY DEF Sums
<1>2. Bad = {}
  <2>1. SUFFICES ASSUME Bad # {} PROVE FALSE
    OBVIOUS
  <2>2. Bad \subseteq Nat
    OBVIOUS
  <2>3. PICK m \in Bad : \A n \in Bad : m <= n
    <3> HIDE DEF Bad
    <3> QED BY <2>1, <2>2, LeastNumber
  <2>4. m \in 0..l /\ ~Expected(m)
    BY <2>3
  <2>5. CASE m = 0
    <3>1. s[0] = 0 /\ t[0] = 0
      BY <1>1 DEF SumStep
    <3> QED BY <2>4, <2>5, <3>1
  <2>6. CASE m # 0
    <3>1. m - 1 \in 0..l /\ m \in 1..l
      BY <2>4, <2>6
    <3>2. Expected(m - 1)
      BY <2>3, <3>1
    <3>3. s[m] = s[m - 1] + f[m] /\ t[m] = t[m - 1] + g[m]
      BY <1>1, <2>6, <3>1 DEF SumStep
    <3>4. f[m] \in Int /\ g[m] = f[m] + (IF m = p THEN e ELSE 0)
      BY <3>1 DEF Differ
    <3> QED BY <2>4, <3>1, <3>2, <3>3, <3>4
  <2> QED BY <2>5, <2>6
<1>3. Expected(l)
  BY <1>2
<1> QED BY <1>3

\* Nothing to add up, or only zeroes.
LEMMA SumOfZeroes ==
  ASSUME NEW l \in Nat, NEW f, NEW s, Sums(f, s, l), \A i \in 1..l : f[i] = 0
  PROVE  s[l] = 0
<1> DEFINE Bad == {n \in 0..l : s[n] # 0}
<1>1. \A n \in 0..l : s[n] = SumStep(f, s, n)
  BY DEF Sums
<1>2. Bad = {}
  <2>1. SUFFICES ASSUME Bad # {} PROVE FALSE
    OBVIOUS
  <2>2. Bad \subseteq Nat
    OBVIOUS
  <2>3. PICK m \in Bad : \A n \in Bad : m <= n
    <3> HIDE DEF Bad
    <3> QED BY <2>1, <2>2, LeastNumber
  <2>4. CASE m = 0
    BY <1>1, <2>3, <2>4 DEF SumStep
  <2>5. CASE m # 0
    <3>1. m - 1 \in 0..l /\ m \in 1..l
      BY <2>3, <2>5
    <3>2. s[m - 1] = 0
      BY <2>3, <3>1
    <3>3. s[m] = s[m - 1] + f[m]
      BY <1>1, <2>5, <3>1 DEF SumStep
    <3> QED BY <2>3, <3>1, <3>2, <3>3
  <2> QED BY <2>4, <2>5
<1> QED BY <1>2

LEMMA EnumerationIs ==
  ASSUME IsFiniteSet(Dids)
  PROVE  /\ Cardinality(Dids) \in Nat
         /\ Enumeration \in [1..Cardinality(Dids) -> Dids]
         /\ \A d \in Dids : \E i \in 1..Cardinality(Dids) : Enumeration[i] = d
         /\ \A i, j \in 1..Cardinality(Dids) : Enumeration[i] = Enumeration[j] => i = j
<1>1. Cardinality(Dids) \in Nat /\ ExistsBijection(1..Cardinality(Dids), Dids)
  BY FS_CardinalityType
<1>2. PICK l \in Nat : l = Cardinality(Dids)
  BY <1>1
<1>3. PICK q : q \in Bijection(1..l, Dids)
  BY <1>1, <1>2 DEF ExistsBijection
<1>4. /\ q \in [1..l -> Dids]
      /\ \A d \in Dids : \E i \in 1..l : q[i] = d
      /\ \A i, j \in 1..l : q[i] = q[j] => i = j
  BY <1>3 DEF Bijection, Injection, Surjection, IsInjective
<1>5. \E r \in [1..Cardinality(Dids) -> Dids] :
         /\ \A d \in Dids : \E i \in 1..Cardinality(Dids) : r[i] = d
         /\ \A i, j \in 1..Cardinality(Dids) : r[i] = r[j] => i = j
  BY <1>2, <1>4, Zenon
<1> QED BY <1>1, <1>5, Zenon DEF Enumeration

\* What the DIDs report, in that order.
Reported == [i \in 1..Cardinality(Dids) |-> rqCount[Enumeration[i]]]

LEMMA SumOfStatusIs ==
  ASSUME IsFiniteSet(Dids)
  PROVE  \E s : Sums(Reported, s, Cardinality(Dids)) /\ SumOfStatus = s[Cardinality(Dids)]
<1> DEFINE upTo == CHOOSE upTo : upTo = [n \in 0..Cardinality(Dids) |->
                     IF n = 0 THEN 0 ELSE upTo[n - 1] + StatusMessageCount(Enumeration[n])]
<1>1. SumOfStatus = upTo[Cardinality(Dids)]
  BY DEF SumOfStatus
<1>2. PICK l \in Nat : l = Cardinality(Dids)
  BY EnumerationIs
<1>3. ASSUME NEW s
      PROVE  Sums(Reported, s, l) <=>
               s = [n \in 0..l |-> IF n = 0 THEN 0 ELSE s[n - 1] + StatusMessageCount(Enumeration[n])]
  <2>1. \A n \in 0..l : SumStep(Reported, s, n)
                          = IF n = 0 THEN 0 ELSE s[n - 1] + StatusMessageCount(Enumeration[n])
    BY <1>2 DEF SumStep, Reported, StatusMessageCount
  <2> QED BY <2>1 DEF Sums
<1>4. \E s : s = [n \in 0..l |-> IF n = 0 THEN 0 ELSE s[n - 1] + StatusMessageCount(Enumeration[n])]
  BY <1>3, SumsExist
<1>5. upTo = [n \in 0..l |-> IF n = 0 THEN 0 ELSE upTo[n - 1] + StatusMessageCount(Enumeration[n])]
  BY <1>2, <1>4, Zenon
<1> HIDE DEF upTo
<1> QED BY <1>1, <1>2, <1>3, <1>5

LEMMA NextSumOfStatusIs ==
  ASSUME IsFiniteSet(Dids)
  PROVE  (\E s : Sums(Reported, s, Cardinality(Dids)) /\ SumOfStatus = s[Cardinality(Dids)])'
BY SumOfStatusIs, PTL

LEMMA SumOfStatusMoves ==
  ASSUME IsFiniteSet(Dids), TypeOK, TypeOK', NEW d \in Dids, NEW e \in Int,
         rqCount'[d] = rqCount[d] + e, \A c \in Dids : c # d => rqCount'[c] = rqCount[c]
  PROVE  SumOfStatus \in Int /\ SumOfStatus' = SumOfStatus + e
<1>1. PICK l \in Nat : l = Cardinality(Dids)
  BY EnumerationIs
<1>2. PICK s : Sums(Reported, s, l) /\ SumOfStatus = s[l]
  BY <1>1, SumOfStatusIs
<1>3. PICK t : Sums(Reported', t, l) /\ SumOfStatus' = t[l]
  BY <1>1, NextSumOfStatusIs DEF Sums, SumStep
<1>4. PICK f, g : f = Reported /\ g = Reported'
  OBVIOUS
<1>5. PICK p \in 1..l : Enumeration[p] = d
  BY <1>1, EnumerationIs
<1>6. /\ Enumeration \in [1..l -> Dids]
      /\ \A i, j \in 1..l : Enumeration[i] = Enumeration[j] => i = j
  BY <1>1, EnumerationIs
<1>7. rqCount \in [Dids -> Int] /\ rqCount' \in [Dids -> Int]
  BY DEF TypeOK
<1>8. Differ(f, g, l, p, e)
  BY <1>1, <1>4, <1>5, <1>6, <1>7 DEF Reported, Differ
<1>9. Sums(f, s, l) /\ Sums(g, t, l)
  BY <1>2, <1>3, <1>4
<1>10. s[l] \in Int /\ t[l] = s[l] + e
  BY <1>1, <1>5, <1>8, <1>9, SumsDiffer
<1> QED BY <1>2, <1>3, <1>10

\* The "queued" number of the statistics (received - deleted) is the sum of the
\* message counts that the status replies of all DIDs report, whatever was
\* stored, refused half way by Redis (store_message in atm-functions.lua) or
\* deleted on behalf of the other party.
THEOREM StatisticAgrees ==
  ASSUME IsFiniteSet(Dids)
  PROVE  Spec => []QueuedStatIsSumOfStatus
<1>1. Init => QueuedStatIsSumOfStatus
  <2>1. SUFFICES ASSUME Init PROVE QueuedStatIsSumOfStatus
    OBVIOUS
  <2>2. PICK l \in Nat : l = Cardinality(Dids)
    BY EnumerationIs
  <2>3. PICK s : Sums(Reported, s, l) /\ SumOfStatus = s[l]
    BY <2>2, SumOfStatusIs
  <2>4. \A i \in 1..l : Reported[i] = 0
    BY <2>1, <2>2, EnumerationIs DEF Init, Reported
  <2>5. SumOfStatus = 0
    BY <2>3, <2>4, SumOfZeroes
  <2> QED BY <2>1, <2>5 DEF Init, QueuedStatIsSumOfStatus
<1>2. IndexInv /\ QueuedStatIsSumOfStatus /\ [Next]_vars => QueuedStatIsSumOfStatus'
  <2>1. SUFFICES ASSUME IndexInv, QueuedStatIsSumOfStatus, [Next]_vars
                 PROVE  QueuedStatIsSumOfStatus'
    OBVIOUS
  <2>0. TypeOK'
    BY <2>1, NextIndexInv DEF IndexInv
  <2>2. TypeOK /\ received \in Nat /\ deleted \in Nat /\ received - deleted = SumOfStatus
    BY <2>1 DEF IndexInv, TypeOK, QueuedStatIsSumOfStatus
  <2>3. ASSUME NEW d \in Dids, NEW h \in Hashes, StoreMessage(d, h)
        PROVE  QueuedStatIsSumOfStatus'
    <3>1. /\ rqCount'[d] = rqCount[d] + 1 /\ \A c \in Dids : c # d => rqCount'[c] = rqCount[c]
          /\ received' = received + 1 /\ deleted' = deleted
      BY <2>2, <2>3 DEF TypeOK, StoreMessage, StoreRefusedByReceiveQ, StoreRefusedBySendQ, StoreOk,
                  StorePrefix, CountReceived
    <3>2. SumOfStatus \in Int /\ SumOfStatus' = SumOfStatus + 1
      BY <2>0, <2>2, <3>1, SumOfStatusMoves
    <3> QED BY <2>2, <3>1, <3>2 DEF QueuedStatIsSumOfStatus
  <2>4. ASSUME NEW d \in Dids, NEW h \in Hashes, DeleteMessage(d, h)
        PROVE  QueuedStatIsSumOfStatus'
    <3>1. /\ rqCount' = [rqCount EXCEPT ![meta[h].to] = @ - 1] /\ received' = received
          /\ deleted' = deleted + 1
      BY <2>4 DEF DeleteMessage
    <3>2. PICK to \in Dids : to = meta[h].to
      BY <2>2, <2>4 DEF DeleteMessage, Owns, TypeOK, Meta
    <3>3. rqCount'[to] = rqCount[to] + (-1) /\ \A c \in Dids : c # to => rqCount'[c] = rqCount[c]
      BY <2>2, <3>1, <3>2 DEF TypeOK
    <3>4. SumOfStatus \in Int /\ SumOfStatus' = SumOfStatus + (-1)
      BY <2>2, <2>0, <3>3, SumOfStatusMoves
    <3> QED BY <2>2, <3>1, <3>4 DEF QueuedStatIsSumOfStatus
  <2>5. CASE UNCHANGED <<rqCount, received, deleted>>
    BY <2>2, <2>5 DEF QueuedStatIsSumOfStatus, SumOfStatus, StatusMessageCount
  <2>6. CASE Tick
    BY <2>5, <2>6 DEF Tick, countVars
  <2>7. CASE UNCHANGED vars
    BY <2>5, <2>7 DEF vars, countVars
  <2> QED BY <2>1, <2>3, <2>4, <2>6, <2>7 DEF Next
<1>3. Spec => []IndexInv
  BY InitIndexInv, NextIndexInv, PTL DEF Spec
<1> QED BY <1>1, <1>2, <1>3, PTL DEF Spec
=============================================================================
