--------------------------- MODULE StreamIdsProofs ---------------------------
(***************************************************************************)
(* What the stream commands return, for streams of any length: an XRANGE   *)
(* is in the order of the ids, holds every entry it should exactly once,   *)
(* and a bounded one leaves out only entries behind those it returns.      *)
(*                                                                         *)
(* There is a sorted sequence of every finite set of entries: proved by    *)
(* taking a smallest set that has none (WFMin on the finite subsets).      *)
(***************************************************************************)
EXTENDS StreamIds, FiniteSetTheorems, SequenceTheorems, WellFoundedInduction, TLAPS

\* A stream, or what is read of one: entries with an id, no id twice.
Stream(entries) ==
  /\ IsFiniteSet(entries)
  /\ \A e \in entries : e.id \in StreamId
  /\ \A e, f \in entries : e.id = f.id => e = f

\* s lists the entries, each once, from the lowest id to the highest.
Lists(s, entries) ==
  /\ s \in [1..Cardinality(entries) -> entries]
  /\ \A e \in entries : \E i \in 1..Cardinality(entries) : s[i] = e
  /\ \A i, j \in 1..Cardinality(entries) : i < j => IdLess(s[i].id, s[j].id)

\* The ids are in a total order.
LEMMA IdOrder ==
  /\ \A a \in StreamId : ~IdLess(a, a)
  /\ \A a, b, c \in StreamId : IdLess(a, b) /\ IdLess(b, c) => IdLess(a, c)
  /\ \A a, b \in StreamId : a = b \/ IdLess(a, b) \/ IdLess(b, a)
  /\ \A a, b \in StreamId : IdLess(a, b) => ~IdLess(b, a)
  /\ \A a, b, c \in StreamId : ~IdLess(b, a) /\ IdLess(b, c) => IdLess(a, c)
  /\ \A a, b, c \in StreamId : IdLess(a, b) /\ ~IdLess(c, b) => IdLess(a, c)
  /\ \A a, b, c \in StreamId : ~IdLess(b, a) /\ ~IdLess(c, b) => ~IdLess(c, a)
BY DEF StreamId, IdLess

LEMMA SubStream ==
  ASSUME NEW entries, Stream(entries), NEW part, part \subseteq entries
  PROVE  Stream(part)
<1>1. IsFiniteSet(part)
  BY FS_Subset DEF Stream
<1> QED BY <1>1 DEF Stream

\* Of a finite, non-empty stream one entry is above the others.
LEMMA NewestEntry ==
  ASSUME NEW entries, Stream(entries), entries # {}
  PROVE  \E top \in entries : \A e \in entries : e = top \/ IdLess(e.id, top.id)
<1> DEFINE Bad == {q \in SUBSET entries : q # {}
              /\ ~ \E top \in q : \A e \in q : e = top \/ IdLess(e.id, top.id)}
<1>1. SUFFICES ASSUME Bad # {} PROVE FALSE
  OBVIOUS
<1>2. Bad \subseteq FiniteSubsetsOf(entries)
  BY FS_Subset DEF FiniteSubsetsOf, Stream
<1>3. IsWellFoundedOn(StrictSubsetOrdering(entries), FiniteSubsetsOf(entries))
  BY FS_StrictSubsetOrderingWellFounded
<1>4. PICK q \in Bad : \A r \in Bad : <<r, q>> \notin StrictSubsetOrdering(entries)
  <2> HIDE DEF Bad
  <2> QED BY <1>1, <1>2, <1>3, WFMin
<1>5. PICK e \in q : TRUE
  OBVIOUS
<1> DEFINE r == q \ {e}
<1>6. r \in SUBSET entries /\ r # q
  OBVIOUS
<1>7. <<r, q>> \in StrictSubsetOrdering(entries)
  BY <1>6 DEF StrictSubsetOrdering
<1>8. r \notin Bad
  BY <1>4, <1>7
<1>9. CASE r = {}
  BY <1>5, <1>9
<1>10. CASE r # {}
  <2>1. PICK top \in r : \A f \in r : f = top \/ IdLess(f.id, top.id)
    BY <1>6, <1>8, <1>10
  <2>2. e.id \in StreamId /\ top.id \in StreamId /\ \A f \in q : f.id \in StreamId
    BY DEF Stream
  <2>3. e.id # top.id
    BY DEF Stream
  <2>4. CASE IdLess(e.id, top.id)
    BY <2>1, <2>4
  <2>5. CASE IdLess(top.id, e.id)
    <3>1. \A f \in q : f = e \/ IdLess(f.id, e.id)
      BY <2>1, <2>2, <2>5, IdOrder
    <3> QED BY <3>1
  <2> QED BY <2>2, <2>3, <2>4, <2>5, IdOrder
<1> QED BY <1>9, <1>10

\* Every non-empty set of positions has a last one.
LEMMA MaxOfPositions ==
  ASSUME NEW n \in Nat, NEW P \in SUBSET (1..n), P # {}
  PROVE  Max(P) \in P /\ \A i \in P : i <= Max(P)
<1> DEFINE id(i) == [id |-> [time |-> i, seq |-> 0]]
           q == {id(i) : i \in P}
<1>1. IsFiniteSet(P)
  <2>1. IsFiniteSet(1..n)
    BY FS_Interval
  <2> QED BY <2>1, FS_Subset
<1>2. [i \in P |-> id(i)] \in Surjection(P, q)
  BY DEF Surjection
<1>3. Stream(q)
  <2>1. IsFiniteSet(q)
    BY <1>1, <1>2, FS_Surjection
  <2> QED BY <2>1 DEF Stream, StreamId
<1>4. PICK top \in q : \A e \in q : e = top \/ IdLess(e.id, top.id)
  BY <1>3, NewestEntry
<1>5. PICK m \in P : top = id(m)
  OBVIOUS
<1>6. \A i \in P : i <= m
  <2> SUFFICES ASSUME NEW i \in P PROVE i <= m
    OBVIOUS
  <2>1. id(i) = top \/ IdLess(id(i).id, top.id)
    BY <1>4
  <2>2. i \in Nat /\ m \in Nat /\ id(i).id.time = i /\ id(i).id.seq = 0
        /\ top.id.time = m /\ top.id.seq = 0
    BY <1>5
  <2> HIDE DEF id
  <2> QED BY <2>1, <2>2 DEF IdLess
<1> QED BY <1>6 DEF Max

\* And a first one.
LEMMA FirstOfPositions ==
  ASSUME NEW n \in Nat, NEW P \in SUBSET (1..n), P # {}
  PROVE  \E m \in P : \A i \in P : m <= i
<1> DEFINE Q == {n + 1 - i : i \in P}
<1>0. \A i \in P : n + 1 - i \in 1..n
  OBVIOUS
<1>1. Q \in SUBSET (1..n) /\ Q # {}
  BY <1>0
<1>2. Max(Q) \in Q /\ \A i \in Q : i <= Max(Q)
  <2> HIDE DEF Q
  <2> QED BY <1>1, MaxOfPositions
<1>3. PICK m \in P : Max(Q) = n + 1 - m
  BY <1>2
<1>4. \A i \in P : n + 1 - i <= n + 1 - m
  BY <1>2, <1>3
<1>5. \A i \in P : m <= i
  BY <1>4
<1> QED BY <1>5

-----------------------------------------------------------------------------

\* A sorted list of a stream, and behind it an entry above all of them.
LEMMA ListAndOne ==
  ASSUME NEW entries, Stream(entries), NEW top \in entries,
         \A e \in entries : e = top \/ IdLess(e.id, top.id),
         NEW s, Lists(s, entries \ {top})
  PROVE  \E t : Lists(t, entries)
<1> DEFINE rest == entries \ {top}
           n == Cardinality(rest)
           t == [i \in 1..(n + 1) |-> IF i = n + 1 THEN top ELSE s[i]]
<1>1. IsFiniteSet(rest) /\ n \in Nat /\ Cardinality(entries) = n + 1
  BY FS_RemoveElement, FS_CardinalityType, FS_Subset DEF Stream
<1>0. Lists(s, rest) /\ n = Cardinality(rest)
  OBVIOUS
<1> HIDE DEF n, rest
<1>8. \A i \in 1..n : s[i] \in rest
  BY <1>0 DEF Lists
<1>9. \A i \in 1..n : i \in 1..(n + 1) /\ i # n + 1
  BY <1>1
<1>2. \A i \in 1..n : s[i] \in rest /\ t[i] = s[i]
  BY <1>8, <1>9
<1>3. t[n + 1] = top
  BY <1>1
<1>10. \A i \in 1..(n + 1) : i = n + 1 \/ i \in 1..n
  BY <1>1
<1>4. t \in [1..(n + 1) -> entries]
  BY <1>8, <1>10 DEF rest
<1>5. \A e \in entries : \E i \in 1..(n + 1) : t[i] = e
  <2> SUFFICES ASSUME NEW e \in entries PROVE \E i \in 1..(n + 1) : t[i] = e
    OBVIOUS
  <2>1. CASE e = top
    BY <1>1, <1>3, <2>1
  <2>2. CASE e # top
    <3>1. PICK i \in 1..n : s[i] = e
      BY <1>0, <2>2 DEF Lists, rest
    <3>2. i \in 1..(n + 1) /\ t[i] = e
      BY <1>1, <1>2, <3>1
    <3> QED BY <3>2
  <2> QED BY <2>1, <2>2
<1>6. \A i, j \in 1..(n + 1) : i < j => IdLess(t[i].id, t[j].id)
  <2> SUFFICES ASSUME NEW i \in 1..(n + 1), NEW j \in 1..(n + 1), i < j
               PROVE  IdLess(t[i].id, t[j].id)
    OBVIOUS
  <2>0. i # n + 1
    BY <1>1
  <2>1. i \in 1..n /\ t[i] = s[i] /\ s[i] \in rest
    BY <1>2, <1>10, <2>0
  <2>2. CASE j = n + 1
    BY <1>3, <2>1, <2>2 DEF rest
  <2>3. CASE j # n + 1
    <3>1. j \in 1..n /\ t[j] = s[j]
      BY <1>2, <1>10, <2>3
    <3> QED BY <1>0, <2>1, <3>1 DEF Lists
  <2> QED BY <2>2, <2>3
<1> HIDE DEF t
<1>7. Lists(t, entries)
  BY <1>1, <1>4, <1>5, <1>6 DEF Lists
<1> QED BY <1>7

LEMMA ListExists ==
  ASSUME NEW entries, Stream(entries) PROVE \E s : Lists(s, entries)
<1> DEFINE Bad == {q \in SUBSET entries : ~ \E s : Lists(s, q)}
<1>1. SUFFICES ASSUME Bad # {} PROVE FALSE
  OBVIOUS
<1>2. Bad \subseteq FiniteSubsetsOf(entries)
  BY FS_Subset DEF FiniteSubsetsOf, Stream
<1>3. IsWellFoundedOn(StrictSubsetOrdering(entries), FiniteSubsetsOf(entries))
  BY FS_StrictSubsetOrderingWellFounded
<1>4. PICK q \in Bad : \A r \in Bad : <<r, q>> \notin StrictSubsetOrdering(entries)
  <2> HIDE DEF Bad
  <2> QED BY <1>1, <1>2, <1>3, WFMin
<1>5. Stream(q)
  BY SubStream
<1>6. CASE q = {}
  <2>1. Cardinality(q) = 0
    BY <1>6, FS_EmptySet
  <2>2. Lists([i \in 1..0 |-> i], q)
    BY <1>6, <2>1 DEF Lists
  <2> QED BY <2>2
<1>7. CASE q # {}
  <2>1. PICK top \in q : \A e \in q : e = top \/ IdLess(e.id, top.id)
    BY <1>5, <1>7, NewestEntry
  <2> DEFINE r == q \ {top}
  <2>2. r \in SUBSET entries /\ <<r, q>> \in StrictSubsetOrdering(entries)
    BY DEF StrictSubsetOrdering
  <2>3. \E s : Lists(s, r)
    BY <1>4, <2>2
  <2>4. \E t : Lists(t, q)
    BY <1>5, <2>1, <2>3, ListAndOne
  <2> QED BY <2>4
<1> QED BY <1>6, <1>7

(***************************************************************************)
(* XRANGE returns every entry of the stream once, from the lowest id to    *)
(* the highest.                                                            *)
(***************************************************************************)
LEMMA InStreamOrderLists ==
  ASSUME NEW entries, Stream(entries)
  PROVE  Lists(InStreamOrder(entries), entries)
<1> DEFINE n == Cardinality(entries)
           Sorted(s) == \A i, j \in DOMAIN s : i < j => ~IdLess(s[j].id, s[i].id)
<1>1. n \in Nat
  BY FS_CardinalityType DEF Stream
<1>2. PICK t : Lists(t, entries)
  BY ListExists
<1>3. t \in SetToSeqs(entries)
  <2>1. \A i, j \in 1..n : i # j => t[i] # t[j]
    <3> SUFFICES ASSUME NEW i \in 1..n, NEW j \in 1..n, i # j PROVE t[i] # t[j]
      OBVIOUS
    <3>1. t[i] \in entries /\ t[j] \in entries
      BY <1>2 DEF Lists
    <3>2. t[i].id \in StreamId /\ t[j].id \in StreamId
      BY <3>1 DEF Stream
    <3>3. i < j \/ j < i
      BY <1>1
    <3>4. IdLess(t[i].id, t[j].id) \/ IdLess(t[j].id, t[i].id)
      BY <1>2, <3>3 DEF Lists
    <3> QED BY <3>2, <3>4, IdOrder
  <2> QED BY <1>2, <2>1 DEF Lists, SetToSeqs
<1>4. Sorted(t)
  <2>1. DOMAIN t = 1..n /\ \A i \in 1..n : t[i].id \in StreamId
    BY <1>2 DEF Lists, Stream
  <2> QED BY <1>2, <2>1, IdOrder DEF Lists
<1> DEFINE s == InStreamOrder(entries)
<1>5. s \in SetToSeqs(entries) /\ Sorted(s)
  BY <1>3, <1>4 DEF InStreamOrder
<1> HIDE DEF s
<1>6. s \in [1..n -> entries] /\ \A i, j \in 1..n : i # j => s[i] # s[j]
  BY <1>5 DEF SetToSeqs
<1>7. \A i, j \in 1..n : i < j => IdLess(s[i].id, s[j].id)
  <2> SUFFICES ASSUME NEW i \in 1..n, NEW j \in 1..n, i < j
               PROVE  IdLess(s[i].id, s[j].id)
    OBVIOUS
  <2>1. s[i] \in entries /\ s[j] \in entries /\ s[i] # s[j]
    BY <1>1, <1>6
  <2>2. s[i].id \in StreamId /\ s[j].id \in StreamId /\ s[i].id # s[j].id
    BY <2>1 DEF Stream
  <2>3. ~IdLess(s[j].id, s[i].id)
    BY <1>5, <1>6
  <2> QED BY <2>2, <2>3, IdOrder
<1>8. \A e \in entries : \E i \in 1..n : s[i] = e
  <2>1. s \in Injection(1..n, entries)
    BY <1>6 DEF Injection, IsInjective
  <2>2. IsFiniteSet(1..n) /\ Cardinality(1..n) = n
    BY <1>1, FS_Interval
  <2>3. s \in Surjection(1..n, entries)
    BY <2>1, <2>2, FS_Injection DEF Stream
  <2> QED BY <2>3 DEF Surjection
<1> QED BY <1>6, <1>7, <1>8 DEF Lists, s

\* So it is a sequence of them, and its elements are the entries.
LEMMA InStreamOrderIsSeq ==
  ASSUME NEW entries, Stream(entries)
  PROVE  /\ InStreamOrder(entries) \in Seq(entries)
         /\ ToSet(InStreamOrder(entries)) = entries
         /\ Len(InStreamOrder(entries)) = Cardinality(entries)
<1> DEFINE s == InStreamOrder(entries)
           n == Cardinality(entries)
<1>1. n \in Nat
  BY FS_CardinalityType DEF Stream
<1>2. Lists(s, entries)
  BY InStreamOrderLists
<1> HIDE DEF s
<1>3. s \in [1..n -> entries] /\ \A e \in entries : \E i \in 1..n : s[i] = e
  BY <1>2 DEF Lists
<1> HIDE DEF n
<1>4. s \in Seq(entries) /\ Len(s) = n
  BY <1>1, <1>3
<1>5. ToSet(s) = entries
  BY <1>3 DEF ToSet
<1> QED BY <1>4, <1>5 DEF s, n

(***************************************************************************)
(* A bounded XRANGE takes the lowest entries behind its start: it returns  *)
(* no entry without those between the start and that entry.                *)
(***************************************************************************)
LEMMA RangeSetHasNoGap ==
  ASSUME NEW entries, Stream(entries), NEW start \in StreamId, NEW limit \in Nat,
         NEW e \in RangeSet(entries, start, limit),
         NEW f \in entries, IdLess(start, f.id), IdLess(f.id, e.id)
  PROVE  f \in RangeSet(entries, start, limit)
<1> DEFINE after == {g \in entries : IdLess(start, g.id)}
           below(x) == {g \in after : IdLess(g.id, x.id)}
<1>1. e \in after /\ Cardinality(below(e)) < limit
  BY DEF RangeSet
<1>2. e.id \in StreamId /\ f.id \in StreamId /\ \A g \in entries : g.id \in StreamId
  BY <1>1 DEF Stream
<1>3. below(f) \subseteq below(e)
  BY <1>2, IdOrder
<1>4. IsFiniteSet(below(e))
  BY FS_Subset DEF Stream
<1>5. /\ Cardinality(below(f)) \in Nat /\ Cardinality(below(e)) \in Nat
      /\ Cardinality(below(f)) <= Cardinality(below(e))
  BY <1>3, <1>4, FS_Subset, FS_CardinalityType
<1>6. f \in after
  OBVIOUS
<1>7. Cardinality(below(f)) < limit
  <2> HIDE DEF below
  <2> QED BY <1>1, <1>5
<1> QED BY <1>6, <1>7 DEF RangeSet

-----------------------------------------------------------------------------
(* How the list of a stream changes with the stream. *)

\* There is one list of a stream.
LEMMA ListIsUnique ==
  ASSUME NEW entries, Stream(entries), NEW s, Lists(s, entries), NEW t, Lists(t, entries)
  PROVE  s = t
<1> DEFINE n == Cardinality(entries)
           P == {i \in 1..n : s[i] # t[i]}
<1>1. n \in Nat
  BY FS_CardinalityType DEF Stream
<1>2. /\ s \in [1..n -> entries] /\ t \in [1..n -> entries]
      /\ \A e \in entries : (\E i \in 1..n : s[i] = e) /\ (\E i \in 1..n : t[i] = e)
      /\ \A i, j \in 1..n : i < j => IdLess(s[i].id, s[j].id) /\ IdLess(t[i].id, t[j].id)
  BY DEF Lists
<1> HIDE DEF n
<1>3. \A i \in 1..n : s[i].id \in StreamId /\ t[i].id \in StreamId
  BY <1>2 DEF Stream
<1>4. ASSUME P # {} PROVE FALSE
  <2>1. PICK m \in P : \A i \in P : m <= i
    BY <1>1, <1>4, FirstOfPositions
  <2>2. m \in 1..n /\ s[m] # t[m] /\ \A i \in 1..n : i < m => s[i] = t[i]
    BY <1>1, <2>1
  <2>3. PICK j \in 1..n : t[j] = s[m]
    BY <1>2, <2>2
  <2>4. PICK k \in 1..n : s[k] = t[m]
    BY <1>2, <2>2
  <2>5. ASSUME j < m PROVE FALSE
    <3>1. s[j] = s[m]
      BY <2>2, <2>3, <2>5
    <3>2. IdLess(s[j].id, s[m].id)
      BY <1>2, <2>2, <2>5
    <3> QED BY <1>3, <2>2, <3>1, <3>2, IdOrder
  <2>6. ASSUME k < m PROVE FALSE
    <3>1. t[k] = t[m]
      BY <2>2, <2>4, <2>6
    <3>2. IdLess(t[k].id, t[m].id)
      BY <1>2, <2>2, <2>6
    <3> QED BY <1>3, <2>2, <3>1, <3>2, IdOrder
  <2>7. m < j /\ m < k
    BY <1>1, <2>2, <2>3, <2>4, <2>5, <2>6
  <2>8. IdLess(t[m].id, s[m].id) /\ IdLess(s[m].id, t[m].id)
    BY <1>2, <2>2, <2>3, <2>4, <2>7
  <2> QED BY <1>3, <2>2, <2>8, IdOrder
<1>5. \A i \in 1..n : s[i] = t[i]
  BY <1>4
<1>6. s = [i \in 1..n |-> s[i]] /\ t = [i \in 1..n |-> t[i]]
  BY <1>2
<1>7. [i \in 1..n |-> s[i]] = [i \in 1..n |-> t[i]]
  BY <1>5
<1> QED BY <1>6, <1>7

\* An entry above all others is listed behind them.
LEMMA ListOfAppended ==
  ASSUME NEW entries, Stream(entries), NEW x, x.id \in StreamId,
         \A e \in entries : IdLess(e.id, x.id)
  PROVE  LET s == InStreamOrder(entries)
             t == InStreamOrder(entries \cup {x})
             n == Cardinality(entries)
         IN  /\ x \notin entries /\ Stream(entries \cup {x})
             /\ n \in Nat /\ Cardinality(entries \cup {x}) = n + 1
             /\ \A i \in 1..n : t[i] = s[i]
             /\ t[n + 1] = x
<1> DEFINE s == InStreamOrder(entries)
           n == Cardinality(entries)
           all == entries \cup {x}
           t == [i \in 1..(n + 1) |-> IF i = n + 1 THEN x ELSE s[i]]
<1>1. x \notin entries /\ \A e \in entries : e.id \in StreamId
  BY IdOrder DEF Stream
<1>2. n \in Nat /\ IsFiniteSet(all) /\ Cardinality(all) = n + 1
  BY <1>1, FS_AddElement, FS_CardinalityType DEF Stream
<1>3. Stream(all)
  BY <1>1, <1>2, IdOrder DEF Stream
<1>4. Lists(s, entries)
  BY InStreamOrderLists
<1> HIDE DEF s, all
<1>5. /\ s \in [1..n -> entries] /\ \A e \in entries : \E i \in 1..n : s[i] = e
      /\ \A i, j \in 1..n : i < j => IdLess(s[i].id, s[j].id)
  BY <1>4 DEF Lists
<1> HIDE DEF n
<1>6. /\ \A i \in 1..n : i \in 1..(n + 1) /\ i # n + 1
      /\ \A i \in 1..(n + 1) : i = n + 1 \/ i \in 1..n
      /\ n + 1 \in 1..(n + 1)
  BY <1>2
<1>7. (\A i \in 1..n : t[i] = s[i]) /\ t[n + 1] = x
  BY <1>6
<1>8. t \in [1..(n + 1) -> all]
  BY <1>5, <1>6 DEF all
<1>9. \A e \in all : \E i \in 1..(n + 1) : t[i] = e
  BY <1>5, <1>6, <1>7 DEF all
<1>10. \A i, j \in 1..(n + 1) : i < j => IdLess(t[i].id, t[j].id)
  <2> SUFFICES ASSUME NEW i \in 1..(n + 1), NEW j \in 1..(n + 1), i < j
               PROVE  IdLess(t[i].id, t[j].id)
    OBVIOUS
  <2>1. i \in 1..n /\ t[i] = s[i] /\ s[i] \in entries
    <3>1. i # n + 1
      BY <1>2
    <3> QED BY <1>5, <1>6, <1>7, <3>1
  <2>2. CASE j = n + 1
    BY <1>7, <2>1, <2>2
  <2>3. CASE j \in 1..n
    BY <1>5, <1>7, <2>1, <2>3
  <2> QED BY <1>6, <2>2, <2>3
<1> HIDE DEF t
<1>11. Lists(t, all)
  BY <1>2, <1>8, <1>9, <1>10 DEF Lists
<1>12. InStreamOrder(all) = t
  BY <1>3, <1>11, InStreamOrderLists, ListIsUnique
<1> QED BY <1>1, <1>2, <1>3, <1>7, <1>12 DEF s, n, all

\* An entry that leaves is at one position, and those behind it move up.
LEMMA ListOfRemoved ==
  ASSUME NEW entries, Stream(entries), NEW x \in entries
  PROVE  LET s == InStreamOrder(entries)
             t == InStreamOrder(entries \ {x})
             n == Cardinality(entries \ {x})
         IN  /\ n \in Nat /\ Cardinality(entries) = n + 1
             /\ \E k \in 1..(n + 1) :
                  /\ s[k] = x
                  /\ \A i \in 1..n : t[i] = IF i < k THEN s[i] ELSE s[i + 1]
<1> DEFINE s == InStreamOrder(entries)
           rest == entries \ {x}
           n == Cardinality(rest)
<1>1. n \in Nat /\ Cardinality(entries) = n + 1
  BY FS_RemoveElement, FS_CardinalityType, FS_Subset DEF Stream
<1>2. Stream(rest)
  BY SubStream
<1>3. Lists(s, entries)
  BY InStreamOrderLists
<1> HIDE DEF s
<1>4. /\ s \in [1..(n + 1) -> entries] /\ \A e \in entries : \E i \in 1..(n + 1) : s[i] = e
      /\ \A i, j \in 1..(n + 1) : i < j => IdLess(s[i].id, s[j].id)
  BY <1>1, <1>3 DEF Lists
<1>5. PICK k \in 1..(n + 1) : s[k] = x
  BY <1>4
<1> DEFINE old(i) == IF i < k THEN i ELSE i + 1
           t == [i \in 1..n |-> s[old(i)]]
<1> HIDE DEF n, rest
<1>6. \A i \in 1..n : old(i) \in 1..(n + 1) /\ old(i) # k
  BY <1>1
<1>7. \A i, j \in 1..n : i < j => old(i) < old(j)
  BY <1>1
<1>8. \A j \in 1..(n + 1) : j # k => \E i \in 1..n : old(i) = j
  <2> SUFFICES ASSUME NEW j \in 1..(n + 1), j # k PROVE \E i \in 1..n : old(i) = j
    OBVIOUS
  <2>1. CASE j < k
    <3>1. j \in 1..n /\ old(j) = j
      BY <1>1, <2>1
    <3> QED BY <3>1
  <2>2. CASE k < j
    <3>1. j - 1 \in 1..n /\ old(j - 1) = j
      BY <1>1, <2>2
    <3> QED BY <3>1
  <2> QED BY <1>1, <2>1, <2>2
<1> HIDE DEF old
<1>9. \A i \in 1..(n + 1) : s[i] \in entries /\ s[i].id \in StreamId
  BY <1>4 DEF Stream
<1>10. \A i \in 1..(n + 1) : i # k => s[i] # x
  <2> SUFFICES ASSUME NEW i \in 1..(n + 1), i # k, s[i] = x PROVE FALSE
    OBVIOUS
  <2>1. IdLess(s[i].id, s[k].id) \/ IdLess(s[k].id, s[i].id)
    BY <1>1, <1>4
  <2> QED BY <1>5, <1>9, <2>1, IdOrder
<1>11. t \in [1..n -> rest]
  BY <1>6, <1>9, <1>10 DEF rest
<1>12. \A e \in rest : \E i \in 1..n : t[i] = e
  <2> SUFFICES ASSUME NEW e \in rest PROVE \E i \in 1..n : t[i] = e
    OBVIOUS
  <2>1. PICK j \in 1..(n + 1) : s[j] = e
    BY <1>4 DEF rest
  <2>2. j # k
    BY <1>5, <2>1 DEF rest
  <2>3. PICK i \in 1..n : old(i) = j
    BY <1>8, <2>2
  <2> QED BY <2>1, <2>3
<1>13. \A i, j \in 1..n : i < j => IdLess(t[i].id, t[j].id)
  <2> SUFFICES ASSUME NEW i \in 1..n, NEW j \in 1..n, i < j
               PROVE  IdLess(t[i].id, t[j].id)
    OBVIOUS
  <2>1. t[i] = s[old(i)] /\ t[j] = s[old(j)]
    OBVIOUS
  <2> QED BY <1>4, <1>6, <1>7, <2>1
<1>14. \A i \in 1..n : t[i] = s[old(i)]
  OBVIOUS
<1> HIDE DEF t
<1>15. Lists(t, rest)
  BY <1>11, <1>12, <1>13 DEF Lists, n
<1>16. InStreamOrder(rest) = t
  BY <1>2, <1>15, InStreamOrderLists, ListIsUnique
<1>17. \A i \in 1..n : s[old(i)] = IF i < k THEN s[i] ELSE s[i + 1]
  BY DEF old
<1> QED BY <1>1, <1>5, <1>14, <1>16, <1>17 DEF s, n, rest

\* What RemoveAt leaves of a sequence.
LEMMA RemoveAtElements ==
  ASSUME NEW S, NEW s \in Seq(S), NEW n \in Nat, Len(s) = n + 1, NEW k \in 1..(n + 1)
  PROVE  RemoveAt(s, k) = [i \in 1..n |-> IF i < k THEN s[i] ELSE s[i + 1]]
<1> DEFINE a == SubSeq(s, 1, k - 1)
           b == SubSeq(s, k + 1, n + 1)
           t == [i \in 1..n |-> IF i < k THEN s[i] ELSE s[i + 1]]
<1>1. a \in Seq(S) /\ Len(a) = k - 1 /\ \A i \in 1..(k - 1) : a[i] = s[i]
  OBVIOUS
<1>2. b \in Seq(S) /\ Len(b) = n + 1 - k /\ \A i \in 1..(n + 1 - k) : b[i] = s[i + k]
  OBVIOUS
<1> HIDE DEF a, b
<1>3. a \o b \in Seq(S) /\ Len(a \o b) = n
  <2>1. a \o b \in Seq(S) /\ Len(a \o b) = Len(a) + Len(b)
    BY <1>1, <1>2
  <2>2. Len(a) + Len(b) = n
    BY <1>1, <1>2
  <2> QED BY <2>1, <2>2
<1>4. \A i \in 1..n : (a \o b)[i] = t[i]
  <2> SUFFICES ASSUME NEW i \in 1..n PROVE (a \o b)[i] = t[i]
    OBVIOUS
  <2>1. CASE i < k
    BY <1>1, <1>2, <2>1
  <2>2. CASE ~(i < k)
    <3>1. (a \o b)[i] = b[i - (k - 1)]
      BY <1>1, <1>2, <2>2
    <3>2. i - (k - 1) \in 1..(n + 1 - k) /\ i - (k - 1) + k = i + 1
      BY <2>2
    <3> QED BY <1>2, <2>2, <3>1, <3>2
  <2> QED BY <2>1, <2>2
<1>5. t \in Seq(S) /\ Len(t) = n
  <2>1. \A i \in 1..n : (i \in 1..(n + 1) /\ i + 1 \in 1..(n + 1))
    OBVIOUS
  <2>2. \A i \in 1..(n + 1) : s[i] \in S
    OBVIOUS
  <2>3. t \in [1..n -> S]
    BY <2>1, <2>2
  <2> QED BY <2>3
<1> HIDE DEF t
<1>6. a \o b = t
  BY <1>3, <1>4, <1>5, SeqEqual
<1> QED BY <1>6 DEF RemoveAt, a, b, t
=============================================================================
