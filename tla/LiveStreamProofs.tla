-------------------------- MODULE LiveStreamProofs --------------------------
(***************************************************************************)
(* The live stream of the SDK, for any messages, keys, capacities and      *)
(* number of calls: channels and calls are well formed, the application    *)
(* gets the messages in the order they arrived, all that can be read up to *)
(* the last it got, and twice only what it asked for.                      *)
(***************************************************************************)
EXTENDS LiveStream, SequenceTheorems, TLAPS

\* The key of a get that is under way, or was, was asked for; a request that
\* goes out is one.  A call that still has a get to make is one of the calls of
\* Message Pickup.
CallInv ==
  /\ call.pc = "sending" => call.op \in {"send", "pickup", "exit", "next", "get"}
  /\ call.op \in {"get", "pickup"} => call.key \in gets
  /\ call.op \in {"send", "pickup"} => call.key \in Requests
  /\ call.op = "pickup" => call.more > 0
  /\ call.more > 0 => call.op \in {"get", "pickup"}

KnownCommand(c) ==
  /\ c.op = "get" => c.key \in gets
  /\ c.op = "send" => c.key \in Requests

AskedInv ==
  /\ search \subseteq gets
  /\ \A i \in DOMAIN commands : KnownCommand(commands[i])

\* With a message p has seen those that arrived up to it.
InOrder(p, all) ==
  \A i \in DOMAIN p : p[i].kind = "message" =>
    \E k \in DOMAIN all : p[i].msg = all[k] /\ SeenIn(p, i) = FirstOf(all, k)

\* What p has not seen is the rest.
Complete(p, all, rest) ==
  \E k \in 0..Len(all) :
    SeenIn(p, Len(p)) = FirstOf(all, k) /\ rest = SubSeq(all, k + 1, Len(all))

\* What p has twice is in keys.
TwiceIn(p, keys) ==
  \A i, j \in DOMAIN p :
    i # j /\ p[i].kind = "message" /\ p[i] = p[j] => KeyOf[p[i].msg] \in keys

NoneTwice(s) == \A i, j \in DOMAIN s : s[i] = s[j] => i = j

OrderInv ==
  /\ handler = "starting" => out = <<>>
  /\ NoneTwice(arrivals)
  /\ InOrder(Passed, arrivals)
  /\ handler # "ended" => Complete(Passed, arrivals, socket)
  /\ TwiceIn(Passed, gets)

LiveInv == LiveTypeOK /\ CallInv /\ AskedInv /\ OrderInv

-----------------------------------------------------------------------------
(* Sequences of events: what was seen, and what arrived first *)

LEMMA EventKinds ==
  /\ Started \in Events /\ Started.kind # "message"
  /\ NotFound \in Events /\ NotFound.kind # "message"
  /\ \A m \in Messages : Message(m) \in Events /\ Message(m).kind = "message"
                         /\ Message(m).msg = m
  /\ \A e \in Events : e.kind = "message" => e.msg \in Messages /\ e = Message(e.msg)
BY DEF Events, Started, NotFound, Message, Event

LEMMA SeenOfSame ==
  ASSUME NEW p, NEW q, NEW n \in Nat, \A i \in 1..n : q[i] = p[i]
  PROVE  SeenIn(q, n) = SeenIn(p, n)
BY DEF SeenIn

LEMMA SeenGrows ==
  ASSUME NEW p, NEW n \in Nat
  PROVE  /\ p[n + 1].kind = "message" => SeenIn(p, n + 1) = SeenIn(p, n) \cup {p[n + 1].msg}
         /\ p[n + 1].kind # "message" => SeenIn(p, n + 1) = SeenIn(p, n)
<1>1. 1..(n + 1) = 1..n \cup {n + 1}
  OBVIOUS
<1> QED BY <1>1 DEF SeenIn

LEMMA FirstGrows ==
  ASSUME NEW all, NEW n \in Nat
  PROVE  FirstOf(all, n + 1) = FirstOf(all, n) \cup ({all[n + 1]} \ Unreadable)
<1>1. 1..(n + 1) = 1..n \cup {n + 1}
  OBVIOUS
<1> QED BY <1>1 DEF FirstOf

LEMMA FirstOfSame ==
  ASSUME NEW all, NEW more, NEW n \in Nat, \A i \in 1..n : more[i] = all[i]
  PROVE  FirstOf(more, n) = FirstOf(all, n)
BY DEF FirstOf

\* An event that is no message changes nothing.
LEMMA AppendOther ==
  ASSUME NEW p \in Seq(Events), NEW e \in Events, e.kind # "message",
         NEW all, NEW rest, NEW keys
  PROVE  /\ Append(p, e) \in Seq(Events)
         /\ InOrder(p, all) => InOrder(Append(p, e), all)
         /\ Complete(p, all, rest) => Complete(Append(p, e), all, rest)
         /\ TwiceIn(p, keys) => TwiceIn(Append(p, e), keys)
<1> DEFINE q == Append(p, e)
<1>1. /\ q \in Seq(Events) /\ Len(q) = Len(p) + 1 /\ Len(p) \in Nat
      /\ DOMAIN p = 1..Len(p) /\ DOMAIN q = 1..(Len(p) + 1)
      /\ \A i \in 1..Len(p) : q[i] = p[i]
      /\ q[Len(p) + 1] = e
  OBVIOUS
<1> HIDE DEF q
<1>2. \A n \in 0..Len(p) : SeenIn(q, n) = SeenIn(p, n)
  BY <1>1, SeenOfSame
<1>3. SeenIn(q, Len(p) + 1) = SeenIn(p, Len(p))
  BY <1>1, <1>2, SeenGrows
<1>4. ASSUME InOrder(p, all) PROVE InOrder(q, all)
  <2> SUFFICES ASSUME NEW i \in DOMAIN q, q[i].kind = "message"
               PROVE  \E k \in DOMAIN all : q[i].msg = all[k] /\ SeenIn(q, i) = FirstOf(all, k)
    BY DEF InOrder
  <2>1. i \in 1..Len(p)
    BY <1>1
  <2> QED BY <1>1, <1>2, <1>4, <2>1 DEF InOrder
<1>5. Complete(p, all, rest) => Complete(q, all, rest)
  BY <1>1, <1>3 DEF Complete
<1>6. ASSUME TwiceIn(p, keys) PROVE TwiceIn(q, keys)
  <2> SUFFICES ASSUME NEW i \in DOMAIN q, NEW j \in DOMAIN q, i # j,
                      q[i].kind = "message", q[i] = q[j]
               PROVE  KeyOf[q[i].msg] \in keys
    BY DEF TwiceIn
  <2>1. i \in 1..Len(p) /\ j \in 1..Len(p)
    BY <1>1
  <2> QED BY <1>1, <1>6, <2>1 DEF TwiceIn
<1> QED BY <1>1, <1>4, <1>5, <1>6 DEF q

\* The next message of those that have arrived, which can be read.
LEMMA AppendNext ==
  ASSUME NEW p \in Seq(Events), NEW all \in Seq(Messages), NEW rest \in Seq(Messages),
         NEW keys, rest # <<>>, Head(rest) \notin Unreadable, NoneTwice(all),
         Complete(p, all, rest)
  PROVE  LET q == Append(p, Message(Head(rest)))
         IN  /\ q \in Seq(Events)
             /\ InOrder(p, all) => InOrder(q, all)
             /\ Complete(q, all, Tail(rest))
             /\ TwiceIn(p, keys) => TwiceIn(q, keys)
             /\ SeenIn(q, Len(q)) = SeenIn(p, Len(p)) \cup {Head(rest)}
<1> DEFINE m == Head(rest)
           e == Message(m)
           q == Append(p, e)
<1>0. m \in Messages /\ e \in Events /\ e.kind = "message" /\ e.msg = m
  <2>1. m \in Messages
    OBVIOUS
  <2> QED BY <2>1, EventKinds
<1>1. /\ q \in Seq(Events) /\ Len(q) = Len(p) + 1 /\ Len(p) \in Nat
      /\ DOMAIN p = 1..Len(p) /\ DOMAIN q = 1..(Len(p) + 1)
      /\ \A i \in 1..Len(p) : q[i] = p[i]
      /\ q[Len(p) + 1] = e
  <2> HIDE DEF e
  <2> QED BY <1>0
<1>k. PICK k \in 0..Len(all) : /\ SeenIn(p, Len(p)) = FirstOf(all, k)
                               /\ rest = SubSeq(all, k + 1, Len(all))
  BY DEF Complete
<1>a. Len(all) \in Nat /\ DOMAIN all = 1..Len(all)
  OBVIOUS
<1>r. /\ k < Len(all)
      /\ m = all[k + 1]
      /\ Tail(rest) = SubSeq(all, (k + 1) + 1, Len(all))
  <2>1. k < Len(all)
    BY <1>k, <1>a, SubSeqEmpty
  <2>3. m = all[k + 1]
    BY <1>k, <1>a, <2>1, HeadTailOfSubSeq
  <2>4. Tail(rest) = SubSeq(all, (k + 1) + 1, Len(all))
    BY <1>k, <1>a, <2>1, HeadTailOfSubSeq
  <2> QED BY <2>1, <2>3, <2>4
<1>u. m \notin Unreadable
  OBVIOUS
<1> HIDE DEF q, e, m
<1>2. \A n \in 0..Len(p) : SeenIn(q, n) = SeenIn(p, n)
  BY <1>1, SeenOfSame
<1>3. SeenIn(q, Len(p) + 1) = SeenIn(p, Len(p)) \cup {m}
  <2>1. q[Len(p) + 1].kind = "message" /\ q[Len(p) + 1].msg = m
    BY <1>0, <1>1
  <2>2. SeenIn(q, Len(p) + 1) = SeenIn(q, Len(p)) \cup {m}
    BY <1>1, <2>1, SeenGrows
  <2> QED BY <1>1, <1>2, <2>2
<1>4. SeenIn(q, Len(p) + 1) = FirstOf(all, k + 1)
  <2>1. k \in Nat
    BY <1>a
  <2>2. FirstOf(all, k + 1) = FirstOf(all, k) \cup ({all[k + 1]} \ Unreadable)
    BY <2>1, FirstGrows
  <2>3. {all[k + 1]} \ Unreadable = {m}
    BY <1>r, <1>u
  <2> QED BY <1>3, <1>k, <2>2, <2>3
<1>5. ASSUME InOrder(p, all) PROVE InOrder(q, all)
  <2> SUFFICES ASSUME NEW i \in DOMAIN q, q[i].kind = "message"
               PROVE  \E l \in DOMAIN all : q[i].msg = all[l] /\ SeenIn(q, i) = FirstOf(all, l)
    BY DEF InOrder
  <2>1. CASE i \in 1..Len(p)
    BY <1>1, <1>2, <1>5, <2>1 DEF InOrder
  <2>2. CASE i = Len(p) + 1
    <3>1. k + 1 \in DOMAIN all
      BY <1>a, <1>r
    <3> QED BY <1>0, <1>1, <1>r, <1>4, <2>2, <3>1
  <2> QED BY <1>1, <2>1, <2>2
<1>6. Complete(q, all, Tail(rest))
  <2>1. k + 1 \in 0..Len(all)
    BY <1>a, <1>r
  <2> QED BY <1>1, <1>4, <1>r, <2>1 DEF Complete
<1>7. \A i \in 1..Len(p) : p[i].kind = "message" => p[i].msg # m
  <2> SUFFICES ASSUME NEW i \in 1..Len(p), p[i].kind = "message", p[i].msg = m
               PROVE  FALSE
    OBVIOUS
  <2>1. m \in FirstOf(all, k)
    BY <1>k DEF SeenIn
  <2>2. PICK l \in 1..k : all[l] = m
    BY <2>1 DEF FirstOf
  <2>3. l \in DOMAIN all /\ k + 1 \in DOMAIN all /\ all[l] = all[k + 1] /\ l # k + 1
    BY <1>a, <1>r, <2>2
  <2> QED BY <2>3 DEF NoneTwice
<1>8. ASSUME TwiceIn(p, keys) PROVE TwiceIn(q, keys)
  <2> SUFFICES ASSUME NEW i \in DOMAIN q, NEW j \in DOMAIN q, i # j,
                      q[i].kind = "message", q[i] = q[j]
               PROVE  KeyOf[q[i].msg] \in keys
    BY DEF TwiceIn
  <2>1. i \in 1..Len(p) /\ j \in 1..Len(p)
    BY <1>0, <1>1, <1>7
  <2> QED BY <1>1, <1>8, <2>1 DEF TwiceIn
<1> QED BY <1>1, <1>3, <1>5, <1>6, <1>8 DEF q, e, m

\* The next message, if it cannot be read, is left out.
LEMMA SkipNext ==
  ASSUME NEW p, NEW all \in Seq(Messages), NEW rest \in Seq(Messages),
         rest # <<>>, Head(rest) \in Unreadable, Complete(p, all, rest)
  PROVE  Complete(p, all, Tail(rest))
<1>1. PICK k \in 0..Len(all) : /\ SeenIn(p, Len(p)) = FirstOf(all, k)
                               /\ rest = SubSeq(all, k + 1, Len(all))
  BY DEF Complete
<1>2. Len(all) \in Nat /\ k \in Nat
  OBVIOUS
<1>3. k < Len(all)
  BY <1>1, <1>2, SubSeqEmpty
<1>4. Head(rest) = all[k + 1] /\ Tail(rest) = SubSeq(all, (k + 1) + 1, Len(all))
  BY <1>1, <1>2, <1>3, HeadTailOfSubSeq
<1>5. FirstOf(all, k + 1) = FirstOf(all, k)
  <2>1. {all[k + 1]} \ Unreadable = {}
    BY <1>4
  <2> QED BY <1>2, <2>1, FirstGrows
<1>6. k + 1 \in 0..Len(all)
  BY <1>2, <1>3
<1> QED BY <1>1, <1>4, <1>5, <1>6 DEF Complete

\* A second copy behind the first.
LEMMA AppendAgain ==
  ASSUME NEW p \in Seq(Events), NEW all, NEW rest, NEW keys, p # <<>>,
         p[Len(p)].kind = "message", KeyOf[p[Len(p)].msg] \in keys
  PROVE  LET q == Append(p, p[Len(p)])
         IN  /\ q \in Seq(Events)
             /\ InOrder(p, all) => InOrder(q, all)
             /\ Complete(p, all, rest) => Complete(q, all, rest)
             /\ TwiceIn(p, keys) => TwiceIn(q, keys)
<1> DEFINE e == p[Len(p)]
           q == Append(p, e)
<1>0. e \in Events /\ e.kind = "message" /\ KeyOf[e.msg] \in keys /\ Len(p) \in 1..Len(p)
  OBVIOUS
<1>1. /\ q \in Seq(Events) /\ Len(q) = Len(p) + 1 /\ Len(p) \in Nat
      /\ DOMAIN p = 1..Len(p) /\ DOMAIN q = 1..(Len(p) + 1)
      /\ \A i \in 1..Len(p) : q[i] = p[i]
      /\ q[Len(p) + 1] = e
  <2> HIDE DEF e
  <2> QED BY <1>0
<1> HIDE DEF q
<1>2. \A n \in 0..Len(p) : SeenIn(q, n) = SeenIn(p, n)
  BY <1>1, SeenOfSame
<1>m. e.msg \in SeenIn(p, Len(p))
  BY <1>0 DEF SeenIn
<1>3. SeenIn(q, Len(p) + 1) = SeenIn(p, Len(p))
  <2>1. q[Len(p) + 1].kind = "message" /\ q[Len(p) + 1].msg = e.msg
    BY <1>0, <1>1
  <2>2. SeenIn(q, Len(p) + 1) = SeenIn(q, Len(p)) \cup {e.msg}
    BY <1>1, <2>1, SeenGrows
  <2>3. SeenIn(q, Len(p)) = SeenIn(p, Len(p))
    BY <1>1, <1>2
  <2> QED BY <1>m, <2>2, <2>3, Zenon
<1>4. ASSUME InOrder(p, all) PROVE InOrder(q, all)
  <2> SUFFICES ASSUME NEW i \in DOMAIN q, q[i].kind = "message"
               PROVE  \E l \in DOMAIN all : q[i].msg = all[l] /\ SeenIn(q, i) = FirstOf(all, l)
    BY DEF InOrder
  <2>1. CASE i \in 1..Len(p)
    BY <1>1, <1>2, <1>4, <2>1 DEF InOrder
  <2>2. CASE i = Len(p) + 1
    BY <1>0, <1>1, <1>3, <1>4, <2>2 DEF InOrder
  <2> QED BY <1>1, <2>1, <2>2
<1>5. Complete(p, all, rest) => Complete(q, all, rest)
  BY <1>1, <1>3 DEF Complete
<1>6. ASSUME TwiceIn(p, keys) PROVE TwiceIn(q, keys)
  <2> SUFFICES ASSUME NEW i \in DOMAIN q, NEW j \in DOMAIN q, i # j,
                      q[i].kind = "message", q[i] = q[j]
               PROVE  KeyOf[q[i].msg] \in keys
    BY DEF TwiceIn
  <2>1. CASE i \in 1..Len(p) /\ j \in 1..Len(p)
    BY <1>1, <1>6, <2>1 DEF TwiceIn
  <2>2. CASE i = Len(p) + 1 \/ j = Len(p) + 1
    BY <1>0, <1>1, <2>2
  <2> QED BY <1>1, <2>1, <2>2
<1> QED BY <1>1, <1>4, <1>5, <1>6 DEF q

\* An event that is no message is taken out.
LEMMA DropOther ==
  ASSUME NEW t \in Seq(Events), NEW ev \in Seq(Events), NEW o \in Seq(Events),
         ev # <<>>, Head(ev).kind # "message", NEW all, NEW rest, NEW keys
  PROVE  LET p == (t \o ev) \o o
             q == (t \o Tail(ev)) \o o
         IN  /\ InOrder(p, all) => InOrder(q, all)
             /\ Complete(p, all, rest) => Complete(q, all, rest)
             /\ TwiceIn(p, keys) => TwiceIn(q, keys)
<1> DEFINE p == (t \o ev) \o o
           q == (t \o Tail(ev)) \o o
           n == Len(t)
<1>a. /\ n \in Nat /\ Len(o) \in Nat /\ Len(ev) \in Nat \ {0}
      /\ t \o ev \in Seq(Events) /\ Len(t \o ev) = n + Len(ev)
      /\ Tail(ev) \in Seq(Events) /\ Len(Tail(ev)) = Len(ev) - 1
      /\ \A i \in 1..(Len(ev) - 1) : Tail(ev)[i] = ev[i + 1]
      /\ ev[1] = Head(ev)
  OBVIOUS
<1>b. /\ t \o Tail(ev) \in Seq(Events) /\ Len(t \o Tail(ev)) = n + Len(ev) - 1
      /\ \A i \in 1..(n + Len(ev)) : (t \o ev)[i] = IF i <= n THEN t[i] ELSE ev[i - n]
      /\ \A i \in 1..(n + Len(ev) - 1) :
           (t \o Tail(ev))[i] = IF i <= n THEN t[i] ELSE Tail(ev)[i - n]
  BY <1>a
<1>c. /\ p \in Seq(Events) /\ Len(p) = n + Len(ev) + Len(o)
      /\ q \in Seq(Events) /\ Len(q) = n + Len(ev) - 1 + Len(o)
      /\ \A i \in 1..Len(p) : p[i] = IF i <= n + Len(ev) THEN (t \o ev)[i]
                                     ELSE o[i - (n + Len(ev))]
      /\ \A i \in 1..Len(q) : q[i] = IF i <= n + Len(ev) - 1 THEN (t \o Tail(ev))[i]
                                     ELSE o[i - (n + Len(ev) - 1)]
  BY <1>a, <1>b
<1>1. /\ Len(q) \in Nat /\ Len(p) = Len(q) + 1 /\ n <= Len(q)
      /\ DOMAIN p = 1..(Len(q) + 1) /\ DOMAIN q = 1..Len(q)
  BY <1>a, <1>c
<1>2. \A i \in 1..n : q[i] = p[i]
  BY <1>a, <1>b, <1>c
<1>3. \A i \in (n + 1)..Len(q) : q[i] = p[i + 1]
  <2> SUFFICES ASSUME NEW i \in (n + 1)..Len(q) PROVE q[i] = p[i + 1]
    OBVIOUS
  <2>1. CASE i <= n + Len(ev) - 1
    <3>1. q[i] = Tail(ev)[i - n]
      BY <1>a, <1>b, <1>c, <2>1
    <3>2. p[i + 1] = ev[(i + 1) - n]
      BY <1>a, <1>b, <1>c, <2>1
    <3>3. i - n \in 1..(Len(ev) - 1) /\ (i - n) + 1 = (i + 1) - n
      BY <1>a, <2>1
    <3> QED BY <1>a, <3>1, <3>2, <3>3
  <2>2. CASE i > n + Len(ev) - 1
    BY <1>a, <1>b, <1>c, <2>2
  <2> QED BY <1>a, <2>1, <2>2
<1>4. p[n + 1].kind # "message"
  BY <1>a, <1>b, <1>c
<1>n. n \in Nat
  BY <1>a
<1> HIDE DEF p, q, n
<1>5. \A i \in 0..n : SeenIn(q, i) = SeenIn(p, i)
  BY <1>n, <1>2, SeenOfSame
<1>6. \A i \in n..Len(q) : SeenIn(q, i) = SeenIn(p, i + 1)
  <2> SUFFICES ASSUME NEW i \in n..Len(q) PROVE SeenIn(q, i) = SeenIn(p, i + 1)
    OBVIOUS
  <2>1. ASSUME NEW x \in SeenIn(q, i) PROVE x \in SeenIn(p, i + 1)
    <3>1. PICK j \in 1..i : q[j].kind = "message" /\ q[j].msg = x
      BY DEF SeenIn
    <3>2. CASE j <= n
      <4>1. j \in 1..(i + 1) /\ p[j].kind = "message" /\ p[j].msg = x
        BY <1>n, <1>1, <1>2, <3>1, <3>2
      <4> QED BY <4>1 DEF SeenIn
    <3>3. CASE j > n
      <4>1. j + 1 \in 1..(i + 1) /\ p[j + 1].kind = "message" /\ p[j + 1].msg = x
        BY <1>n, <1>1, <1>3, <3>1, <3>3
      <4> QED BY <4>1 DEF SeenIn
    <3> QED BY <1>n, <1>1, <3>2, <3>3
  <2>2. ASSUME NEW x \in SeenIn(p, i + 1) PROVE x \in SeenIn(q, i)
    <3>1. PICK j \in 1..(i + 1) : p[j].kind = "message" /\ p[j].msg = x
      BY DEF SeenIn
    <3>2. CASE j <= n
      <4>1. j \in 1..i /\ q[j].kind = "message" /\ q[j].msg = x
        BY <1>n, <1>1, <1>2, <3>1, <3>2
      <4> QED BY <4>1 DEF SeenIn
    <3>3. CASE j > n + 1
      <4>1. j - 1 \in (n + 1)..Len(q) /\ (j - 1) + 1 = j /\ j - 1 \in 1..i
        BY <1>n, <1>1, <3>1, <3>3
      <4>2. q[j - 1] = p[j]
        BY <1>3, <4>1
      <4> QED BY <3>1, <4>1, <4>2 DEF SeenIn
    <3> QED BY <1>n, <1>1, <1>4, <3>1, <3>2, <3>3
  <2> QED BY <2>1, <2>2
<1>7. ASSUME InOrder(p, all) PROVE InOrder(q, all)
  <2> SUFFICES ASSUME NEW i \in DOMAIN q, q[i].kind = "message"
               PROVE  \E k \in DOMAIN all : q[i].msg = all[k] /\ SeenIn(q, i) = FirstOf(all, k)
    BY DEF InOrder
  <2>1. CASE i <= n
    <3>1. i \in DOMAIN p /\ q[i] = p[i] /\ SeenIn(q, i) = SeenIn(p, i)
      BY <1>n, <1>1, <1>2, <1>5, <2>1
    <3> QED BY <1>7, <3>1 DEF InOrder
  <2>2. CASE i > n
    <3>1. i + 1 \in DOMAIN p /\ q[i] = p[i + 1] /\ SeenIn(q, i) = SeenIn(p, i + 1)
      BY <1>n, <1>1, <1>3, <1>6, <2>2
    <3> QED BY <1>7, <3>1 DEF InOrder
  <2> QED BY <1>n, <1>1, <2>1, <2>2
<1>8. Complete(p, all, rest) => Complete(q, all, rest)
  <2>1. SeenIn(q, Len(q)) = SeenIn(p, Len(p))
    BY <1>n, <1>1, <1>6
  <2> QED BY <2>1 DEF Complete
<1>9. ASSUME TwiceIn(p, keys) PROVE TwiceIn(q, keys)
  <2> DEFINE at(i) == IF i <= n THEN i ELSE i + 1
  <2>1. \A i \in DOMAIN q : at(i) \in DOMAIN p /\ q[i] = p[at(i)]
    BY <1>n, <1>1, <1>2, <1>3
  <2>2. \A i, j \in DOMAIN q : i # j => at(i) # at(j)
    BY <1>n, <1>1
  <2> QED BY <1>9, <2>1, <2>2 DEF TwiceIn
<1> QED BY <1>7, <1>8, <1>9 DEF p, q

\* A message that arrives.
LEMMA Arrives ==
  ASSUME NEW p, NEW all \in Seq(Messages), NEW rest \in Seq(Messages),
         NEW m \in Messages, \A i \in DOMAIN all : all[i] # m
  PROVE  /\ NoneTwice(all) => NoneTwice(Append(all, m))
         /\ InOrder(p, all) => InOrder(p, Append(all, m))
         /\ Complete(p, all, rest) => Complete(p, Append(all, m), Append(rest, m))
<1> DEFINE more == Append(all, m)
<1>1. /\ Len(all) \in Nat /\ Len(more) = Len(all) + 1 /\ more \in Seq(Messages)
      /\ DOMAIN all = 1..Len(all) /\ DOMAIN more = 1..(Len(all) + 1)
      /\ \A i \in 1..Len(all) : more[i] = all[i]
      /\ more[Len(all) + 1] = m
  OBVIOUS
<1> HIDE DEF more
<1>2. \A k \in 0..Len(all) : FirstOf(more, k) = FirstOf(all, k)
  BY <1>1, FirstOfSame
<1>3. NoneTwice(all) => NoneTwice(more)
  BY <1>1 DEF NoneTwice
<1>4. ASSUME InOrder(p, all) PROVE InOrder(p, more)
  <2> SUFFICES ASSUME NEW i \in DOMAIN p, p[i].kind = "message"
               PROVE  \E k \in DOMAIN more : p[i].msg = more[k] /\ SeenIn(p, i) = FirstOf(more, k)
    BY DEF InOrder
  <2>1. PICK k \in DOMAIN all : p[i].msg = all[k] /\ SeenIn(p, i) = FirstOf(all, k)
    BY <1>4 DEF InOrder
  <2>2. k \in DOMAIN more /\ more[k] = all[k] /\ FirstOf(more, k) = FirstOf(all, k)
    BY <1>1, <1>2
  <2> QED BY <2>1, <2>2
<1>5. ASSUME Complete(p, all, rest) PROVE Complete(p, more, Append(rest, m))
  <2>1. PICK k \in 0..Len(all) : /\ SeenIn(p, Len(p)) = FirstOf(all, k)
                                 /\ rest = SubSeq(all, k + 1, Len(all))
    BY <1>5 DEF Complete
  <2>2. Append(rest, m) = SubSeq(more, k + 1, Len(all) + 1)
    <3>1. SubSeq(more, k + 1, Len(all) + 1) = SubSeq(more, k + 1, Len(all)) \o <<m>>
      <4>1. k + 1 \in 1..Len(more) /\ Len(all) + 1 \in (k + 1)..Len(more)
        BY <1>1
      <4>2. SubSeq(more, k + 1, Len(all) + 1)
              = SubSeq(more, k + 1, (Len(all) + 1) - 1) \o <<more[Len(all) + 1]>>
        BY <1>1, <4>1, SubSeqRecursiveSecond
      <4>3. (Len(all) + 1) - 1 = Len(all)
        BY <1>1
      <4> QED BY <1>1, <4>2, <4>3
    <3>2. SubSeq(more, k + 1, Len(all)) = rest
      BY <1>1, <2>1 DEF more
    <3>3. Append(rest, m) = rest \o <<m>>
      BY AppendIsConcat
    <3> QED BY <3>1, <3>2, <3>3
  <2>3. k \in 0..Len(more) /\ FirstOf(more, k) = FirstOf(all, k) /\ Len(more) = Len(all) + 1
    BY <1>1, <1>2
  <2> QED BY <2>1, <2>2, <2>3 DEF Complete
<1> QED BY <1>3, <1>4, <1>5 DEF more

-----------------------------------------------------------------------------
(* Channels and calls *)

Shape == LiveTypeOK /\ CallInv /\ AskedInv

CallType ==
  [op : Ops, pc : {"idle", "sending", "waiting", "expiring"}, key : Keys \cup {NoKey},
   limited : BOOLEAN, more : 0..2, took : BOOLEAN]

\* What CallInv says of a call x, when the keys g were asked for.
GoodCall(x, g) ==
  /\ x \in CallType
  /\ x.pc = "sending" => x.op \in {"send", "pickup", "exit", "next", "get"}
  /\ x.op \in {"get", "pickup"} => x.key \in g
  /\ x.op \in {"send", "pickup"} => x.key \in Requests
  /\ x.op = "pickup" => x.more > 0
  /\ x.more > 0 => x.op \in {"get", "pickup"}

LEMMA CallIsGood == ASSUME Shape PROVE GoodCall(call, gets)
BY DEF Shape, LiveTypeOK, CallInv, GoodCall, CallType

LEMMA IdleIsGood == ASSUME NEW g PROVE GoodCall(Idle, g)
BY DEF GoodCall, CallType, Idle, Call, Ops

LEMMA NextGetIsGood ==
  ASSUME Shape, call.more > 0, NEW b \in BOOLEAN, NextGet(b)
  PROVE  GoodCall(call', gets)
<1>1. /\ call.key \in gets /\ call.key \in Keys \cup {NoKey}
      /\ call.more \in 0..2 /\ call.limited \in BOOLEAN
  BY CallIsGood DEF GoodCall, CallType
<1>2. call' = [op |-> "get", pc |-> "sending", key |-> call.key, limited |-> call.limited,
               more |-> call.more - 1, took |-> b]
  BY DEF NextGet, Call
<1>3. call.more - 1 \in 0..2
  BY <1>1
<1>4. call' \in CallType
  BY <1>1, <1>2, <1>3 DEF CallType, Ops
<1> QED BY <1>1, <1>2, <1>4 DEF GoodCall

LEMMA GetReturnsIsGood ==
  ASSUME Shape, NEW b \in BOOLEAN, GetReturns(b)
  PROVE  GoodCall(call', gets)
<1>1. CASE call.more > 0
  <2>1. call.took \in BOOLEAN
    BY CallIsGood DEF GoodCall, CallType
  <2>2. PICK c \in BOOLEAN : c = (call.took \/ b)
    BY <2>1
  <2>3. NextGet(c)
    BY <1>1, <2>2 DEF GetReturns
  <2> QED BY <1>1, <2>3, NextGetIsGood
<1>2. CASE ~(call.more > 0)
  BY <1>2, IdleIsGood DEF GetReturns, Finish
<1> QED BY <1>1, <1>2

LEMMA CommandsGrow ==
  ASSUME Shape, NEW c \in Commands, KnownCommand(c), Len(commands) < CommandCap
  PROVE  /\ Append(commands, c) \in Seq(Commands)
         /\ Len(Append(commands, c)) <= CommandCap
         /\ \A i \in DOMAIN Append(commands, c) : KnownCommand(Append(commands, c)[i])
<1>1. commands \in Seq(Commands) /\ \A i \in DOMAIN commands : KnownCommand(commands[i])
  BY DEF Shape, LiveTypeOK, AskedInv
<1>2. /\ Append(commands, c) \in Seq(Commands)
      /\ Len(Append(commands, c)) = Len(commands) + 1
      /\ \A i \in 1..Len(commands) : Append(commands, c)[i] = commands[i]
      /\ Append(commands, c)[Len(commands) + 1] = c
  BY <1>1
<1>3. \A i \in DOMAIN Append(commands, c) : i \in 1..Len(commands) \/ i = Len(commands) + 1
  BY <1>1, <1>2
<1>4. \A i \in DOMAIN Append(commands, c) : KnownCommand(Append(commands, c)[i])
  BY <1>1, <1>2, <1>3
<1> QED BY <1>1, <1>2, <1>4, CapacityAssumption

LEMMA CommandsShrink ==
  ASSUME Shape, commands # <<>>
  PROVE  /\ Tail(commands) \in Seq(Commands)
         /\ Len(Tail(commands)) <= CommandCap
         /\ \A i \in DOMAIN Tail(commands) : KnownCommand(Tail(commands)[i])
         /\ Head(commands) \in Commands /\ KnownCommand(Head(commands))
<1>1. commands \in Seq(Commands) /\ \A i \in DOMAIN commands : KnownCommand(commands[i])
  BY DEF Shape, LiveTypeOK, AskedInv
<1>2. /\ Tail(commands) \in Seq(Commands) /\ Len(Tail(commands)) = Len(commands) - 1
      /\ \A i \in DOMAIN Tail(commands) : i + 1 \in DOMAIN commands
                                          /\ Tail(commands)[i] = commands[i + 1]
      /\ Head(commands) = commands[1] /\ 1 \in DOMAIN commands
  BY <1>1
<1>3. Len(commands) <= CommandCap /\ Len(commands) \in Nat /\ CommandCap \in Nat
  BY <1>1, CapacityAssumption DEF Shape, LiveTypeOK
<1>4. \A i \in DOMAIN Tail(commands) : KnownCommand(Tail(commands)[i])
  BY <1>1, <1>2
<1>5. Head(commands) \in Commands /\ KnownCommand(Head(commands))
  BY <1>1, <1>2
<1> QED BY <1>2, <1>3, <1>4, <1>5

\* A step of the task without events or calls.
LEMMA TaskShape ==
  ASSUME Shape, UNCHANGED <<events, call, arrivals, taken, gets, calls>>,
         handler' \in {"starting", "running", "ended"},
         socket' \in Seq(Messages),
         search' \subseteq gets,
         out' \in Seq(Events), Len(out') <= 2,
         commands' \in Seq(Commands), Len(commands') <= CommandCap,
         \A i \in DOMAIN commands' : KnownCommand(commands'[i]),
         answered' \subseteq Requests
  PROVE  Shape'
<1>1. LiveTypeOK'
  BY DEF Shape, LiveTypeOK
<1>2. CallInv'
  BY DEF Shape, CallInv
<1>3. AskedInv'
  BY DEF AskedInv, KnownCommand
<1> QED BY <1>1, <1>2, <1>3 DEF Shape

\* A step of a call without the task.
LEMMA CallShape ==
  ASSUME Shape, UNCHANGED <<taskVars, answered, arrivals>>,
         gets \subseteq gets', gets' \subseteq Keys, GoodCall(call', gets'),
         commands' \in Seq(Commands), Len(commands') <= CommandCap,
         \A i \in DOMAIN commands' : KnownCommand(commands'[i]),
         events' \in Seq(Events), Len(events') <= EventCap,
         taken' \in Seq(Messages), calls' \in 0..MaxCalls
  PROVE  Shape'
<1>1. LiveTypeOK'
  BY DEF Shape, LiveTypeOK, GoodCall, CallType, taskVars
<1>2. CallInv'
  BY DEF CallInv, GoodCall
<1>3. AskedInv'
  BY DEF Shape, AskedInv, KnownCommand, taskVars
<1> QED BY <1>1, <1>2, <1>3 DEF Shape

LEMMA ShapeInit == LiveInit => Shape
<1> SUFFICES ASSUME LiveInit PROVE Shape
  OBVIOUS
<1>1. LiveTypeOK
  BY CapacityAssumption, MaxCallsAssumption DEF LiveInit, LiveTypeOK, Call, Ops
<1>2. CallInv
  BY DEF LiveInit, CallInv, Call
<1>3. AskedInv
  BY DEF LiveInit, AskedInv
<1> QED BY <1>1, <1>2, <1>3 DEF Shape

LEMMA EndTaskShape ==
  ASSUME Shape, EndTask, UNCHANGED <<events, call, arrivals, taken, gets, calls>>
  PROVE  Shape'
<1>1. /\ search \subseteq gets /\ out \in Seq(Events) /\ Len(out) <= 2
      /\ answered \subseteq Requests
  BY DEF Shape, LiveTypeOK, AskedInv
<1>2. /\ handler' = "ended" /\ socket' = <<>> /\ commands' = <<>>
      /\ search' = search /\ out' = out /\ answered' = answered
  BY DEF EndTask
<1>3. /\ socket' \in Seq(Messages) /\ commands' \in Seq(Commands) /\ Len(commands') <= CommandCap
      /\ \A i \in DOMAIN commands' : KnownCommand(commands'[i])
  BY <1>2, CapacityAssumption
<1>4. handler' \in {"starting", "running", "ended"}
  BY <1>2
<1> QED BY <1>1, <1>2, <1>3, <1>4, TaskShape

LEMMA ArriveShape ==
  ASSUME Shape, NEW m \in Messages, Arrive(m)
  PROVE  Shape'
<1>1. LiveTypeOK'
  BY DEF Shape, LiveTypeOK, Arrive
<1>2. CallInv'
  BY DEF Shape, CallInv, Arrive
<1>3. AskedInv'
  BY DEF Shape, AskedInv, KnownCommand, Arrive
<1> QED BY <1>1, <1>2, <1>3 DEF Shape

LEMMA PutShape ==
  ASSUME Shape, Put
  PROVE  Shape'
<1>1. /\ events \in Seq(Events) /\ Len(events) < EventCap
      /\ out \in Seq(Events) /\ out # <<>> /\ Len(out) <= 2
  BY DEF Shape, LiveTypeOK, Put
<1>2. Head(out) \in Events /\ Tail(out) \in Seq(Events) /\ Len(Tail(out)) <= 2
  BY <1>1
<1>3. Append(events, Head(out)) \in Seq(Events) /\ Len(Append(events, Head(out))) <= EventCap
  BY <1>1, <1>2, CapacityAssumption
<1>4. LiveTypeOK'
  BY <1>2, <1>3 DEF Shape, LiveTypeOK, Put
<1>5. CallInv'
  BY DEF Shape, CallInv, Put
<1>6. AskedInv'
  BY DEF Shape, AskedInv, KnownCommand, Put
<1> QED BY <1>4, <1>5, <1>6 DEF Shape

LEMMA HandlerShape ==
  ASSUME Shape, HandlerStep \/ SocketCloses
  PROVE  Shape'
<1>t. /\ handler \in {"starting", "running", "ended"}
      /\ socket \in Seq(Messages) /\ search \subseteq gets /\ gets \subseteq Keys
      /\ out \in Seq(Events) /\ Len(out) <= 2
      /\ commands \in Seq(Commands) /\ Len(commands) <= CommandCap
      /\ \A i \in DOMAIN commands : KnownCommand(commands[i])
      /\ answered \subseteq Requests
  BY DEF Shape, LiveTypeOK, AskedInv
<1>1. CASE SocketCloses
  BY <1>1, EndTaskShape DEF SocketCloses
<1>2. CASE StartTask
  <2>1. CASE EndTask
    BY <1>2, <2>1, EndTaskShape DEF StartTask
  <2>2. CASE handler' = "running" /\ out' = <<Started>> /\ UNCHANGED <<socket, search, commands, answered>>
    <3>1. out' \in Seq(Events) /\ Len(out') <= 2
      BY <2>2, EventKinds
    <3>2. UNCHANGED <<events, call, arrivals, taken, gets, calls>>
      BY <1>2 DEF StartTask
    <3> QED BY <1>t, <2>2, <3>1, <3>2, TaskShape
  <2> QED BY <1>2, <2>1, <2>2 DEF StartTask
<1>3. CASE Put
  BY <1>3, PutShape
<1>4. CASE ReadSocket
  <2>1. /\ socket # <<>>
        /\ socket' = Tail(socket)
        /\ IF Head(socket) \in Unreadable
           THEN UNCHANGED <<out, search>>
           ELSE /\ out' = Copies(Head(socket))
                /\ search' = search \ {KeyOf[Head(socket)]}
        /\ UNCHANGED <<handler, commands, answered>>
        /\ UNCHANGED <<events, call, arrivals, taken, gets, calls>>
    BY <1>4 DEF ReadSocket
  <2>2. Head(socket) \in Messages /\ socket' \in Seq(Messages)
    BY <1>t, <2>1
  <2>3. Message(Head(socket)) \in Events
    BY <2>2, EventKinds
  <2>4. out' \in Seq(Events) /\ Len(out') <= 2
    <3>1. CASE UNCHANGED out
      BY <1>t, <3>1
    <3>2. CASE out' = Copies(Head(socket))
      BY <2>3, <3>2 DEF Copies
    <3> QED BY <2>1, <3>1, <3>2
  <2>5. search' \subseteq gets
    BY <1>t, <2>1
  <2> QED BY <1>t, <2>1, <2>2, <2>4, <2>5, TaskShape
<1>5. CASE TakeCommand
  <2> DEFINE c == Head(commands)
  <2>1. /\ Tail(commands) \in Seq(Commands) /\ Len(Tail(commands)) <= CommandCap
        /\ \A i \in DOMAIN Tail(commands) : KnownCommand(Tail(commands)[i])
        /\ c \in Commands /\ KnownCommand(c)
    BY <1>5, CommandsShrink DEF TakeCommand
  <2>2. UNCHANGED <<events, call, arrivals, taken, gets, calls>>
    BY <1>5 DEF TakeCommand
  <2>3. CASE ServeNext(c)
    <3>1. commands' = Tail(commands) /\ UNCHANGED <<handler, socket, search, out, answered>>
      BY <2>3 DEF ServeNext, taskVars
    <3> QED BY <1>t, <2>1, <2>2, <3>1, TaskShape
  <2>4. CASE ServeGet(c)
    <3>1. /\ commands' = Tail(commands) /\ UNCHANGED <<handler, socket, answered>>
          /\ search' = search \cup {c.key} /\ out' = <<NotFound>> /\ c.op = "get"
      BY <2>4 DEF ServeGet
    <3>2. search' \subseteq gets
      BY <1>t, <2>1, <3>1 DEF KnownCommand
    <3>3. out' \in Seq(Events) /\ Len(out') <= 2
      BY <3>1, EventKinds
    <3> QED BY <1>t, <2>1, <2>2, <3>1, <3>2, <3>3, TaskShape
  <2>5. CASE ServeTimeOut(c)
    <3>1. /\ commands' = Tail(commands) /\ UNCHANGED <<handler, socket, out, answered>>
          /\ search' = search \ {c.key}
      BY <2>5 DEF ServeTimeOut
    <3>2. search' \subseteq gets
      BY <1>t, <3>1
    <3> QED BY <1>t, <2>1, <2>2, <3>1, <3>2, TaskShape
  <2>6. CASE ServeSend(c)
    <3>1. CASE EndTask
      BY <2>2, <3>1, EndTaskShape
    <3>2. CASE answered' = answered \cup {c.key} /\ commands' = Tail(commands) /\ UNCHANGED taskVars
      <4>1. answered' \subseteq Requests
        BY <1>t, <2>1, <2>6, <3>2 DEF ServeSend, KnownCommand
      <4>2. UNCHANGED <<handler, socket, search, out>>
        BY <3>2 DEF taskVars
      <4> QED BY <1>t, <2>1, <2>2, <3>2, <4>1, <4>2, TaskShape
    <3> QED BY <2>6, <3>1, <3>2 DEF ServeSend
  <2>7. CASE ServeExit(c)
    BY <2>2, <2>7, EndTaskShape DEF ServeExit
  <2> QED BY <1>5, <2>3, <2>4, <2>5, <2>6, <2>7 DEF TakeCommand
<1> QED BY <1>1, <1>2, <1>3, <1>4, <1>5 DEF HandlerStep

LEMMA CallStepShape ==
  ASSUME Shape, BeginCall \/ SendCommand \/ Receive \/ ReceiveNone \/ TimesOut \/ SendTimeOut
                \/ TryNext \/ Cancel
  PROVE  Shape'
<1>t. /\ gets \subseteq Keys /\ calls \in 0..MaxCalls
      /\ events \in Seq(Events) /\ Len(events) <= EventCap
      /\ commands \in Seq(Commands) /\ Len(commands) <= CommandCap
      /\ \A i \in DOMAIN commands : KnownCommand(commands[i])
      /\ taken \in Seq(Messages)
  BY DEF Shape, LiveTypeOK, AskedInv
<1>g. GoodCall(call, gets)
  BY CallIsGood
<1>i. GoodCall(Idle, gets)
  BY IdleIsGood
<1>1. ASSUME NEW op \in {"send", "exit", "await", "next", "get"}, NEW key, NEW limited \in BOOLEAN,
             Begin(op, key, limited), key \in Keys \/ key = NoKey,
             op = "send" => key \in Requests, op = "get" => key \in Wanted
      PROVE  Shape'
  <2>1. /\ calls' = calls + 1 /\ calls < MaxCalls
        /\ call' = Call(op, IF op = "await" THEN "waiting" ELSE "sending", key, limited)
        /\ gets' = IF op = "get" THEN gets \cup {key} ELSE gets
        /\ UNCHANGED <<taskVars, answered, arrivals>>
        /\ UNCHANGED <<commands, events, taken>>
    BY <1>1 DEF Begin
  <2>2. gets \subseteq gets' /\ gets' \subseteq Keys
    BY <1>t, <1>1, <2>1, KeysAssumption
  <2>3. GoodCall(call', gets')
    BY <1>1, <2>1, KeysAssumption DEF GoodCall, CallType, Call, Ops
  <2>4. calls' \in 0..MaxCalls
    BY <1>t, <2>1, MaxCallsAssumption
  <2> QED BY <1>t, <2>1, <2>2, <2>3, <2>4, CallShape
<1>2. ASSUME NEW key \in Requests, NEW more \in {1, 2}, NEW limited \in BOOLEAN,
             BeginPickup(key, more, limited)
      PROVE  Shape'
  <2>1. /\ calls' = calls + 1 /\ calls < MaxCalls
        /\ call' = PickupCall(key, more, limited)
        /\ gets' = gets \cup {key}
        /\ UNCHANGED <<taskVars, answered, arrivals>>
        /\ UNCHANGED <<commands, events, taken>>
    BY <1>2 DEF BeginPickup
  <2>2. gets \subseteq gets' /\ gets' \subseteq Keys
    BY <1>t, <1>2, <2>1, KeysAssumption
  <2>3. GoodCall(call', gets')
    <3>1. call' = [op |-> "pickup", pc |-> "sending", key |-> key, limited |-> limited,
                   more |-> more, took |-> FALSE]
      BY <2>1 DEF PickupCall, Call
    <3>2. key \in Keys /\ key \in gets' /\ more \in 0..2 /\ more > 0
      BY <2>1, KeysAssumption
    <3>3. call' \in CallType
      BY <3>1, <3>2 DEF CallType, Ops
    <3> QED BY <3>1, <3>2, <3>3 DEF GoodCall
  <2>4. calls' \in 0..MaxCalls
    BY <1>t, <2>1, MaxCallsAssumption
  <2> QED BY <1>t, <2>1, <2>2, <2>3, <2>4, CallShape
<1>3. CASE BeginCall
  <2>1. CASE \E q \in Requests : ToggleLiveDelivery(q) \/ SendPing(q)
    BY <1>1, <2>1, KeysAssumption DEF ToggleLiveDelivery, SendPing
  <2>2. CASE \E q \in Requests : \E limited \in BOOLEAN :
               \/ SendStatusRequest(q, limited)
               \/ SendDeliveryRequest(q, limited)
               \/ SendMessagesReceived(q, limited)
    BY <1>2, <2>2 DEF SendStatusRequest, SendDeliveryRequest, SendMessagesReceived
  <2>3. CASE \E op \in {"exit", "await"} : Begin(op, NoKey, FALSE)
    BY <1>1, <2>3
  <2>4. CASE \E limited \in BOOLEAN : Begin("next", NoKey, limited)
    BY <1>1, <2>4
  <2>5. CASE \E limited \in BOOLEAN : \E k \in Wanted : Begin("get", k, limited)
    BY <1>1, <2>5, KeysAssumption
  <2> QED BY <1>3, <2>1, <2>2, <2>3, <2>4, <2>5 DEF BeginCall
<1>4. CASE SendCommand
  <2>0. /\ UNCHANGED <<taskVars, answered, arrivals>>
        /\ UNCHANGED <<events, taken, gets, calls>>
        /\ call.pc = "sending"
    BY <1>4 DEF SendCommand
  <2>1. CASE handler = "ended" /\ Finish /\ UNCHANGED commands
    BY <1>t, <1>i, <2>0, <2>1, CallShape DEF Finish
  <2>2. CASE Len(commands) < CommandCap /\ commands' = Append(commands, ToSend) /\ Sent
    <3>1. ToSend \in Commands /\ KnownCommand(ToSend)
      BY <1>g, <2>0 DEF GoodCall, CallType, ToSend, Command, Commands, KnownCommand
    <3>2. GoodCall(call', gets)
      <4>1. CASE call.op \in {"next", "get"}
        <5>1. call' = [call EXCEPT !.pc = "waiting"]
          BY <2>2, <4>1 DEF Sent
        <5> QED BY <1>g, <4>1, <5>1 DEF GoodCall, CallType
      <4>2. CASE call.op = "pickup"
        <5>1. NextGet(FALSE)
          BY <2>2, <4>2 DEF Sent
        <5> QED BY <1>g, <4>2, <5>1, NextGetIsGood DEF GoodCall
      <4>3. CASE call.op \in {"send", "exit"}
        <5>1. call' = Idle
          BY <2>2, <4>3 DEF Sent, Finish
        <5> QED BY <1>i, <5>1
      <4> QED BY <1>g, <2>0, <4>1, <4>2, <4>3 DEF GoodCall
    <3>3. /\ commands' \in Seq(Commands) /\ Len(commands') <= CommandCap
          /\ \A i \in DOMAIN commands' : KnownCommand(commands'[i])
      BY <2>2, <3>1, CommandsGrow
    <3> QED BY <1>t, <2>0, <3>2, <3>3, CallShape
  <2> QED BY <1>4, <2>1, <2>2 DEF SendCommand
<1>e. ASSUME events # <<>>
      PROVE  /\ Head(events) \in Events /\ Tail(events) \in Seq(Events)
             /\ Len(Tail(events)) <= EventCap
  BY <1>t, <1>e, CapacityAssumption
<1>5. ASSUME events # <<>>, Give(Head(events)) PROVE taken' \in Seq(Messages)
  <2>1. CASE Head(events).kind = "message"
    <3>1. Head(events).msg \in Messages
      BY <1>e, <1>5, <2>1, EventKinds
    <3> QED BY <1>t, <1>5, <2>1, <3>1 DEF Give
  <2> QED BY <1>t, <1>5, <2>1 DEF Give
<1>6. CASE Receive
  <2>0. /\ UNCHANGED <<taskVars, answered, arrivals>>
        /\ UNCHANGED <<commands, gets, calls>>
        /\ events # <<>> /\ events' = Tail(events) /\ Give(Head(events))
    BY <1>6 DEF Receive
  <2>1. GoodCall(call', gets)
    <3>1. CASE call' = call
      BY <1>g, <3>1
    <3>2. CASE GetReturns(KeyOf[Head(events).msg] = call.key)
      <4>1. PICK b \in BOOLEAN : b = (KeyOf[Head(events).msg] = call.key)
        OBVIOUS
      <4> QED BY <3>2, <4>1, GetReturnsIsGood
    <3>3. CASE Finish
      BY <1>i, <3>3 DEF Finish
    <3> QED BY <1>6, <3>1, <3>2, <3>3 DEF Receive
  <2> QED BY <1>t, <1>e, <1>5, <2>0, <2>1, CallShape
<1>7. CASE ReceiveNone
  <2>1. /\ UNCHANGED <<taskVars, answered, arrivals>>
        /\ UNCHANGED <<commands, events, taken, gets, calls>>
        /\ GetReturns(FALSE)
    BY <1>7 DEF ReceiveNone
  <2> QED BY <1>t, <2>1, GetReturnsIsGood, CallShape
<1>8. CASE TimesOut
  <2>1. /\ UNCHANGED <<taskVars, answered, arrivals>>
        /\ UNCHANGED <<commands, events, taken, gets, calls>>
        /\ call' = IF call.op = "get" THEN [call EXCEPT !.pc = "expiring"] ELSE Idle
    BY <1>8 DEF TimesOut
  <2>2. GoodCall(call', gets)
    <3>1. CASE call.op = "get"
      BY <1>g, <2>1, <3>1 DEF GoodCall, CallType
    <3> QED BY <1>i, <2>1, <3>1
  <2> QED BY <1>t, <2>1, <2>2, CallShape
<1>9. CASE SendTimeOut
  <2>0. /\ UNCHANGED <<taskVars, answered, arrivals>>
        /\ UNCHANGED <<events, taken, gets, calls>>
    BY <1>9 DEF SendTimeOut
  <2>1. CASE handler = "ended" /\ Finish /\ UNCHANGED commands
    BY <1>t, <1>i, <2>0, <2>1, CallShape DEF Finish
  <2>2. CASE /\ Len(commands) < CommandCap
             /\ commands' = Append(commands, Command("timeout", call.key))
             /\ GetReturns(FALSE)
    <3>1. /\ Command("timeout", call.key) \in Commands
          /\ KnownCommand(Command("timeout", call.key))
      BY <1>g DEF GoodCall, CallType, Command, Commands, KnownCommand
    <3>2. GoodCall(call', gets)
      BY <2>2, GetReturnsIsGood
    <3>3. /\ commands' \in Seq(Commands) /\ Len(commands') <= CommandCap
          /\ \A i \in DOMAIN commands' : KnownCommand(commands'[i])
      BY <2>2, <3>1, CommandsGrow
    <3> QED BY <1>t, <2>0, <3>2, <3>3, CallShape
  <2> QED BY <1>9, <2>1, <2>2 DEF SendTimeOut
<1>10. CASE TryNext
  <2>0. /\ UNCHANGED <<taskVars, answered, arrivals>>
        /\ UNCHANGED <<commands, call, gets, calls>>
        /\ events # <<>> /\ events' = Tail(events) /\ Give(Head(events))
    BY <1>10 DEF TryNext
  <2> QED BY <1>t, <1>g, <1>e, <1>5, <2>0, CallShape
<1>11. CASE Cancel
  <2>0. /\ UNCHANGED <<taskVars, answered, arrivals>>
        /\ UNCHANGED <<commands, events, taken, gets, calls>>
        /\ call' = Idle
    BY <1>11 DEF Cancel, Finish
  <2> QED BY <1>t, <1>i, <2>0, CallShape
<1> QED BY <1>3, <1>4, <1>6, <1>7, <1>8, <1>9, <1>10, <1>11

LEMMA ShapeStep == Shape /\ [LiveNext]_liveVars => Shape'
<1>1. ASSUME Shape, LiveNext PROVE Shape'
  BY <1>1, ArriveShape, HandlerShape, CallStepShape DEF LiveNext
<1>2. ASSUME Shape, UNCHANGED liveVars PROVE Shape'
  BY <1>2 DEF Shape, LiveTypeOK, CallInv, AskedInv, KnownCommand, liveVars, taskVars
<1> QED BY <1>1, <1>2

-----------------------------------------------------------------------------
(* What was passed on *)

\* The messages the application has, as the events they came in.
Had == [i \in DOMAIN taken |-> Message(taken[i])]

LEMMA SplitHead ==
  ASSUME NEW s \in Seq(Events), s # <<>>
  PROVE  /\ Head(s) \in Events /\ Tail(s) \in Seq(Events)
         /\ s = <<Head(s)>> \o Tail(s)
<1>1. Head(s) \in Events /\ Tail(s) \in Seq(Events) /\ Len(Tail(s)) = Len(s) - 1
  OBVIOUS
<1>2. /\ <<Head(s)>> \o Tail(s) \in Seq(Events)
      /\ Len(<<Head(s)>> \o Tail(s)) = Len(s)
      /\ \A i \in 1..Len(s) : (<<Head(s)>> \o Tail(s))[i] = s[i]
  BY <1>1
<1>3. s = <<Head(s)>> \o Tail(s)
  BY <1>2, SeqEqual
<1> QED BY <1>1, <1>3

LEMMA MoveHead ==
  ASSUME NEW t \in Seq(Events), NEW s \in Seq(Events), s # <<>>
  PROVE  Append(t, Head(s)) \o Tail(s) = t \o s
<1>1. Head(s) \in Events /\ Tail(s) \in Seq(Events) /\ s = <<Head(s)>> \o Tail(s)
  BY SplitHead
<1>2. Append(t, Head(s)) = t \o <<Head(s)>>
  BY <1>1, AppendIsConcat
<1>3. <<Head(s)>> \in Seq(Events)
  BY <1>1
<1>4. (t \o <<Head(s)>>) \o Tail(s) = t \o (<<Head(s)>> \o Tail(s))
  BY <1>1, <1>3, ConcatAssociative
<1> QED BY <1>1, <1>2, <1>4

LEMMA AppendBehind ==
  ASSUME NEW t \in Seq(Events), NEW s \in Seq(Events), NEW e \in Events
  PROVE  t \o Append(s, e) = Append(t \o s, e)
<1>1. <<e>> \in Seq(Events) /\ t \o s \in Seq(Events)
  OBVIOUS
<1>2. Append(s, e) = s \o <<e>> /\ Append(t \o s, e) = (t \o s) \o <<e>>
  BY <1>1, AppendIsConcat
<1> QED BY <1>1, <1>2, ConcatAssociative

LEMMA PassedType ==
  ASSUME Shape
  PROVE  /\ Had \in Seq(Events) /\ events \in Seq(Events) /\ out \in Seq(Events)
         /\ Had \o events \in Seq(Events)
         /\ Passed = (Had \o events) \o out /\ Passed \in Seq(Events)
<1>1. taken \in Seq(Messages) /\ events \in Seq(Events) /\ out \in Seq(Events)
  BY DEF Shape, LiveTypeOK
<1>2. Had \in Seq(Events)
  <2>1. \A i \in 1..Len(taken) : Message(taken[i]) \in Events
    BY <1>1, EventKinds
  <2>2. DOMAIN taken = 1..Len(taken) /\ Len(taken) \in Nat
    BY <1>1
  <2>3. Had \in [1..Len(taken) -> Events]
    BY <2>1, <2>2 DEF Had
  <2> QED BY <2>2, <2>3
<1>3. Had \o events \in Seq(Events)
  BY <1>1, <1>2
<1>4. (Had \o events) \o out \in Seq(Events)
  BY <1>1, <1>3
<1>5. Passed = (Had \o events) \o out
  BY DEF Passed, Had
<1> QED BY <1>1, <1>2, <1>3, <1>4, <1>5

LEMMA HadGrows ==
  ASSUME Shape, NEW m \in Messages, taken' = Append(taken, m)
  PROVE  Had' = Append(Had, Message(m))
<1>1. taken \in Seq(Messages)
  BY DEF Shape, LiveTypeOK
<1>2. /\ taken' \in Seq(Messages) /\ Len(taken') = Len(taken) + 1 /\ Len(taken) \in Nat
      /\ DOMAIN taken = 1..Len(taken) /\ DOMAIN taken' = 1..(Len(taken) + 1)
      /\ \A i \in 1..Len(taken) : taken'[i] = taken[i]
      /\ taken'[Len(taken) + 1] = m
  BY <1>1
<1>3. Had \in Seq(Events) /\ Len(Had) = Len(taken)
  BY <1>1, PassedType DEF Had
<1>4. Had' = [i \in DOMAIN taken' |-> Message(taken'[i])]
  BY DEF Had, Message, Event
<1>5. Had' \in Seq(Events) /\ Len(Had') = Len(taken) + 1
  <2>1. \A i \in 1..(Len(taken) + 1) : Message(taken'[i]) \in Events
    BY <1>2, EventKinds
  <2>2. Had' \in [1..(Len(taken) + 1) -> Events]
    BY <1>2, <1>4, <2>1
  <2> QED BY <1>2, <2>2
<1>6. Message(m) \in Events
  BY EventKinds
<1>7. /\ Append(Had, Message(m)) \in Seq(Events)
      /\ Len(Append(Had, Message(m))) = Len(taken) + 1
      /\ \A i \in 1..Len(taken) : Append(Had, Message(m))[i] = Had[i]
      /\ Append(Had, Message(m))[Len(taken) + 1] = Message(m)
  BY <1>3, <1>6
<1>8. \A i \in 1..(Len(taken) + 1) : Had'[i] = Append(Had, Message(m))[i]
  <2> SUFFICES ASSUME NEW i \in 1..(Len(taken) + 1)
               PROVE  Had'[i] = Append(Had, Message(m))[i]
    OBVIOUS
  <2>1. CASE i \in 1..Len(taken)
    <3>1. Had'[i] = Message(taken[i]) /\ Had[i] = Message(taken[i])
      BY <1>2, <1>4, <2>1 DEF Had
    <3> QED BY <1>7, <2>1, <3>1
  <2>2. CASE i = Len(taken) + 1
    BY <1>2, <1>4, <1>7, <2>2
  <2>3. i \in 1..Len(taken) \/ i = Len(taken) + 1
    BY <1>2
  <2> QED BY <2>1, <2>2, <2>3, Zenon
<1> QED BY <1>5, <1>7, <1>8, SeqEqual

-----------------------------------------------------------------------------
(* The order *)

\* OrderInv after a step that leaves p as what was passed on.
LEMMA OrderFrom ==
  ASSUME NEW p, Passed' = p,
         handler' = "starting" => out' = <<>>,
         NoneTwice(arrivals'),
         InOrder(p, arrivals'),
         handler' # "ended" => Complete(p, arrivals', socket'),
         TwiceIn(p, gets')
  PROVE  OrderInv'
<1>1. InOrder(Passed, arrivals)'
  <2>1. \A i \in DOMAIN p : p[i].kind = "message" =>
          \E k \in DOMAIN arrivals' : p[i].msg = arrivals'[k] /\ SeenIn(p, i) = FirstOf(arrivals', k)
    BY DEF InOrder
  <2>2. \A i \in DOMAIN Passed' : Passed'[i].kind = "message" =>
          \E k \in DOMAIN arrivals' :
            Passed'[i].msg = arrivals'[k] /\ SeenIn(Passed', i) = FirstOf(arrivals', k)
    BY <2>1, Zenon
  <2>3. \A i : SeenIn(Passed', i) = SeenIn(Passed, i)' /\ FirstOf(arrivals', i) = FirstOf(arrivals, i)'
    BY DEF SeenIn, FirstOf
  <2> QED BY <2>2, <2>3 DEF InOrder
<1>2. Complete(Passed, arrivals, socket)' <=> Complete(p, arrivals', socket')
  BY DEF Complete, SeenIn, FirstOf
<1>3. TwiceIn(Passed, gets)'
  BY DEF TwiceIn
<1>4. NoneTwice(arrivals)'
  BY DEF NoneTwice
<1> QED BY <1>1, <1>2, <1>3, <1>4 DEF OrderInv

LEMMA TwiceGrows ==
  ASSUME NEW p, NEW g, NEW h, g \subseteq h, TwiceIn(p, g)
  PROVE  TwiceIn(p, h)
BY DEF TwiceIn

\* Nothing is read from the socket and nothing is passed on.
LEMMA OrderKept ==
  ASSUME OrderInv, Passed' = Passed, gets \subseteq gets', UNCHANGED arrivals,
         handler' = "starting" => handler = "starting" /\ out' = out,
         handler' # "ended" => handler # "ended" /\ socket' = socket
  PROVE  OrderInv'
<1>1. /\ handler = "starting" => out = <<>>
      /\ NoneTwice(arrivals) /\ InOrder(Passed, arrivals)
      /\ handler # "ended" => Complete(Passed, arrivals, socket)
      /\ TwiceIn(Passed, gets)
  BY DEF OrderInv
<1>2. TwiceIn(Passed, gets')
  BY <1>1, TwiceGrows
<1> QED BY <1>1, <1>2, OrderFrom

\* The task says something that is no message.
LEMMA OrderSays ==
  ASSUME Shape, OrderInv, out = <<>>, NEW e \in Events, e.kind # "message", out' = <<e>>,
         handler # "ended", handler' = "running",
         UNCHANGED <<socket, events, arrivals, taken, gets>>
  PROVE  OrderInv'
<1> DEFINE p == Had \o events
<1>1. p \in Seq(Events) /\ Passed = p
  BY PassedType, ConcatEmptySeq
<1>2. Passed' = Append(p, e)
  <2>1. Passed' = p \o <<e>>
    BY DEF Passed, Had, Message, Event
  <2> QED BY <1>1, <2>1, AppendIsConcat
<1>3. /\ NoneTwice(arrivals) /\ InOrder(p, arrivals) /\ Complete(p, arrivals, socket)
      /\ TwiceIn(p, gets)
  BY <1>1 DEF OrderInv
<1>4. /\ InOrder(Append(p, e), arrivals) /\ Complete(Append(p, e), arrivals, socket)
      /\ TwiceIn(Append(p, e), gets)
  BY <1>1, <1>3, AppendOther
<1> QED BY <1>2, <1>3, <1>4, OrderFrom

\* The channel gives up what is first in it.
LEMMA OrderGive ==
  ASSUME Shape, OrderInv, events # <<>>, events' = Tail(events), Give(Head(events)),
         UNCHANGED <<handler, socket, out, arrivals, gets>>
  PROVE  OrderInv'
<1> DEFINE e == Head(events)
<1>0. /\ Had \in Seq(Events) /\ events \in Seq(Events) /\ out \in Seq(Events)
      /\ Passed = (Had \o events) \o out
  BY PassedType
<1>1. CASE e.kind = "message"
  <2>1. e \in Events
    BY <1>0
  <2>2. e.msg \in Messages /\ e = Message(e.msg) /\ taken' = Append(taken, e.msg)
    BY <1>1, <2>1, EventKinds DEF Give
  <2>3. Had' = Append(Had, e)
    BY <2>2, HadGrows
  <2>4. Passed' = (Had' \o Tail(events)) \o out
    BY DEF Passed, Had
  <2>5. Append(Had, e) \o Tail(events) = Had \o events
    BY <1>0, MoveHead
  <2>6. Passed' = Passed
    BY <1>0, <2>3, <2>4, <2>5
  <2> QED BY <2>6, OrderKept
<1>2. CASE e.kind # "message"
  <2>1. taken' = taken
    BY <1>2 DEF Give
  <2>2. Passed' = (Had \o Tail(events)) \o out
    BY <2>1 DEF Passed, Had, Message, Event
  <2>3. /\ handler = "starting" => out = <<>>
        /\ NoneTwice(arrivals) /\ InOrder(Passed, arrivals)
        /\ handler # "ended" => Complete(Passed, arrivals, socket)
        /\ TwiceIn(Passed, gets)
    BY DEF OrderInv
  <2>4. /\ InOrder((Had \o Tail(events)) \o out, arrivals)
        /\ handler # "ended" => Complete((Had \o Tail(events)) \o out, arrivals, socket)
        /\ TwiceIn((Had \o Tail(events)) \o out, gets)
    BY <1>0, <1>2, <2>3, DropOther
  <2> QED BY <2>2, <2>3, <2>4, OrderFrom
<1> QED BY <1>1, <1>2

LEMMA OrderInit == LiveInit => OrderInv
<1> SUFFICES ASSUME LiveInit PROVE OrderInv
  OBVIOUS
<1>1. Shape
  BY ShapeInit
<1>2. taken = <<>> /\ events = <<>> /\ out = <<>> /\ arrivals = <<>> /\ socket = <<>>
  BY DEF LiveInit
<1>3. Passed = <<>>
  <2>1. Had = <<>>
    BY <1>2 DEF Had
  <2> QED BY <1>1, <1>2, <2>1, PassedType, ConcatEmptySeq
<1>4. NoneTwice(arrivals) /\ InOrder(Passed, arrivals) /\ TwiceIn(Passed, gets)
  BY <1>2, <1>3 DEF NoneTwice, InOrder, TwiceIn
<1>5. Complete(Passed, arrivals, socket)
  <2>1. SeenIn(Passed, Len(Passed)) = FirstOf(arrivals, 0)
    BY <1>3 DEF SeenIn, FirstOf
  <2>2. socket = SubSeq(arrivals, 0 + 1, Len(arrivals)) /\ 0 \in 0..Len(arrivals)
    BY <1>2
  <2> QED BY <2>1, <2>2 DEF Complete
<1> QED BY <1>2, <1>4, <1>5 DEF OrderInv

LEMMA ArriveOrder ==
  ASSUME Shape, OrderInv, NEW m \in Messages, Arrive(m)
  PROVE  OrderInv'
<1>1. /\ handler = "running" /\ m \notin ToSet(arrivals)
      /\ socket' = Append(socket, m) /\ arrivals' = Append(arrivals, m)
      /\ UNCHANGED <<handler, out, events, taken, gets>>
  BY DEF Arrive
<1>2. arrivals \in Seq(Messages) /\ socket \in Seq(Messages)
  BY DEF Shape, LiveTypeOK
<1>3. \A i \in DOMAIN arrivals : arrivals[i] # m
  BY <1>1 DEF ToSet
<1>4. /\ NoneTwice(arrivals) /\ InOrder(Passed, arrivals)
      /\ Complete(Passed, arrivals, socket) /\ TwiceIn(Passed, gets)
  BY <1>1 DEF OrderInv
<1>5. /\ NoneTwice(Append(arrivals, m)) /\ InOrder(Passed, Append(arrivals, m))
      /\ Complete(Passed, Append(arrivals, m), Append(socket, m))
  BY <1>2, <1>3, <1>4, Arrives
<1>6. Passed' = Passed
  BY <1>1 DEF Passed, Message, Event
<1>7. handler' # "starting" /\ gets' = gets
  BY <1>1
<1> QED BY <1>1, <1>4, <1>5, <1>6, <1>7, OrderFrom

LEMMA PutOrder ==
  ASSUME Shape, OrderInv, Put
  PROVE  OrderInv'
<1>0. /\ Had \in Seq(Events) /\ events \in Seq(Events) /\ out \in Seq(Events)
      /\ Had \o events \in Seq(Events) /\ Passed = (Had \o events) \o out
  BY PassedType
<1>1. /\ out # <<>> /\ events' = Append(events, Head(out)) /\ out' = Tail(out)
      /\ UNCHANGED <<handler, socket, arrivals, taken, gets>>
  BY DEF Put
<1>2. Passed' = (Had \o Append(events, Head(out))) \o Tail(out)
  BY <1>1 DEF Passed, Had, Message, Event
<1>3. Head(out) \in Events
  BY <1>0, <1>1
<1>4. Had \o Append(events, Head(out)) = Append(Had \o events, Head(out))
  BY <1>0, <1>3, AppendBehind
<1>5. Passed' = Passed
  BY <1>0, <1>1, <1>2, <1>4, MoveHead
<1>6. handler # "starting"
  BY <1>1 DEF OrderInv
<1> QED BY <1>1, <1>5, <1>6, OrderKept

\* A message of the socket that cannot be read is dropped.
LEMMA DropUnreadOrder ==
  ASSUME Shape, OrderInv, ReadSocket, Head(socket) \in Unreadable
  PROVE  OrderInv'
<1>1. /\ handler = "running" /\ socket # <<>> /\ socket' = Tail(socket)
      /\ UNCHANGED <<handler, out, events, arrivals, taken, gets>>
  BY DEF ReadSocket, Ready
<1>2. arrivals \in Seq(Messages) /\ socket \in Seq(Messages)
  BY DEF Shape, LiveTypeOK
<1>3. /\ NoneTwice(arrivals) /\ InOrder(Passed, arrivals)
      /\ Complete(Passed, arrivals, socket) /\ TwiceIn(Passed, gets)
  BY <1>1 DEF OrderInv
<1>4. Complete(Passed, arrivals, Tail(socket))
  BY <1>1, <1>2, <1>3, SkipNext
<1>5. Passed' = Passed
  BY <1>1 DEF Passed, Message, Event
<1>6. handler' # "starting" /\ gets' = gets
  BY <1>1
<1> QED BY <1>1, <1>3, <1>4, <1>5, <1>6, OrderFrom

\* The next message of the socket, twice if somebody searches for it.
LEMMA ReadSocketOrder ==
  ASSUME Shape, OrderInv, ReadSocket, Head(socket) \notin Unreadable
  PROVE  OrderInv'
<1> DEFINE m == Head(socket)
           e == Message(m)
           p == Had \o events
           q == Append(p, e)
<1>1. /\ handler = "running" /\ out = <<>> /\ socket # <<>>
      /\ socket' = Tail(socket) /\ out' = Copies(m)
      /\ UNCHANGED <<handler, events, arrivals, taken, gets>>
  BY DEF ReadSocket, Ready
<1>2. p \in Seq(Events) /\ Passed = p
  BY <1>1, PassedType, ConcatEmptySeq
<1>3. arrivals \in Seq(Messages) /\ socket \in Seq(Messages) /\ search \subseteq gets
  BY DEF Shape, LiveTypeOK, AskedInv
<1>4. m \in Messages
  BY <1>1, <1>3
<1>5. e \in Events /\ e.kind = "message" /\ e.msg = m
  BY <1>4, EventKinds
<1>6. /\ NoneTwice(arrivals) /\ InOrder(p, arrivals) /\ Complete(p, arrivals, socket)
      /\ TwiceIn(p, gets)
  BY <1>1, <1>2 DEF OrderInv
<1>7. /\ q \in Seq(Events) /\ InOrder(q, arrivals) /\ Complete(q, arrivals, Tail(socket))
      /\ TwiceIn(q, gets)
  BY <1>1, <1>2, <1>3, <1>6, AppendNext
<1>8. Passed' = p \o out'
  BY <1>1 DEF Passed, Had, Message, Event
<1>c. /\ Found(m) => out' = <<e, e>> /\ KeyOf[m] \in search
      /\ ~Found(m) => out' = <<e>>
  BY <1>1 DEF Copies, Found
<1>n. handler' # "starting" /\ UNCHANGED <<arrivals, gets>> /\ socket' = Tail(socket)
  BY <1>1
<1> HIDE DEF p, e, m
<1>9. CASE Found(m)
  <2>1. q # <<>> /\ q[Len(q)] = e
    BY <1>2, <1>5
  <2>2. KeyOf[e.msg] \in gets
    BY <1>3, <1>5, <1>9, <1>c
  <2>3. /\ InOrder(Append(q, e), arrivals) /\ Complete(Append(q, e), arrivals, Tail(socket))
        /\ TwiceIn(Append(q, e), gets)
    <3> HIDE DEF q
    <3> QED BY <1>5, <1>7, <2>1, <2>2, AppendAgain
  <2>4. Passed' = Append(q, e)
    <3>1. <<e, e>> = Append(<<e>>, e) /\ <<e>> \in Seq(Events)
      BY <1>5
    <3>2. p \o Append(<<e>>, e) = Append(p \o <<e>>, e)
      BY <1>2, <1>5, <3>1, AppendBehind
    <3>3. p \o <<e>> = q
      BY <1>2, <1>5, AppendIsConcat
    <3> QED BY <1>8, <1>9, <1>c, <3>1, <3>2, <3>3
  <2> QED BY <1>6, <1>n, <2>3, <2>4, OrderFrom
<1>10. CASE ~Found(m)
  <2>1. Passed' = q
    <3>1. p \o <<e>> = q
      BY <1>2, <1>5, AppendIsConcat
    <3> QED BY <1>8, <1>10, <1>c, <3>1
  <2> QED BY <1>6, <1>7, <1>n, <2>1, OrderFrom
<1> QED BY <1>9, <1>10

LEMMA HandlerOrder ==
  ASSUME Shape, OrderInv, HandlerStep \/ SocketCloses
  PROVE  OrderInv'
<1>1. ASSUME EndTask, UNCHANGED <<events, arrivals, taken, gets>>
      PROVE  OrderInv'
  <2>1. handler' = "ended" /\ Passed' = Passed
    BY <1>1 DEF EndTask, Passed, Message, Event
  <2> QED BY <1>1, <2>1, OrderKept
<1>2. ASSUME UNCHANGED <<handler, socket, out, events, arrivals, taken, gets>>
      PROVE  OrderInv'
  <2>1. Passed' = Passed
    BY <1>2 DEF Passed, Message, Event
  <2> QED BY <1>2, <2>1, OrderKept
<1>3. CASE SocketCloses
  BY <1>1, <1>3 DEF SocketCloses
<1>4. CASE StartTask
  <2>1. CASE EndTask
    BY <1>1, <1>4, <2>1 DEF StartTask
  <2>2. CASE handler' = "running" /\ out' = <<Started>> /\ UNCHANGED socket
    <3>1. out = <<>> /\ handler # "ended"
      BY <1>4 DEF StartTask, OrderInv
    <3>2. UNCHANGED <<socket, events, arrivals, taken, gets>>
      BY <1>4, <2>2 DEF StartTask
    <3> QED BY <2>2, <3>1, <3>2, EventKinds, OrderSays
  <2> QED BY <1>4, <2>1, <2>2 DEF StartTask
<1>5. CASE Put
  BY <1>5, PutOrder
<1>6. CASE ReadSocket
  BY <1>6, DropUnreadOrder, ReadSocketOrder
<1>7. CASE TakeCommand
  <2> DEFINE c == Head(commands)
  <2>0. handler = "running" /\ out = <<>> /\ UNCHANGED <<events, arrivals, taken, gets>>
    BY <1>7 DEF TakeCommand, Ready
  <2>1. CASE EndTask
    BY <1>1, <2>0, <2>1
  <2>2. CASE ServeGet(c)
    <3>1. out' = <<NotFound>> /\ handler' = "running" /\ UNCHANGED socket
      BY <2>0, <2>2 DEF ServeGet
    <3>2. UNCHANGED <<socket, events, arrivals, taken, gets>> /\ handler # "ended"
      BY <2>0, <3>1
    <3> QED BY <2>0, <3>1, <3>2, EventKinds, OrderSays
  <2>3. CASE UNCHANGED <<handler, socket, out>>
    BY <1>2, <2>0, <2>3
  <2>4. ServeNext(c) \/ ServeGet(c) \/ ServeTimeOut(c) \/ ServeSend(c) \/ ServeExit(c)
    BY <1>7 DEF TakeCommand
  <2>5. ServeNext(c) \/ ServeTimeOut(c) \/ ServeSend(c) \/ ServeExit(c)
          => EndTask \/ UNCHANGED <<handler, socket, out>>
    BY DEF ServeNext, ServeTimeOut, ServeSend, ServeExit, taskVars
  <2> QED BY <2>1, <2>2, <2>3, <2>4, <2>5
<1> QED BY <1>3, <1>4, <1>5, <1>6, <1>7 DEF HandlerStep

LEMMA CallStepOrder ==
  ASSUME Shape, OrderInv,
         BeginCall \/ SendCommand \/ Receive \/ ReceiveNone \/ TimesOut \/ SendTimeOut
         \/ TryNext \/ Cancel
  PROVE  OrderInv'
<1>1. ASSUME UNCHANGED <<taskVars, events, arrivals, taken>>, gets \subseteq gets'
      PROVE  OrderInv'
  <2>1. Passed' = Passed
    BY <1>1 DEF Passed, Message, Event, taskVars
  <2>2. UNCHANGED <<handler, socket, out, arrivals>>
    BY <1>1 DEF taskVars
  <2> QED BY <1>1, <2>1, <2>2, OrderKept
<1>2. CASE BeginCall
  <2>1. ASSUME NEW op, NEW key, NEW limited, Begin(op, key, limited) PROVE OrderInv'
    BY <1>1, <2>1 DEF Begin
  <2>2. ASSUME NEW key, NEW more, NEW limited, BeginPickup(key, more, limited) PROVE OrderInv'
    BY <1>1, <2>2 DEF BeginPickup
  <2> QED BY <1>2, <2>1, <2>2
          DEF BeginCall, ToggleLiveDelivery, SendPing, SendStatusRequest, SendDeliveryRequest,
              SendMessagesReceived
<1>3. CASE SendCommand \/ ReceiveNone \/ TimesOut \/ SendTimeOut \/ Cancel
  <2>1. UNCHANGED <<taskVars, events, arrivals, taken, gets>>
    BY <1>3 DEF SendCommand, ReceiveNone, TimesOut, SendTimeOut, Cancel
  <2> QED BY <1>1, <2>1
<1>4. CASE Receive \/ TryNext
  <2>1. /\ events # <<>> /\ events' = Tail(events) /\ Give(Head(events))
        /\ UNCHANGED <<taskVars, arrivals, gets>>
    BY <1>4 DEF Receive, TryNext
  <2>2. UNCHANGED <<handler, socket, out, arrivals, gets>>
    BY <2>1 DEF taskVars
  <2> QED BY <2>1, <2>2, OrderGive
<1> QED BY <1>2, <1>3, <1>4

LEMMA OrderStep == Shape /\ OrderInv /\ [LiveNext]_liveVars => OrderInv'
<1>1. ASSUME Shape, OrderInv, LiveNext PROVE OrderInv'
  BY <1>1, ArriveOrder, HandlerOrder, CallStepOrder DEF LiveNext
<1>2. ASSUME Shape, OrderInv, UNCHANGED liveVars PROVE OrderInv'
  <2>1. UNCHANGED <<handler, socket, out, events, arrivals, taken, gets>>
    BY <1>2 DEF liveVars, taskVars
  <2>2. Passed' = Passed
    BY <2>1 DEF Passed, Message, Event
  <2> QED BY <1>2, <2>1, <2>2, OrderKept
<1> QED BY <1>1, <1>2

-----------------------------------------------------------------------------

LEMMA LiveInvHolds == LiveSpec => []LiveInv
<1>1. LiveInit => LiveInv
  BY ShapeInit, OrderInit DEF LiveInv, Shape
<1>2. LiveInv /\ [LiveNext]_liveVars => LiveInv'
  <2> SUFFICES ASSUME LiveInv, [LiveNext]_liveVars PROVE LiveInv'
    OBVIOUS
  <2>1. Shape /\ OrderInv
    BY DEF LiveInv, Shape
  <2>2. Shape' /\ OrderInv'
    BY <2>1, ShapeStep, OrderStep
  <2> QED BY <2>2 DEF LiveInv, Shape
<1> QED BY <1>1, <1>2, PTL DEF LiveSpec

(***************************************************************************)
(* The channels between ws_handler and the application never hold more     *)
(* than their capacity, whatever is sent, cancelled or timed out, and the  *)
(* task is never in the middle of more than the two sends it makes for a   *)
(* message that somebody searches for.                                     *)
(***************************************************************************)
THEOREM LiveTypeCorrect == LiveSpec => []LiveTypeOK
<1>1. LiveInv => LiveTypeOK
  BY DEF LiveInv
<1> QED BY <1>1, LiveInvHolds, PTL

(***************************************************************************)
(* The task reads the socket and the application the channel in an order   *)
(* of their own, a call may be dropped between them, and the task drops    *)
(* what it cannot unpack: the messages come out in the order they came in, *)
(* none that can be read is left out before a later one, and a second copy *)
(* follows the first at once.                                              *)
(***************************************************************************)
THEOREM MessagesComeInOrder == LiveSpec => []HandedOverInOrder
<1>1. LiveInv => HandedOverInOrder
  BY DEF LiveInv, OrderInv, HandedOverInOrder, InOrder, Complete
<1> QED BY <1>1, LiveInvHolds, PTL

(***************************************************************************)
(* The task sends a message on twice when its search list has it, which a  *)
(* get that was cancelled or answered long ago may have filled: only what  *)
(* the application once asked for can come twice.                          *)
(***************************************************************************)
THEOREM NothingElseComesTwice == LiveSpec => []TwiceOnlyIfAsked
<1>1. LiveInv => TwiceOnlyIfAsked
  BY DEF LiveInv, OrderInv, TwiceOnlyIfAsked, TwiceIn
<1> QED BY <1>1, LiveInvHolds, PTL
=============================================================================
