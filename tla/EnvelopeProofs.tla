--------------------------- MODULE EnvelopeProofs ---------------------------
(***************************************************************************)
(* The way of a message, for any agents, documents, routes and options:    *)
(* what the variables hold, whom an opened message is attributed to, who   *)
(* can open it, which way it takes, and why a reader may turn it away.     *)
(***************************************************************************)
EXTENDS Envelope, FiniteSetTheorems, SequenceTheorems, WellFoundedInduction, TLAPS

\* Every layer there is, and those that agent a can have made.
Ciphers == UNION {[K -> Keys] : K \in SUBSET Kids}
Priors == [iss : Dids, sub : Dids, kid : Kids, key : Keys]
AnyLayer ==
  [t : {"anon"}, kids : Seq(Kids), key : Ciphers]
    \cup [t : {"auth"}, kids : Seq(Kids), key : Ciphers, skid : Kids, skey : Keys]
    \cup [t : {"sign"}, kid : Kids, key : Keys]
    \cup [t : {"forward"}, next : Dids \cup Kids]
    \cup [t : {"plain"}, prior : Priors \cup {None}]

Holds(a, kid) == kid \in DOMAIN Wallet[a]

Genuine(a, l) ==
  /\ l.t = "auth" => Holds(a, l.skid) /\ l.skey = Wallet[a][l.skid]
  /\ l.t = "sign" => Holds(a, l.kid)
  /\ l.t = "plain" /\ l.prior # None => Holds(a, l.prior.kid)

LayersOf(a) == {l \in AnyLayer : IsLayer(l) /\ Genuine(a, l)}

\* The plaintext is below all layers.
Stack(a, ls) == ls \in Seq(LayersOf(a)) /\ ls # <<>> /\ ls[Len(ls)].t = "plain"

ClaimType == [from : Kids \cup {None}, signer : Kids \cup {None}, kids : Seq(Kids),
              endpoint : Uris \cup {None}]
RouteType == [keys : Seq(Dids \cup Kids), next : Dids \cup Kids \cup {None}]

EnvType == [from : Kids \cup {None}, key : Keys \cup {None}, found : Seq(Kids)]

ViewOK ==
  /\ view \in [Dids -> [Dids -> Nat]]
  /\ \A a, d \in Dids : view[a][d] \in 1..Len(Versions[d])

PackInv ==
  /\ ViewOK
  /\ choice \in Requests
  /\ stage \in {"prior", "body", "encrypt", "route", "wrap", "packed", "failed"}
  /\ Stack(Me, layers)
  /\ claim \in ClaimType
  /\ route \in RouteType
  /\ stage = "wrap" => route.next # None

ReadInv ==
  /\ phase \in {"sender", "inbox", "anoncrypt", "authcrypt", "sign", "plaintext",
                "opened", "refused", "forward"}
  /\ at \in Dids \cup Kids \cup {None}
  /\ phase \notin {"sender", "inbox"} => at \in Dids
  /\ phase # "sender" => stage = "packed" /\ at # None
  /\ env \in EnvType
  /\ got \in Metadata
  /\ ops \in Nat
  /\ trail \in Seq(Dids \cup Kids)

\* The sender that the metadata names is the one the envelope was filled with,
\* until the authcrypt layer it was read from is opened and proves it.
Proven ==
  /\ \A k \in {got.from, got.signer, got.prior} : k # None => Holds(Me, k)
  /\ got.from # None => env.key = Wallet[Me][got.from]
SenderInv ==
  /\ phase \in {"sender", "inbox"} => env = NoEnv /\ got = NoMeta
  /\ phase \in {"anoncrypt", "authcrypt"} =>
       /\ got.from = env.from /\ got.signer = None /\ got.prior = None
       /\ env.from # None =>
            /\ Top.t = "auth" /\ Top.skid = env.from
            /\ env.found = Held(at, Top.kids) /\ env.found # <<>>
  /\ phase \in {"sign", "plaintext", "opened"} => Proven

EnvInv == PackInv /\ ReadInv /\ SenderInv

Bare(ls) == \A i \in DOMAIN ls : ls[i].t \in {"sign", "plain"}
SealedFor(ls, kids) ==
  \E c \in DOMAIN ls :
    /\ IsJwe(ls[c]) /\ ls[c].kids = kids
    /\ \A i \in DOMAIN ls : i > c => ls[i].t \in {"sign", "plain"}

\* The keys that the innermost JWE was made for are the addressee's.
KidsOf(d, kids) ==
  \E v \in 1..Len(Versions[d]) :
    Versions[d][v] # NoDoc /\ ToSet(kids) \subseteq ToSet(Versions[d][v].agree)

SealInv ==
  /\ stage \in {"prior", "body", "encrypt"} => Bare(layers)
  /\ stage \in {"route", "wrap", "packed"} =>
       /\ KidsOf(Did(choice.to), claim.kids)
       /\ \/ SealedFor(layers, claim.kids)
          \/ Bare(layers) /\ at = Did(choice.to) /\ phase \notin {"sender", "inbox"}

\* What is below the innermost JWE: the signature, if any, and the plaintext.
BodyFrom(ls, c, cl) ==
  \/ /\ cl.signer = None
     /\ Len(ls) = c + 1 /\ ls[c + 1].t = "plain"
  \/ /\ cl.signer # None
     /\ Len(ls) = c + 2 /\ ls[c + 2].t = "plain"
     /\ ls[c + 1].t = "sign" /\ ls[c + 1].kid = cl.signer

\* protect_sender puts an anoncrypt layer around the authcrypt one.
Hidden(ch) == ch.from # None /\ ch.protect

\* The innermost JWE is the one that the metadata of the packing describes; above
\* it, each anoncrypt layer holds a forward or the authcrypt layer it hides, and
\* each forward a JWE.
CoreAt(ls, c, ch, cl) ==
  /\ c \in DOMAIN ls
  /\ IsJwe(ls[c]) /\ ls[c].kids = cl.kids
  /\ ls[c].t = "auth" <=> ch.from # None
  /\ ls[c].t = "auth" => ls[c].skid = cl.from
  /\ BodyFrom(ls, c, cl)
  /\ \A i \in 1..(c - 1) :
       \/ ls[i].t = "forward" /\ IsJwe(ls[i + 1]) /\ (Hidden(ch) => i + 1 < c)
       \/ ls[i].t = "anon" /\ (ls[i + 1].t = "forward" \/ (i + 1 = c /\ Hidden(ch)))

\* A message as it is sent or relayed.
Whole(ls, ch, cl) ==
  IsJwe(ls[1]) /\ \E c \in DOMAIN ls : CoreAt(ls, c, ch, cl) /\ (Hidden(ch) => c > 1)

\* A reader who is not its addressee has come upon a forward.
Forwarding(ls, ch, cl) ==
  ls[1].t = "forward" /\ \E c \in DOMAIN ls : CoreAt(ls, c, ch, cl)

\* The metadata when the decryption is done, and when the signature is verified.
Decrypted(m, ch, cl) ==
  /\ m.encrypted /\ m.from = cl.from /\ m.kids = cl.kids
  /\ m.anonymous <=> ch.from = None \/ ch.protect \/ m.rewrapped
Verified(m, ch, cl) ==
  /\ Decrypted(m, ch, cl)
  /\ m.signer = cl.signer
  /\ m.authenticated <=> cl.from # None \/ cl.signer # None

ShapeInv ==
  /\ stage \in {"prior", "body"} => claim = NoClaim /\ BodyFrom(layers, 0, claim)
  /\ stage = "encrypt" => claim.from = None /\ BodyFrom(layers, 0, claim)
  /\ stage \in {"route", "wrap", "packed"} =>
       /\ claim.from = None <=> choice.from = None
       /\ phase \in {"sender", "inbox", "anoncrypt"} => Whole(layers, choice, claim)

MetaInv ==
  /\ phase = "anoncrypt" =>
       /\ got.anonymous <=> Top.t = "anon" \/ got.rewrapped
       /\ got.rewrapped => got.encrypted
       /\ got.authenticated <=> env.from # None
       /\ env.from # None => got.encrypted /\ got.kids = Top.kids
       /\ Top.t = "auth" /\ env.from = None => got.rewrapped
  /\ phase = "authcrypt" =>
       \/ Forwarding(layers, choice, claim)
       \/ /\ Top.t = "auth" /\ CoreAt(layers, 1, choice, claim)
          /\ got.anonymous <=> choice.protect \/ got.rewrapped
          /\ env.from # None => got.encrypted /\ got.kids = Top.kids /\ got.authenticated
       \/ /\ BodyFrom(layers, 0, claim) /\ choice.from = None
          /\ Decrypted(got, choice, claim) /\ ~got.authenticated
  /\ phase = "sign" =>
       \/ Forwarding(layers, choice, claim)
       \/ /\ BodyFrom(layers, 0, claim) /\ Decrypted(got, choice, claim)
          /\ got.signer = None
          /\ got.authenticated <=> claim.from # None
  /\ phase = "plaintext" =>
       \/ Forwarding(layers, choice, claim)
       \/ Top.t = "plain" /\ Verified(got, choice, claim)
  /\ phase = "opened" => Verified(got, choice, claim)

-----------------------------------------------------------------------------
(* Keep *)

\* There is a least number in every set of numbers.
LEMMA LeastExists ==
  ASSUME NEW T, T \subseteq Nat, T # {}
  PROVE  \E m \in T : \A n \in T : m <= n
<1>1. PICK m \in T : \A n \in T : ~ (<<n, m>> \in OpToRel(<, Nat))
  BY NatLessThanWellFounded, WFMin
<1>2. \A n \in T : ~ (n < m)
  BY <1>1 DEF OpToRel
<1> QED BY <1>2

\* One more element of s.
UpToNext(s, S, f, n) ==
  IF n = 0 THEN <<>> ELSE IF s[n] \in S THEN Append(f[n - 1], s[n]) ELSE f[n - 1]

\* The recursion in Filter has a solution.
LEMMA UpToExists ==
  ASSUME NEW s \in Seq(Kids), NEW S
  PROVE  \E f : f = [n \in 0..Len(s) |-> UpToNext(s, S, f, n)]
<1> DEFINE Solves(f, m) == f = [n \in 0..m |-> UpToNext(s, S, f, n)]
           Bad == {m \in Nat : ~ \E f : Solves(f, m)}
<1>1. SUFFICES ASSUME Bad # {} PROVE FALSE
  <2>1. Len(s) \notin Bad
    BY <1>1
  <2> QED BY <2>1
<1>2. PICK m \in Bad : \A n \in Bad : m <= n
  BY <1>1, LeastExists
<1>3. CASE m = 0
  <2>1. Solves([n \in 0..0 |-> <<>>], 0)
    BY DEF UpToNext
  <2> QED BY <1>2, <1>3, <2>1
<1>4. CASE m # 0
  <2>1. m - 1 \in Nat /\ m - 1 \notin Bad
    BY <1>2, <1>4
  <2>2. PICK f : Solves(f, m - 1)
    BY <2>1
  <2> DEFINE g == [n \in 0..m |-> IF n = m THEN UpToNext(s, S, f, m) ELSE f[n]]
  <2>3. Solves(g, m)
    <3>1. \A n \in 0..(m - 1) : g[n] = f[n]
      BY <2>1
    <3>2. \A n \in 0..(m - 1) : f[n] = UpToNext(s, S, f, n)
      BY <2>2, <2>1
    <3>3. g[m] = UpToNext(s, S, f, m)
      BY <1>4, <2>1
    <3>4. \A n \in 0..m : UpToNext(s, S, g, n) = UpToNext(s, S, f, n)
      <4>1. TAKE n \in 0..m
      <4>2. CASE n = 0
        BY <4>2 DEF UpToNext
      <4>3. CASE n # 0
        <5>1. g[n - 1] = f[n - 1]
          <6>1. n - 1 \in 0..(m - 1)
            BY <4>3, <2>1
          <6> HIDE DEF g
          <6> QED BY <6>1, <3>1
        <5> HIDE DEF g
        <5> QED BY <4>3, <5>1 DEF UpToNext
      <4> QED BY <4>2, <4>3
    <3>5. \A n \in 0..m : g[n] = UpToNext(s, S, g, n)
      <4>1. TAKE n \in 0..m
      <4>2. CASE n = m
        <5> HIDE DEF g
        <5> QED BY <4>2, <3>3, <3>4
      <4>3. CASE n # m
        <5>1. n \in 0..(m - 1)
          BY <4>3, <2>1
        <5> HIDE DEF g
        <5> QED BY <5>1, <3>1, <3>2, <3>4
      <4> QED BY <4>2, <4>3
    <3>6. g = [n \in 0..m |-> g[n]]
      OBVIOUS
    <3> HIDE DEF g
    <3> QED BY <3>5, <3>6
  <2> QED BY <1>2, <2>3
<1> QED BY <1>3, <1>4

LEMMA KeepIs ==
  ASSUME NEW s \in Seq(Kids), NEW S \in SUBSET Kids
  PROVE  \E f : f = [n \in 0..Len(s) |-> UpToNext(s, S, f, n)] /\ Keep(s, S) = f[Len(s)]
<1> DEFINE p == <<s, S>>
           f == CHOOSE f : f = [n \in 0..Len(p[1]) |->
                  IF n = 0 THEN <<>>
                  ELSE IF p[1][n] \in p[2] THEN Append(f[n - 1], p[1][n]) ELSE f[n - 1]]
<1>1. Keep(s, S) = f[Len(s)]
  BY DEF Keep, Filter
<1>2. f = [n \in 0..Len(s) |-> UpToNext(s, S, f, n)]
  <2>1. p[1] = s /\ p[2] = S
    OBVIOUS
  <2> HIDE DEF p
  <2>2. \E g : g = [n \in 0..Len(p[1]) |->
                  IF n = 0 THEN <<>>
                  ELSE IF p[1][n] \in p[2] THEN Append(g[n - 1], p[1][n]) ELSE g[n - 1]]
    BY <2>1, UpToExists DEF UpToNext
  <2>3. f = [n \in 0..Len(p[1]) |->
                  IF n = 0 THEN <<>>
                  ELSE IF p[1][n] \in p[2] THEN Append(f[n - 1], p[1][n]) ELSE f[n - 1]]
    BY <2>2, Zenon
  <2> HIDE DEF f
  <2> QED BY <2>1, <2>3 DEF UpToNext
<1> QED BY <1>1, <1>2

LEMMA ToSetAppend ==
  ASSUME NEW T, NEW q \in Seq(T), NEW x \in T
  PROVE  ToSet(Append(q, x)) = ToSet(q) \cup {x} /\ Append(q, x) \in Seq(T)
<1>1. Append(q, x) \in Seq(T) /\ Len(Append(q, x)) = Len(q) + 1
  OBVIOUS
<1>2. \A i \in 1..Len(q) : Append(q, x)[i] = q[i]
  OBVIOUS
<1>3. Append(q, x)[Len(q) + 1] = x
  OBVIOUS
<1>4. 1..(Len(q) + 1) = 1..Len(q) \cup {Len(q) + 1}
  OBVIOUS
<1>5. DOMAIN Append(q, x) = 1..(Len(q) + 1) /\ DOMAIN q = 1..Len(q)
  OBVIOUS
<1>6. ToSet(Append(q, x)) = {Append(q, x)[i] : i \in 1..Len(q) \cup {Len(q) + 1}}
  BY <1>4, <1>5 DEF ToSet
<1>7. ToSet(q) = {q[i] : i \in 1..Len(q)}
  BY <1>5 DEF ToSet
<1> QED BY <1>1, <1>2, <1>3, <1>6, <1>7

\* What Keep returns: the key ids of s that are in S.
LEMMA KeepType ==
  ASSUME NEW s \in Seq(Kids), NEW S \in SUBSET Kids
  PROVE  Keep(s, S) \in Seq(Kids) /\ ToSet(Keep(s, S)) = ToSet(s) \cap S
<1>1. PICK f : f = [n \in 0..Len(s) |-> UpToNext(s, S, f, n)] /\ Keep(s, S) = f[Len(s)]
  BY KeepIs
<1> DEFINE Fine(n) == f[n] \in Seq(Kids) /\ ToSet(f[n]) = {s[i] : i \in 1..n} \cap S
           Bad == {n \in 0..Len(s) : ~Fine(n)}
<1>2. f[0] = <<>> /\ \A n \in 1..Len(s) :
        f[n] = IF s[n] \in S THEN Append(f[n - 1], s[n]) ELSE f[n - 1]
  <2>1. \A n \in 0..Len(s) : f[n] = UpToNext(s, S, f, n)
    <3> DEFINE U(n) == UpToNext(s, S, f, n)
    <3>1. f = [n \in 0..Len(s) |-> U(n)]
      BY <1>1
    <3> HIDE DEF U
    <3>2. \A n \in 0..Len(s) : f[n] = U(n)
      BY <3>1
    <3> QED BY <3>2 DEF U
  <2>2. \A n \in 1..Len(s) : n \in 0..Len(s) /\ n # 0
    OBVIOUS
  <2>3. 0 \in 0..Len(s)
    OBVIOUS
  <2> QED BY <2>1, <2>2, <2>3, Zenon DEF UpToNext
<1>3. Fine(0)
  BY <1>2 DEF ToSet
<1>4. \A n \in 1..Len(s) : Fine(n - 1) => Fine(n)
  <2>1. SUFFICES ASSUME NEW n \in 1..Len(s), Fine(n - 1) PROVE Fine(n)
    OBVIOUS
  <2>2. {s[i] : i \in 1..n} = {s[i] : i \in 1..(n - 1)} \cup {s[n]} /\ s[n] \in Kids
    OBVIOUS
  <2>3. CASE s[n] \in S
    <3>1. f[n] = Append(f[n - 1], s[n])
      BY <1>2, <2>3
    <3>2. PICK q \in Seq(Kids) : q = f[n - 1]
      BY <2>1
    <3>3. ToSet(Append(q, s[n])) = ToSet(q) \cup {s[n]} /\ Append(q, s[n]) \in Seq(Kids)
      BY <2>2, ToSetAppend
    <3>4. ToSet(q) = {s[i] : i \in 1..(n - 1)} \cap S
      BY <3>2, <2>1
    <3> QED BY <2>2, <2>3, <3>1, <3>2, <3>3, <3>4
  <2>4. CASE s[n] \notin S
    <3>1. f[n] = f[n - 1]
      BY <1>2, <2>4
    <3> QED BY <2>1, <2>2, <2>4, <3>1
  <2> QED BY <2>3, <2>4
<1>5. Bad = {}
  <2>1. SUFFICES ASSUME Bad # {} PROVE FALSE
    OBVIOUS
  <2>2. PICK m \in Bad : \A n \in Bad : m <= n
    <3>1. Bad \subseteq Nat
      <4> HIDE DEF Fine
      <4> QED OBVIOUS
    <3> HIDE DEF Bad
    <3> QED BY <2>1, <3>1, LeastExists
  <2>3. m # 0 /\ m \in 0..Len(s) /\ ~Fine(m)
    BY <1>3, <2>2
  <2>4. m \in 1..Len(s) /\ m - 1 \in 0..Len(s) /\ m - 1 \notin Bad
    <3> HIDE DEF Fine
    <3> QED BY <2>2, <2>3
  <2> HIDE DEF Fine
  <2> QED BY <1>4, <2>3, <2>4
<1>6. Fine(Len(s))
  <2> HIDE DEF Fine
  <2> QED BY <1>5
<1>7. {s[i] : i \in 1..Len(s)} = ToSet(s)
  BY DEF ToSet
<1> QED BY <1>1, <1>6, <1>7

\* Head, nonempty sequences and ToSet.
LEMMA ToSetFacts ==
  ASSUME NEW T, NEW q \in Seq(T)
  PROVE  /\ ToSet(q) \subseteq T
         /\ q \in Seq(ToSet(q))
         /\ q # <<>> => Head(q) \in ToSet(q)
         /\ q = <<>> <=> ToSet(q) = {}
         /\ \A i \in DOMAIN q : q[i] \in ToSet(q)
<1>1. DOMAIN q = 1..Len(q) /\ \A i \in DOMAIN q : q[i] \in T
  OBVIOUS
<1>2. \A i \in DOMAIN q : q[i] \in ToSet(q)
  BY DEF ToSet
<1>3. ToSet(q) \subseteq T
  BY <1>1 DEF ToSet
<1>4. q # <<>> => 1 \in DOMAIN q /\ Head(q) = q[1]
  OBVIOUS
<1>5. q = <<>> => DOMAIN q = {}
  BY <1>1
<1>6. q = <<>> <=> ToSet(q) = {}
  BY <1>2, <1>4, <1>5 DEF ToSet
<1>7. q \in Seq(ToSet(q))
  <2>1. q = [i \in 1..Len(q) |-> q[i]]
    OBVIOUS
  <2>2. Len(q) \in Nat
    OBVIOUS
  <2>3. \A i \in 1..Len(q) : q[i] \in ToSet(q)
    BY <1>1, <1>2
  <2> QED BY <2>1, <2>2, <2>3
<1> QED BY <1>2, <1>3, <1>4, <1>6, <1>7

-----------------------------------------------------------------------------
(* Documents and the keys they list *)

LEMMA DidType ==
  ASSUME NEW x \in Dids \cup Kids
  PROVE  Did(x) \in Dids
BY KidsAssumption DEF Did

\* A document that resolves is one of the versions.
LEMMA DocType ==
  ASSUME ViewOK, NEW a \in Dids, NEW d \in Dids, Resolves(a, d)
  PROVE  /\ IsDocument(Doc(a, d))
         /\ \E v \in 1..Len(Versions[d]) : Versions[d][v] # NoDoc /\ Doc(a, d) = Versions[d][v]
BY DocumentsAssumption DEF ViewOK, Resolves, Doc

LEMMA OnlyType ==
  ASSUME NEW s \in Seq(Kids), NEW x
  PROVE  Only(s, x) \in Seq(Kids) /\ ToSet(Only(s, x)) \subseteq ToSet(s)
<1>1. CASE x \in Kids
  <2>1. {x} \in SUBSET Kids
    BY <1>1
  <2>2. Keep(s, {x}) \in Seq(Kids) /\ ToSet(Keep(s, {x})) = ToSet(s) \cap {x}
    BY <2>1, KeepType
  <2> QED BY <1>1, <2>2 DEF Only
<1>2. CASE x \notin Kids
  BY <1>2 DEF Only
<1> QED BY <1>1, <1>2

LEMMA AgreementType ==
  ASSUME NEW doc, IsDocument(doc), NEW x
  PROVE  /\ Agreement(doc, x) \in Seq(Kids) /\ ToSet(Agreement(doc, x)) \subseteq ToSet(doc.agree)
         /\ Authentication(doc, x) \in Seq(Kids)
BY OnlyType DEF IsDocument, Agreement, Authentication

LEMMA HeldType ==
  ASSUME NEW a \in Dids, NEW s \in Seq(Kids)
  PROVE  Held(a, s) \in Seq(Kids) /\ ToSet(Held(a, s)) = ToSet(s) \cap DOMAIN Wallet[a]
<1>1. DOMAIN Wallet[a] \in SUBSET Kids
  BY KidsAssumption
<1> QED BY <1>1, KeepType DEF Held

OfAlg(doc, s, alg) == {k \in ToSet(s) : k \in DOMAIN doc.key /\ Alg(doc, k) = alg}

\* The keys of a document with a supported algorithm, and with a given one.
LEMMA AlgType ==
  ASSUME NEW doc, IsDocument(doc), NEW s \in Seq(Kids)
  PROVE  /\ \A k \in DOMAIN doc.key : PublicKey(doc, k) \in Keys /\ Alg(doc, k) \in Algs
         /\ Supported(doc, s) \in Seq(Kids)
         /\ ToSet(Supported(doc, s)) \subseteq ToSet(s) \cap DOMAIN doc.key
         /\ \A alg \in Algs :
              /\ WithAlg(doc, s, alg) \in Seq(Kids)
              /\ ToSet(WithAlg(doc, s, alg)) = OfAlg(doc, s, alg)
<1>1. DOMAIN doc.key \subseteq Kids
  BY DEF IsDocument
<1>2. \A k \in DOMAIN doc.key : PublicKey(doc, k) \in Keys /\ Alg(doc, k) \in Algs
  <2>1. doc.key \in [DOMAIN doc.key -> Keys]
    BY DEF IsDocument
  <2>2. \A k \in DOMAIN doc.key : doc.key[k] \in Keys
    BY <2>1
  <2> QED BY <2>2, KidsAssumption DEF PublicKey, Alg
<1>3. Supported(doc, s) \in Seq(Kids)
         /\ ToSet(Supported(doc, s)) \subseteq ToSet(s) \cap DOMAIN doc.key
  <2> DEFINE S == {k \in DOMAIN doc.key : Alg(doc, k) # "unsupported"}
  <2>1. S \in SUBSET Kids /\ S \subseteq DOMAIN doc.key
    BY <1>1
  <2>2. Supported(doc, s) = Keep(s, S)
    BY DEF Supported
  <2> HIDE DEF S
  <2>3. Keep(s, S) \in Seq(Kids) /\ ToSet(Keep(s, S)) = ToSet(s) \cap S
    BY <2>1, KeepType
  <2> QED BY <2>1, <2>2, <2>3
<1>4. ASSUME NEW alg \in Algs
      PROVE  /\ WithAlg(doc, s, alg) \in Seq(Kids)
             /\ ToSet(WithAlg(doc, s, alg)) = OfAlg(doc, s, alg)
  <2> DEFINE S == {k \in DOMAIN doc.key : Alg(doc, k) = alg}
  <2>1. S \in SUBSET Kids
    BY <1>1
  <2>2. WithAlg(doc, s, alg) = Keep(s, S)
    BY DEF WithAlg, ByAlg
  <2>3. ToSet(s) \cap S = OfAlg(doc, s, alg)
    BY DEF OfAlg
  <2> HIDE DEF S
  <2>4. Keep(s, S) \in Seq(Kids) /\ ToSet(Keep(s, S)) = ToSet(s) \cap S
    BY <2>1, KeepType
  <2> QED BY <2>2, <2>3, <2>4
<1> QED BY <1>2, <1>3, <1>4

-----------------------------------------------------------------------------
(* The layers that a packing adds *)

\* An anoncrypt layer for some keys of a document.
LEMMA AnonLayerIsLayer ==
  ASSUME NEW a, NEW doc, IsDocument(doc), NEW kids \in Seq(Kids), kids # <<>>,
         ToSet(kids) \subseteq DOMAIN doc.key
  PROVE  AnonLayer(doc, kids) \in LayersOf(a)
<1> DEFINE l == [t |-> "anon", kids |-> kids, key |-> EncryptedKeys(doc, kids)]
<1>1. \A k \in ToSet(kids) : PublicKey(doc, k) \in Keys
  BY AlgType
<1>2. EncryptedKeys(doc, kids) \in [ToSet(kids) -> Keys]
  BY <1>1 DEF EncryptedKeys
<1>3. ToSet(kids) \subseteq Kids
  BY ToSetFacts
<1>4. EncryptedKeys(doc, kids) \in Ciphers
  BY <1>2, <1>3 DEF Ciphers
<1>5. l \in AnyLayer
  BY <1>4 DEF AnyLayer
<1>6. l.t = "anon" /\ l.kids = kids /\ l.key = EncryptedKeys(doc, kids)
  OBVIOUS
<1> HIDE DEF l
<1>7. IsLayer(l) /\ Genuine(a, l)
  BY <1>2, <1>6 DEF IsLayer, IsJwe, Genuine
<1>8. AnonLayer(doc, kids) = l
  BY DEF AnonLayer, l
<1> QED BY <1>5, <1>7, <1>8 DEF LayersOf

\* An authcrypt layer from a key that the agent has.
LEMMA AuthLayerIsLayer ==
  ASSUME NEW a \in Dids, NEW doc, IsDocument(doc), NEW kids \in Seq(Kids), kids # <<>>,
         ToSet(kids) \subseteq DOMAIN doc.key, NEW k \in Kids, Holds(a, k)
  PROVE  AuthLayer(doc, kids, k, Secret(a, k)) \in LayersOf(a)
<1> DEFINE l == [t |-> "auth", kids |-> kids, key |-> EncryptedKeys(doc, kids),
                 skid |-> k, skey |-> Secret(a, k)]
<1>1. \A i \in ToSet(kids) : PublicKey(doc, i) \in Keys
  BY AlgType
<1>2. EncryptedKeys(doc, kids) \in [ToSet(kids) -> Keys]
  BY <1>1 DEF EncryptedKeys
<1>3. ToSet(kids) \subseteq Kids
  BY ToSetFacts
<1>4. EncryptedKeys(doc, kids) \in Ciphers
  BY <1>2, <1>3 DEF Ciphers
<1>5. Secret(a, k) \in Keys /\ Secret(a, k) = Wallet[a][k]
  BY DocumentsAssumption DEF Secret, Holds
<1>6. l \in AnyLayer
  BY <1>4, <1>5 DEF AnyLayer
<1>7. l.t = "auth" /\ l.kids = kids /\ l.key = EncryptedKeys(doc, kids)
      /\ l.skid = k /\ l.skey = Secret(a, k)
  OBVIOUS
<1> HIDE DEF l
<1>8. IsLayer(l) /\ Genuine(a, l)
  BY <1>2, <1>5, <1>7 DEF IsLayer, IsJwe, Genuine
<1>9. AuthLayer(doc, kids, k, Secret(a, k)) = l
  BY DEF AuthLayer, l
<1> QED BY <1>6, <1>8, <1>9 DEF LayersOf

\* The other layers.
LEMMA PlainLayerIsLayer ==
  ASSUME NEW a, NEW prior \in Priors \cup {None}, prior # None => Holds(a, prior.kid)
  PROVE  PlainLayer(prior) \in LayersOf(a)
<1>1. PlainLayer(prior) \in AnyLayer
  BY DEF PlainLayer, AnyLayer
<1>2. PlainLayer(prior).t = "plain" /\ PlainLayer(prior).prior = prior
  BY DEF PlainLayer
<1>3. prior # None => prior.kid \in Kids
  BY DEF Priors
<1> HIDE DEF PlainLayer
<1>4. IsLayer(PlainLayer(prior)) /\ Genuine(a, PlainLayer(prior))
  BY <1>2, <1>3 DEF IsLayer, IsJwe, Genuine
<1> QED BY <1>1, <1>4 DEF LayersOf

LEMMA ForwardLayerIsLayer ==
  ASSUME NEW a, NEW next \in Dids \cup Kids
  PROVE  ForwardLayer(next) \in LayersOf(a)
<1>1. ForwardLayer(next) \in AnyLayer
  BY DEF ForwardLayer, AnyLayer
<1>2. ForwardLayer(next).t = "forward" /\ ForwardLayer(next).next = next
  BY DEF ForwardLayer
<1>3. IsLayer(ForwardLayer(next)) /\ Genuine(a, ForwardLayer(next))
  BY <1>2 DEF IsLayer, IsJwe, Genuine
<1> QED BY <1>1, <1>3 DEF LayersOf

LEMMA SignLayerIsLayer ==
  ASSUME NEW a \in Dids, NEW k \in Kids, Holds(a, k)
  PROVE  SignLayer(k, Secret(a, k)) \in LayersOf(a)
<1>1. Secret(a, k) \in Keys
  BY DocumentsAssumption DEF Secret, Holds
<1>2. SignLayer(k, Secret(a, k)) \in AnyLayer
  BY <1>1 DEF SignLayer, AnyLayer
<1>3. LET l == SignLayer(k, Secret(a, k)) IN l.t = "sign" /\ l.kid = k /\ l.key = Secret(a, k)
  BY DEF SignLayer
<1>4. IsLayer(SignLayer(k, Secret(a, k))) /\ Genuine(a, SignLayer(k, Secret(a, k)))
  BY <1>1, <1>3 DEF IsLayer, IsJwe, Genuine
<1> QED BY <1>2, <1>4 DEF LayersOf

-----------------------------------------------------------------------------
(* Who a packing is for, and from *)

\* The keys of an anoncrypt layer are some of the addressee's, and not none.
LEMMA AnonKidsType ==
  ASSUME ViewOK, NEW a \in Dids, NEW x \in Dids \cup Kids, CanAnoncrypt(a, x)
  PROVE  /\ IsDocument(Doc(a, Did(x)))
         /\ AnonKids(a, x) \in Seq(Kids) /\ AnonKids(a, x) # <<>>
         /\ ToSet(AnonKids(a, x)) \subseteq DOMAIN Doc(a, Did(x)).key
         /\ KidsOf(Did(x), AnonKids(a, x))
<1>1. PICK d \in Dids : d = Did(x)
  BY DidType
<1>2. PICK doc : doc = Doc(a, d)
  OBVIOUS
<1>3. Resolves(a, d)
  BY <1>1 DEF CanAnoncrypt, Addressable
<1>4. PICK v \in 1..Len(Versions[d]) : Versions[d][v] # NoDoc /\ doc = Versions[d][v]
  BY <1>2, <1>3, DocType
<1>5. IsDocument(doc)
  BY <1>2, <1>3, DocType
<1>6. PICK kids : kids = Agreement(doc, x)
  OBVIOUS
<1>7. kids \in Seq(Kids) /\ ToSet(kids) \subseteq ToSet(doc.agree)
  BY <1>5, <1>6, AgreementType
<1>8. Supported(doc, kids) # <<>> /\ AnonAlg(doc, kids) \in ExchangeAlgs
  BY <1>1, <1>2, <1>6 DEF CanAnoncrypt
<1>9. PICK alg \in Algs : alg = AnonAlg(doc, kids)
  BY <1>8 DEF Algs
<1>10. /\ Supported(doc, kids) \in Seq(Kids)
       /\ ToSet(Supported(doc, kids)) \subseteq ToSet(kids) \cap DOMAIN doc.key
  BY <1>5, <1>7, AlgType
<1>11. Head(Supported(doc, kids)) \in ToSet(Supported(doc, kids))
  BY <1>8, <1>10, ToSetFacts
<1>12. /\ WithAlg(doc, kids, alg) \in Seq(Kids)
       /\ ToSet(WithAlg(doc, kids, alg)) = OfAlg(doc, kids, alg)
  BY <1>5, <1>7, AlgType
<1>13. Head(Supported(doc, kids)) \in ToSet(WithAlg(doc, kids, alg))
  BY <1>9, <1>10, <1>11, <1>12 DEF AnonAlg, OfAlg
<1>14. WithAlg(doc, kids, alg) # <<>>
  BY <1>12, <1>13, ToSetFacts
<1>15. AnonKids(a, x) = WithAlg(doc, kids, alg)
  BY <1>1, <1>2, <1>6, <1>9 DEF AnonKids
<1>16. ToSet(WithAlg(doc, kids, alg)) \subseteq ToSet(doc.agree)
  BY <1>7, <1>12 DEF OfAlg
<1>17. KidsOf(d, WithAlg(doc, kids, alg))
  BY <1>4, <1>16 DEF KidsOf
<1>18. ToSet(WithAlg(doc, kids, alg)) \subseteq DOMAIN doc.key
  BY <1>12 DEF OfAlg
<1> QED BY <1>1, <1>2, <1>5, <1>12, <1>14, <1>15, <1>17, <1>18

\* So are those of an authcrypt layer, and its sender key is in the wallet.
LEMMA AuthKidsType ==
  ASSUME ViewOK, NEW a \in Dids, NEW from \in Dids \cup Kids, NEW to \in Dids \cup Kids,
         CanAuthcrypt(a, from, to)
  PROVE  /\ IsDocument(Doc(a, Did(to)))
         /\ AuthKids(a, from, to) \in Seq(Kids) /\ AuthKids(a, from, to) # <<>>
         /\ ToSet(AuthKids(a, from, to)) \subseteq DOMAIN Doc(a, Did(to)).key
         /\ KidsOf(Did(to), AuthKids(a, from, to))
         /\ FromKid(a, from, to) \in Kids /\ Holds(a, FromKid(a, from, to))
<1>1. PICK f \in Dids, d \in Dids : f = Did(from) /\ d = Did(to)
  BY DidType
<1>2. PICK fdoc, doc : fdoc = Doc(a, f) /\ doc = Doc(a, d)
  OBVIOUS
<1>3. Resolves(a, f) /\ Resolves(a, d)
  BY <1>1 DEF CanAuthcrypt, Addressable
<1>4. PICK v \in 1..Len(Versions[d]) : Versions[d][v] # NoDoc /\ doc = Versions[d][v]
  BY <1>2, <1>3, DocType
<1>5. IsDocument(doc) /\ IsDocument(fdoc)
  BY <1>2, <1>3, DocType
<1>6. PICK kids, own : kids = Agreement(doc, to) /\ own = Agreement(fdoc, from)
  OBVIOUS
<1>7. /\ kids \in Seq(Kids) /\ ToSet(kids) \subseteq ToSet(doc.agree)
      /\ own \in Seq(Kids)
  BY <1>5, <1>6, AgreementType
<1>8. PICK held : held = Held(a, own)
  OBVIOUS
<1>9. held \in Seq(Kids) /\ ToSet(held) \subseteq DOMAIN Wallet[a]
  BY <1>7, <1>8, HeldType
<1>10. PICK sup : sup = Supported(fdoc, held)
  OBVIOUS
<1>11. sup \in Seq(Kids) /\ ToSet(sup) \subseteq ToSet(held) \cap DOMAIN fdoc.key
  BY <1>5, <1>9, <1>10, AlgType
<1> DEFINE S == {k \in DOMAIN fdoc.key : \E l \in ToSet(kids) : Alg(doc, l) = Alg(fdoc, k)}
<1>12. Common(a, from, to) = Keep(sup, S)
  BY <1>1, <1>2, <1>6, <1>8, <1>10 DEF Common
<1>13. S \in SUBSET Kids
  BY <1>5 DEF IsDocument
<1>14. Keep(sup, S) \in Seq(Kids) /\ ToSet(Keep(sup, S)) = ToSet(sup) \cap S
  <2> HIDE DEF S
  <2> QED BY <1>11, <1>13, KeepType
<1>15. Common(a, from, to) # <<>>
  BY DEF CanAuthcrypt
<1>16. PICK k : k = FromKid(a, from, to)
  OBVIOUS
<1>17. k \in ToSet(sup) /\ k \in S /\ k \in Kids
  <2>1. k = Head(Keep(sup, S))
    BY <1>12, <1>16 DEF FromKid
  <2>2. k \in ToSet(Keep(sup, S)) /\ ToSet(Keep(sup, S)) \subseteq Kids
    <3> HIDE DEF S
    <3> QED BY <2>1, <1>12, <1>14, <1>15, ToSetFacts
  <2> HIDE DEF S
  <2> QED BY <1>14, <2>2
<1>18. Holds(a, k)
  BY <1>9, <1>11, <1>17 DEF Holds
<1>19. PICK alg : alg = Alg(fdoc, k)
  OBVIOUS
<1>20. alg \in Algs
  <2>1. alg \in ExchangeAlgs
    BY <1>1, <1>2, <1>16, <1>19 DEF CanAuthcrypt
  <2> QED BY <2>1 DEF Algs
<1>21. PICK l \in ToSet(kids) : Alg(doc, l) = alg
  BY <1>17, <1>19
<1>22. l \in DOMAIN doc.key
  <2>1. \A i \in DOMAIN kids : HasMethod(doc, kids[i])
    BY <1>1, <1>2, <1>6 DEF CanAuthcrypt, Addressable
  <2>2. PICK i \in DOMAIN kids : l = kids[i]
    BY <1>21 DEF ToSet
  <2> QED BY <2>1, <2>2 DEF HasMethod
<1>23. /\ WithAlg(doc, kids, alg) \in Seq(Kids)
       /\ ToSet(WithAlg(doc, kids, alg)) = OfAlg(doc, kids, alg)
  BY <1>5, <1>7, <1>20, AlgType
<1>24. WithAlg(doc, kids, alg) # <<>>
  BY <1>21, <1>22, <1>23, ToSetFacts DEF OfAlg
<1>25. AuthKids(a, from, to) = WithAlg(doc, kids, alg)
  BY <1>1, <1>2, <1>6, <1>16, <1>19 DEF AuthKids
<1>26. ToSet(WithAlg(doc, kids, alg)) \subseteq ToSet(doc.agree)
  BY <1>7, <1>23 DEF OfAlg
<1>27. KidsOf(d, WithAlg(doc, kids, alg))
  BY <1>4, <1>26 DEF KidsOf
<1>28. ToSet(WithAlg(doc, kids, alg)) \subseteq DOMAIN doc.key
  BY <1>23 DEF OfAlg
<1> QED BY <1>1, <1>2, <1>5, <1>16, <1>17, <1>18, <1>23, <1>24, <1>25, <1>27, <1>28

\* The key that a signature is made with.
LEMMA SignersType ==
  ASSUME ViewOK, NEW a \in Dids, NEW x \in Dids \cup Kids, CanSign(a, x)
  PROVE  Head(Signers(a, x)) \in Kids /\ Holds(a, Head(Signers(a, x)))
<1>1. PICK d \in Dids : d = Did(x)
  BY DidType
<1>2. Resolves(a, d) /\ Signers(a, x) # <<>>
  BY <1>1 DEF CanSign
<1>3. IsDocument(Doc(a, d))
  BY <1>2, DocType
<1>4. PICK s \in Seq(Kids) : s = Authentication(Doc(a, d), x)
  BY <1>3, AgreementType
<1>5. Held(a, s) \in Seq(Kids) /\ ToSet(Held(a, s)) = ToSet(s) \cap DOMAIN Wallet[a]
  BY HeldType
<1>6. Signers(a, x) = Held(a, s)
  BY <1>1, <1>4 DEF Signers
<1>7. Head(Held(a, s)) \in ToSet(Held(a, s)) /\ ToSet(s) \subseteq Kids
  BY <1>2, <1>5, <1>6, ToSetFacts
<1> QED BY <1>5, <1>6, <1>7 DEF Holds

-----------------------------------------------------------------------------
(* Stacks *)

LEMMA ConcatIs ==
  ASSUME NEW T, NEW q \in Seq(T), NEW r \in Seq(T)
  PROVE  /\ q \o r \in Seq(T)
         /\ Len(q \o r) = Len(q) + Len(r)
         /\ \A i \in 1..Len(q) : (q \o r)[i] = q[i]
         /\ \A i \in 1..Len(r) : (q \o r)[Len(q) + i] = r[i]
OBVIOUS

LEMMA StackUnder ==
  ASSUME NEW a, NEW q \in Seq(LayersOf(a)), NEW ls, Stack(a, ls)
  PROVE  Stack(a, q \o ls)
<1>1. ls \in Seq(LayersOf(a)) /\ Len(ls) \in Nat \ {0}
  BY DEF Stack
<1>2. PICK T : T = LayersOf(a)
  OBVIOUS
<1>3. q \o ls \in Seq(T) /\ Len(q \o ls) = Len(q) + Len(ls) /\ Len(q) \in Nat
  BY <1>1, <1>2
<1>4. (q \o ls)[Len(q) + Len(ls)] = ls[Len(ls)]
  BY <1>1, <1>2
<1>5. q \o ls # <<>>
  BY <1>1, <1>3
<1> QED BY <1>2, <1>3, <1>4, <1>5 DEF Stack

\* A layer that is not the plaintext has another one below it.
LEMMA StackTail ==
  ASSUME NEW a, NEW ls, Stack(a, ls), ls[1].t # "plain"
  PROVE  /\ Stack(a, Tail(ls))
         /\ Len(Tail(ls)) = Len(ls) - 1
         /\ Len(ls) \in Nat /\ Len(ls) > 1
         /\ \A i \in 1..Len(Tail(ls)) : Tail(ls)[i] = ls[i + 1]
<1>1. PICK T : T = LayersOf(a)
  OBVIOUS
<1>2. ls \in Seq(T) /\ ls # <<>> /\ ls[Len(ls)].t = "plain"
  BY <1>1 DEF Stack
<1>3. Len(ls) \in Nat /\ Len(ls) # 0 /\ Len(ls) # 1
  <2>1. Len(ls) \in Nat /\ Len(ls) # 0
    BY <1>2
  <2>2. Len(ls) # 1
    BY <1>2
  <2> QED BY <2>1, <2>2
<1>4. Tail(ls) \in Seq(T) /\ Len(Tail(ls)) = Len(ls) - 1
  BY <1>2, <1>3
<1>5. \A i \in 1..Len(Tail(ls)) : Tail(ls)[i] = ls[i + 1]
  BY <1>2, <1>3, <1>4
<1>6. Len(Tail(ls)) \in 1..Len(Tail(ls)) /\ Tail(ls) # <<>>
  <2>1. PICK t \in Seq(T) : t = Tail(ls)
    BY <1>4
  <2>2. Len(t) \in Nat /\ Len(t) # 0
    BY <1>3, <1>4, <2>1
  <2>3. t # <<>> /\ Len(t) \in 1..Len(t)
    BY <2>2
  <2> QED BY <2>1, <2>3
<1>7. Tail(ls)[Len(Tail(ls))] = ls[Len(ls)]
  BY <1>3, <1>4, <1>5, <1>6
<1>8. Stack(a, Tail(ls))
  BY <1>1, <1>2, <1>4, <1>6, <1>7 DEF Stack
<1>9. Len(ls) > 1
  BY <1>3
<1> QED BY <1>3, <1>4, <1>5, <1>8, <1>9

LEMMA StackTop ==
  ASSUME NEW a, NEW ls, Stack(a, ls)
  PROVE  /\ \A i \in DOMAIN ls : ls[i] \in AnyLayer /\ IsLayer(ls[i]) /\ Genuine(a, ls[i])
         /\ 1 \in DOMAIN ls /\ DOMAIN ls = 1..Len(ls) /\ Len(ls) \in Nat
<1>1. PICK T : T = LayersOf(a)
  OBVIOUS
<1>2. ls \in Seq(T) /\ ls # <<>>
  BY <1>1 DEF Stack
<1>3. /\ DOMAIN ls = 1..Len(ls) /\ Len(ls) \in Nat /\ 1 \in DOMAIN ls
      /\ \A i \in DOMAIN ls : ls[i] \in T
  BY <1>2
<1> QED BY <1>1, <1>3 DEF LayersOf

-----------------------------------------------------------------------------
(* The packing preserves PackInv *)

LEMMA MeType ==
  ASSUME PackInv
  PROVE  /\ Me \in Dids /\ choice.sub \in Dids /\ choice.to \in Dids \cup Kids
         /\ choice.from # None => choice.from \in Dids \cup Kids
         /\ choice.signBy # None => choice.signBy \in Dids \cup Kids
         /\ choice.prior # None => choice.prior \in Dids \cup Kids
BY RequestsAssumption DEF PackInv, Me

\* Stages other than "wrap" say nothing about the route.
LEMMA PackInvStep ==
  ASSUME PackInv, view' = view, choice' = choice,
         stage' \in {"prior", "body", "encrypt", "route", "wrap", "packed", "failed"},
         Stack(Me, layers'),
         claim' \in ClaimType,
         route' \in RouteType,
         stage' = "wrap" => route'.next # None
  PROVE  PackInv' /\ Me' = Me
<1>1. Me' = Me
  BY DEF Me
<1>2. ViewOK'
  BY DEF PackInv, ViewOK
<1>3. choice' \in Requests
  BY DEF PackInv
<1>4. Stack(Me, layers)'
  BY <1>1
<1> QED BY <1>1, <1>2, <1>3, <1>4 DEF PackInv

LEMMA PackInvPrior ==
  ASSUME PackInv, PackPrior
  PROVE  PackInv' /\ Me' = Me
<1>1. PICK a \in Dids : a = Me
  BY MeType
<1>2. CASE choice.prior = None
  <2>1. layers' = layers
    BY <1>2 DEF PackPrior
  <2>2. Stack(Me, layers')
    BY <2>1 DEF PackInv
  <2>3. view' = view /\ choice' = choice /\ claim' = claim /\ route' = route /\ stage' = "body"
    BY DEF PackPrior
  <2>4. /\ claim' \in ClaimType
        /\ route' \in RouteType
    BY <2>3 DEF PackInv
  <2> QED BY <2>2, <2>3, <2>4, PackInvStep
<1>3. CASE choice.prior # None
  <2>1. CanSign(a, choice.prior) /\ choice.prior \in Dids \cup Kids /\ choice.sub \in Dids
    BY <1>1, <1>3, MeType DEF PackPrior, CanPackPrior
  <2>2. ViewOK
    BY DEF PackInv
  <2>3. PICK k : k = Head(Signers(a, choice.prior))
    OBVIOUS
  <2>4. k \in Kids /\ Holds(a, k)
    BY <2>1, <2>2, <2>3, SignersType
  <2>5. Secret(a, k) \in Keys
    BY <2>4, DocumentsAssumption DEF Secret, Holds
  <2>6. PICK p : p = SignCompact(k)
    OBVIOUS
  <2>7. p \in Priors /\ p.kid = k
    <3>1. Did(choice.prior) \in Dids
      BY <2>1, DidType
    <3>2. p = [iss |-> Did(choice.prior), sub |-> choice.sub, kid |-> k, key |-> Secret(a, k)]
      BY <1>1, <2>6 DEF SignCompact
    <3> QED BY <2>1, <2>4, <2>5, <3>1, <3>2 DEF Priors
  <2>8. PlainLayer(p) \in LayersOf(a)
    BY <2>4, <2>7, PlainLayerIsLayer
  <2>9. layers' = <<PlainLayer(p)>>
    BY <1>1, <1>3, <2>3, <2>6 DEF PackPrior
  <2>10. Stack(a, layers')
    <3>1. PlainLayer(p).t = "plain"
      BY DEF PlainLayer
    <3>2. PICK l : l = PlainLayer(p)
      OBVIOUS
    <3>3. <<l>> \in Seq(LayersOf(a)) /\ <<l>> # <<>> /\ <<l>>[Len(<<l>>)] = l
      BY <2>8, <3>2
    <3> QED BY <2>9, <3>1, <3>2, <3>3 DEF Stack
  <2>11. view' = view /\ choice' = choice /\ claim' = claim /\ route' = route /\ stage' = "body"
    BY DEF PackPrior
  <2>12. /\ claim' \in ClaimType
        /\ route' \in RouteType
    BY <2>11 DEF PackInv
  <2> QED BY <1>1, <2>10, <2>11, <2>12, PackInvStep
<1> QED BY <1>2, <1>3

LEMMA PackInvBody ==
  ASSUME PackInv, PackBody
  PROVE  PackInv' /\ Me' = Me
<1>1. PICK a \in Dids : a = Me
  BY MeType
<1>2. view' = view /\ choice' = choice /\ route' = route /\ stage' = "encrypt"
  BY DEF PackBody
<1>3. route' \in RouteType
  BY <1>2 DEF PackInv
<1>4. CASE choice.signBy = None
  <2>1. layers' = layers /\ claim' = claim
    BY <1>4 DEF PackBody
  <2>2. Stack(Me, layers')
    BY <2>1 DEF PackInv
  <2>3. claim' \in ClaimType
    BY <2>1 DEF PackInv
  <2> QED BY <1>2, <1>3, <2>2, <2>3, PackInvStep
<1>5. CASE choice.signBy # None
  <2>1. CanSign(a, choice.signBy) /\ choice.signBy \in Dids \cup Kids
    BY <1>1, <1>5, MeType DEF PackBody, CanPackBody
  <2>2. ViewOK
    BY DEF PackInv
  <2>3. PICK k : k = Head(Signers(a, choice.signBy))
    OBVIOUS
  <2>4. k \in Kids /\ Holds(a, k)
    BY <2>1, <2>2, <2>3, SignersType
  <2>5. PICK l : l = SignLayer(k, Secret(a, k))
    OBVIOUS
  <2>6. l \in LayersOf(a)
    BY <2>4, <2>5, SignLayerIsLayer
  <2>7. layers' = <<l>> \o layers /\ claim' = [claim EXCEPT !.signer = k]
    BY <1>1, <1>5, <2>3, <2>5 DEF PackBody
  <2>8. <<l>> \in Seq(LayersOf(a))
    BY <2>6
  <2>9. Stack(a, layers)
    BY <1>1 DEF PackInv
  <2>10. Stack(a, layers')
    BY <2>7, <2>8, <2>9, StackUnder
  <2>11. claim' \in ClaimType
    BY <2>4, <2>7 DEF PackInv, ClaimType
  <2> QED BY <1>1, <1>2, <1>3, <2>10, <2>11, PackInvStep
<1> QED BY <1>4, <1>5

\* What Encrypt adds: JWEs for keys of the addressee, the sender's own key in them.
LEMMA JwesType ==
  ASSUME PackInv, CanEncrypt
  PROVE  /\ Jwes \in Seq(LayersOf(Me))
         /\ KidsOf(Did(choice.to), IF choice.from # None THEN AuthKids(Me, choice.from, choice.to)
                                                          ELSE AnonKids(Me, choice.to))
         /\ Len(Jwes) \in 1..2
         /\ IsJwe(Jwes[Len(Jwes)])
         /\ Jwes[Len(Jwes)].kids = IF choice.from # None THEN AuthKids(Me, choice.from, choice.to)
                                                         ELSE AnonKids(Me, choice.to)
         /\ choice.from # None =>
              /\ FromKid(Me, choice.from, choice.to) \in Kids
              /\ AuthKids(Me, choice.from, choice.to) \in Seq(Kids)
         /\ choice.from = None => AnonKids(Me, choice.to) \in Seq(Kids)
<1>1. PICK a \in Dids, to \in Dids \cup Kids : a = Me /\ to = choice.to
  BY MeType
<1>2. ViewOK
  BY DEF PackInv
<1>3. PICK T : T = LayersOf(a)
  OBVIOUS
<1>4. CASE choice.from = None
  <2>1. CanAnoncrypt(a, to)
    BY <1>1, <1>4 DEF CanEncrypt
  <2>2. /\ IsDocument(Doc(a, Did(to)))
        /\ AnonKids(a, to) \in Seq(Kids) /\ AnonKids(a, to) # <<>>
        /\ ToSet(AnonKids(a, to)) \subseteq DOMAIN Doc(a, Did(to)).key
        /\ KidsOf(Did(to), AnonKids(a, to))
    BY <1>2, <2>1, AnonKidsType
  <2>3. PICK l : l = Anoncrypt(a, to)
    OBVIOUS
  <2>4. l \in T
    BY <1>3, <2>2, <2>3, AnonLayerIsLayer DEF Anoncrypt
  <2>5. IsJwe(l) /\ l.kids = AnonKids(a, to)
    BY <2>3 DEF Anoncrypt, AnonLayer, IsJwe
  <2>6. Jwes = <<l>>
    BY <1>1, <1>4, <2>3 DEF Jwes
  <2>7. <<l>> \in Seq(T) /\ Len(<<l>>) = 1 /\ <<l>>[1] = l
    BY <2>4
  <2> QED BY <1>1, <1>3, <1>4, <2>2, <2>5, <2>6, <2>7
<1>5. CASE choice.from # None
  <2>1. PICK from \in Dids \cup Kids : from = choice.from
    BY <1>5, MeType
  <2>2. CanAuthcrypt(a, from, to)
    BY <1>1, <1>5, <2>1 DEF CanEncrypt
  <2>3. PICK kids, k : kids = AuthKids(a, from, to) /\ k = FromKid(a, from, to)
    OBVIOUS
  <2>4. /\ IsDocument(Doc(a, Did(to)))
        /\ kids \in Seq(Kids) /\ kids # <<>>
        /\ ToSet(kids) \subseteq DOMAIN Doc(a, Did(to)).key
        /\ KidsOf(Did(to), kids)
        /\ k \in Kids /\ Holds(a, k)
    BY <1>2, <2>2, <2>3, AuthKidsType
  <2>5. PICK l, m : l = AuthLayer(Doc(a, Did(to)), kids, k, Secret(a, k))
                    /\ m = AnonLayer(Doc(a, Did(to)), kids)
    OBVIOUS
  <2>6. l \in T /\ m \in T
    BY <1>3, <2>4, <2>5, AnonLayerIsLayer, AuthLayerIsLayer
  <2>7. IsJwe(l) /\ l.kids = kids
    BY <2>5 DEF AuthLayer, IsJwe
  <2>8. Jwes = (IF choice.protect THEN <<m>> ELSE <<>>) \o <<l>>
    BY <1>1, <1>5, <2>1, <2>3, <2>5 DEF Jwes, Authcrypted, Authcrypt
  <2>9. CASE choice.protect
    <3>1. PICK q, r : q = <<m>> /\ r = <<l>>
      OBVIOUS
    <3>2. q \in Seq(T) /\ r \in Seq(T) /\ Len(q) = 1 /\ Len(r) = 1 /\ r[1] = l
      BY <2>6, <3>1
    <3>3. q \o r \in Seq(T) /\ Len(q \o r) = 2 /\ (q \o r)[2] = l
      BY <3>2, ConcatIs
    <3>4. PICK j : j = q \o r
      OBVIOUS
    <3>5. Jwes = j
      BY <2>8, <2>9, <3>1, <3>4
    <3>6. /\ Jwes \in Seq(T) /\ Len(Jwes) = 2 /\ Jwes[Len(Jwes)] = l
      BY <3>3, <3>4, <3>5
    <3> QED BY <1>1, <1>3, <1>5, <2>1, <2>3, <2>4, <2>7, <3>6
  <2>10. CASE ~choice.protect
    <3>1. <<>> \o <<l>> = <<l>> /\ <<l>> \in Seq(T) /\ Len(<<l>>) = 1 /\ <<l>>[1] = l
      BY <2>6
    <3> QED BY <1>1, <1>3, <1>5, <2>1, <2>3, <2>4, <2>7, <2>8, <2>10, <3>1
  <2> QED BY <2>9, <2>10
<1> QED BY <1>4, <1>5

LEMMA PackInvEncrypt ==
  ASSUME PackInv, Encrypt
  PROVE  PackInv' /\ Me' = Me
<1>1. view' = view /\ choice' = choice /\ route' = route /\ stage' = "route"
      /\ layers' = Jwes \o layers
  BY DEF Encrypt
<1>2. route' \in RouteType
  BY <1>1 DEF PackInv
<1>3. CanEncrypt
  BY DEF Encrypt
<1>4. Jwes \in Seq(LayersOf(Me))
  BY <1>3, JwesType
<1>5. Stack(Me, layers')
  BY <1>1, <1>4, StackUnder DEF PackInv
<1>6. claim \in ClaimType
  BY DEF PackInv
<1>7. claim' \in ClaimType
  <2>1. CASE choice.from # None
    <3>1. claim' = [claim EXCEPT !.from = FromKid(Me, choice.from, choice.to),
                                 !.kids = AuthKids(Me, choice.from, choice.to)]
      BY <2>1 DEF Encrypt
    <3>2. FromKid(Me, choice.from, choice.to) \in Kids
          /\ AuthKids(Me, choice.from, choice.to) \in Seq(Kids)
      BY <1>3, <2>1, JwesType
    <3> QED BY <1>6, <3>1, <3>2 DEF ClaimType
  <2>2. CASE choice.from = None
    <3>1. claim' = [claim EXCEPT !.kids = AnonKids(Me, choice.to)]
      BY <2>2 DEF Encrypt
    <3>2. AnonKids(Me, choice.to) \in Seq(Kids)
      BY <1>3, <2>2, JwesType
    <3> QED BY <1>6, <3>1, <3>2 DEF ClaimType
  <2> QED BY <2>1, <2>2
<1> QED BY <1>1, <1>2, <1>5, <1>7, PackInvStep

-----------------------------------------------------------------------------
(* The route *)

\* A service that is found is one of the document's.
LEMMA ServiceType ==
  ASSUME ViewOK, NEW a \in Dids, NEW d \in Dids, Resolves(a, d), NEW id,
         Service(Doc(a, d), id) # <<>>
  PROVE  /\ Service(Doc(a, d), id)[1].uri \in Dids \cup Uris
         /\ Service(Doc(a, d), id)[1].routing \in Seq(Dids \cup Kids)
<1>1. PICK v \in 1..Len(Versions[d]) : Versions[d][v] # NoDoc /\ Doc(a, d) = Versions[d][v]
  BY DocType
<1>2. PICK doc, services : doc = Doc(a, d) /\ services = doc.services
  OBVIOUS
<1>3. /\ services \in Seq(ToSet(services))
      /\ \A s \in ToSet(services) :
             s.v2 \in BOOLEAN /\ s.uri \in Dids \cup Uris /\ s.routing \in Seq(Dids \cup Kids)
  BY <1>1, <1>2, ServicesAssumption
<1>4. PICK U : U = Usable(doc, id)
  OBVIOUS
<1>5. U # {} /\ Service(doc, id) = <<services[Min(U)]>>
  BY <1>2, <1>4 DEF Service
<1>6. U \subseteq DOMAIN services /\ U \subseteq Nat
  <2>1. U \subseteq DOMAIN services
    BY <1>2, <1>4 DEF Usable
  <2>2. DOMAIN services \subseteq Nat
    BY <1>3
  <2> QED BY <2>1, <2>2
<1>7. Min(U) \in U
  BY <1>5, <1>6, LeastExists DEF Min
<1>8. services[Min(U)] \in ToSet(services)
  BY <1>6, <1>7 DEF ToSet
<1>9. PICK s : s = services[Min(U)]
  OBVIOUS
<1>10. Service(doc, id)[1] = s
  BY <1>5, <1>9
<1> QED BY <1>2, <1>3, <1>8, <1>9, <1>10

\* Where a message goes first is no DID, and its routing keys are.
LEMMA ChainType ==
  ASSUME PackInv, CanRoute, Chain # <<>>
  PROVE  /\ Chain[1].uri \in Uris
         /\ RoutingKeys \in Seq(Dids \cup Kids)
<1>1. PICK a \in Dids, d \in Dids : a = Me /\ d = Did(choice.to)
  BY MeType, DidType
<1>2. ViewOK
  BY DEF PackInv
<1>3. PICK mine : mine = Service(Doc(a, d), choice.service)
  OBVIOUS
<1>4. mine # <<>> /\ Resolves(a, d)
  BY <1>1, <1>3 DEF Chain, CanRoute, Resolves
<1>5. PICK s : s = mine[1]
  OBVIOUS
<1>6. s.uri \in Dids \cup Uris /\ s.routing \in Seq(Dids \cup Kids)
  BY <1>2, <1>3, <1>4, <1>5, ServiceType
<1>7. CASE s.uri \in Dids
  <2>1. PICK u \in Dids : u = s.uri
    BY <1>7
  <2>2. PICK that : that = Service(Doc(a, u), None)
    OBVIOUS
  <2>3. Resolves(a, u) /\ that # <<>> /\ that[1].uri \notin Dids
    BY <1>1, <1>3, <1>4, <1>5, <2>1, <2>2 DEF CanRoute
  <2>4. PICK t : t = that[1]
    OBVIOUS
  <2>5. t.uri \in Uris
    BY <1>2, <2>2, <2>3, <2>4, ServiceType
  <2>6. Chain = <<t, s>>
    BY <1>1, <1>3, <1>4, <1>5, <2>1, <2>2, <2>4 DEF Chain
  <2>7. Len(<<t, s>>) = 2 /\ <<t, s>>[1] = t /\ <<t, s>>[2] = s /\ Last(<<t, s>>) = s
    BY DEF Last
  <2>8. RoutingKeys = [i \in 1..(2 - 1) |-> <<t, s>>[i + 1].uri] \o s.routing
    BY <2>6, <2>7 DEF RoutingKeys
  <2>9. [i \in 1..(2 - 1) |-> <<t, s>>[i + 1].uri] = <<u>>
    BY <2>1
  <2>10. <<u>> \o s.routing \in Seq(Dids \cup Kids)
    BY <1>6
  <2> QED BY <2>5, <2>6, <2>7, <2>8, <2>9, <2>10
<1>8. CASE s.uri \notin Dids
  <2>1. Chain = <<s>>
    BY <1>1, <1>3, <1>4, <1>5, <1>8 DEF Chain
  <2>2. Len(<<s>>) = 1 /\ <<s>>[1] = s /\ Last(<<s>>) = s
    BY DEF Last
  <2>3. RoutingKeys = [i \in 1..(1 - 1) |-> <<s>>[i + 1].uri] \o s.routing
    BY <2>1, <2>2 DEF RoutingKeys
  <2>4. [i \in 1..(1 - 1) |-> <<s>>[i + 1].uri] = <<>>
    OBVIOUS
  <2>5. <<>> \o s.routing \in Seq(Dids \cup Kids)
    BY <1>6
  <2> QED BY <1>6, <1>8, <2>1, <2>2, <2>3, <2>4, <2>5
<1> QED BY <1>7, <1>8

LEMMA PackInvChoose ==
  ASSUME PackInv, ChooseRoute
  PROVE  PackInv' /\ Me' = Me
<1>1. view' = view /\ choice' = choice /\ layers' = layers
  BY DEF ChooseRoute
<1>2. claim \in ClaimType /\ route \in RouteType /\ Stack(Me, layers')
  BY <1>1 DEF PackInv
<1>3. CASE stage' = "packed" /\ claim' = claim /\ route' = route
  BY <1>1, <1>2, <1>3, PackInvStep
<1>4. CASE /\ CanRoute /\ RoutingKeys # <<>> /\ stage' = "wrap"
           /\ route' = [keys |-> RoutingKeys, next |-> choice.to]
           /\ claim' = [claim EXCEPT !.endpoint = Chain[1].uri]
  <2>1. Chain # <<>>
    BY <1>4 DEF RoutingKeys
  <2>2. Chain[1].uri \in Uris /\ RoutingKeys \in Seq(Dids \cup Kids)
    BY <1>4, <2>1, ChainType
  <2>3. choice.to \in Dids \cup Kids
    BY MeType
  <2>4. route' \in RouteType /\ route'.next # None
    BY <1>4, <2>2, <2>3, KidsAssumption DEF RouteType
  <2>5. claim' \in ClaimType
    BY <1>2, <1>4, <2>2 DEF ClaimType
  <2> QED BY <1>1, <1>2, <1>4, <2>4, <2>5, PackInvStep
<1> QED BY <1>3, <1>4 DEF ChooseRoute

LEMMA WrapType ==
  ASSUME PackInv, WrapLayer
  PROVE  /\ <<Anoncrypt(Me, Last(route.keys)), ForwardLayer(route.next)>> \in Seq(LayersOf(Me))
         /\ Last(route.keys) \in Dids \cup Kids
         /\ Front(route.keys) \in Seq(Dids \cup Kids)
<1>1. PICK a \in Dids : a = Me
  BY MeType
<1>2. PICK key : key = Last(route.keys)
  OBVIOUS
<1>3. stage = "wrap" /\ route.keys # <<>> /\ CanAnoncrypt(a, key)
  BY <1>1, <1>2 DEF WrapLayer
<1>4. PICK keys \in Seq(Dids \cup Kids) : keys = route.keys
  BY DEF PackInv, RouteType
<1>5. key \in Dids \cup Kids /\ Front(keys) \in Seq(Dids \cup Kids)
  <2>1. Len(keys) \in Nat /\ Len(keys) # 0
    BY <1>3, <1>4
  <2>2. keys[Len(keys)] \in Dids \cup Kids
    BY <2>1
  <2>3. SubSeq(keys, 1, Len(keys) - 1) \in Seq(Dids \cup Kids)
    BY <2>1
  <2> QED BY <1>2, <1>4, <2>2, <2>3 DEF Last, Front
<1>6. route.next \in Dids \cup Kids
  BY <1>3 DEF PackInv, RouteType
<1>7. ForwardLayer(route.next) \in LayersOf(a)
  BY <1>6, ForwardLayerIsLayer
<1>8. Anoncrypt(a, key) \in LayersOf(a)
  <2>1. ViewOK
    BY DEF PackInv
  <2> QED BY <1>3, <1>5, <2>1, AnonKidsType, AnonLayerIsLayer DEF Anoncrypt
<1>9. <<Anoncrypt(a, key), ForwardLayer(route.next)>> \in Seq(LayersOf(a))
  BY <1>7, <1>8
<1> QED BY <1>1, <1>2, <1>4, <1>5, <1>9

LEMMA PackInvWrap ==
  ASSUME PackInv, WrapLayer
  PROVE  PackInv' /\ Me' = Me
<1>1. PICK key, keys, new :
        key = Last(route.keys) /\ keys = Front(route.keys)
        /\ new = <<Anoncrypt(Me, key), ForwardLayer(route.next)>>
  OBVIOUS
<1>2. /\ layers' = new \o layers /\ route' = [keys |-> keys, next |-> key]
      /\ stage' = IF Len(route.keys) = 1 THEN "packed" ELSE "wrap"
      /\ view' = view /\ choice' = choice /\ claim' = claim
  BY <1>1 DEF WrapLayer
<1>3. /\ new \in Seq(LayersOf(Me))
      /\ key \in Dids \cup Kids /\ keys \in Seq(Dids \cup Kids)
  BY <1>1, WrapType
<1>4. Stack(Me, layers')
  BY <1>2, <1>3, StackUnder DEF PackInv
<1>5. claim' \in ClaimType
  BY <1>2 DEF PackInv
<1>6. route' \in RouteType /\ route'.next # None
  BY <1>2, <1>3, KidsAssumption DEF RouteType
<1> QED BY <1>2, <1>4, <1>5, <1>6, PackInvStep

LEMMA PackInvPack ==
  ASSUME PackInv, Pack
  PROVE  PackInv' /\ Me' = Me
<1>1. CASE PackError
  <2>1. Fail
    BY <1>1 DEF PackError
  <2>2. /\ stage' = "failed" /\ view' = view /\ choice' = choice /\ layers' = layers
        /\ claim' = claim /\ route' = route
    BY <2>1 DEF Fail
  <2>3. claim' \in ClaimType /\ route' \in RouteType /\ Stack(Me, layers')
    BY <2>2 DEF PackInv
  <2> QED BY <2>2, <2>3, PackInvStep
<1> QED BY <1>1, PackInvPrior, PackInvBody, PackInvEncrypt, PackInvChoose, PackInvWrap DEF Pack

-----------------------------------------------------------------------------
(* The reading preserves ReadInv and SenderInv *)

\* What a layer that is taken off, or not, leaves of PackInv.
LEMMA UnpackKeepsPackInv ==
  ASSUME PackInv, view' = view, choice' = choice, stage' = stage, claim' = claim,
         route' = route, Stack(Me, layers')
  PROVE  PackInv' /\ Me' = Me
BY PackInvStep DEF PackInv

LEMMA UnpackLeavesPackInv ==
  ASSUME PackInv, view' = view, UNCHANGED packVars
  PROVE  PackInv' /\ Me' = Me /\ layers' = layers
<1>1. /\ choice' = choice /\ stage' = stage /\ claim' = claim /\ route' = route
      /\ layers' = layers
  BY DEF packVars
<1>2. Stack(Me, layers')
  BY <1>1 DEF PackInv
<1> QED BY <1>1, <1>2, UnpackKeepsPackInv

LEMMA TopType ==
  ASSUME PackInv
  PROVE  /\ Top \in AnyLayer /\ IsLayer(Top) /\ Genuine(Me, Top)
         /\ Top.t # "plain" => Stack(Me, Tail(layers))
BY StackTop, StackTail DEF PackInv, Top

\* What the envelope is filled with for the layer on top.
LEMMA FilledType ==
  ASSUME PackInv, env \in EnvType, got \in Metadata, at \in Dids, IsJwe(Top), CanFill(Top)
  PROVE  /\ Filled(Top) \in EnvType
         /\ Filled(Top).from = IF Top.t = "auth" THEN Top.skid ELSE env.from
         /\ FilledMeta(Top, got) \in Metadata
         /\ FilledMeta(Top, got).from = IF Top.t = "auth" THEN Top.skid ELSE got.from
         /\ FilledMeta(Top, got).signer = got.signer
         /\ FilledMeta(Top, got).prior = got.prior
<1>1. Top.kids \in Seq(Kids) /\ (Top.t = "auth" => Top.skid \in Kids)
  BY TopType DEF IsLayer, IsJwe
<1>2. Held(at, Top.kids) \in Seq(Kids)
  BY <1>1, HeldType
<1>3. ViewOK
  BY DEF PackInv
<1>4. Top.t = "auth" => Doc(at, Did(Top.skid)).key[Top.skid] \in Keys
  <2>1. SUFFICES ASSUME Top.t = "auth" PROVE Doc(at, Did(Top.skid)).key[Top.skid] \in Keys
    OBVIOUS
  <2>2. Resolves(at, Did(Top.skid)) /\ HasMethod(Doc(at, Did(Top.skid)), Top.skid)
    BY <2>1 DEF CanFill, SenderKnown
  <2>3. Did(Top.skid) \in Dids
    BY <1>1, <2>1, DidType
  <2>4. IsDocument(Doc(at, Did(Top.skid)))
    BY <1>3, <2>2, <2>3, DocType
  <2>5. \A doc, k : IsDocument(doc) /\ HasMethod(doc, k) => doc.key[k] \in Keys
    BY AlgType DEF HasMethod, IsDocument
  <2> QED BY <2>2, <2>4, <2>5
<1>5. Filled(Top) \in EnvType
      /\ Filled(Top).from = IF Top.t = "auth" THEN Top.skid ELSE env.from
  BY <1>1, <1>2, <1>4 DEF Filled, EnvType
<1>6. CASE Top.t = "auth"
  <2>1. FilledMeta(Top, got) = [got EXCEPT !.authenticated = TRUE, !.encrypted = TRUE,
                    !.from = Top.skid, !.kids = Top.kids]
    BY <1>6 DEF FilledMeta
  <2> QED BY <1>1, <1>5, <1>6, <2>1 DEF Metadata
<1>7. CASE Top.t # "auth"
  <2>1. FilledMeta(Top, got) = [got EXCEPT !.anonymous = TRUE, !.kids = Top.kids]
    BY <1>7 DEF FilledMeta
  <2> QED BY <1>1, <1>5, <1>7, <2>1 DEF Metadata
<1> QED BY <1>6, <1>7

LEMMA NothingRead ==
  NoEnv \in EnvType /\ NoMeta \in Metadata
BY DEF NoEnv, NoMeta, EnvType, Metadata

\* The caches learn.
LEMMA EnvInvLearn ==
  ASSUME EnvInv, LearnSome
  PROVE  EnvInv'
<1>1. PICK w \in Watch : Learn(w[1], w[2]) /\ UNCHANGED <<packVars, unpackVars>>
  BY DEF LearnSome
<1>2. ViewOK'
  <2>1. PICK a, d : a = w[1] /\ d = w[2]
    OBVIOUS
  <2>2. view[a][d] < Len(Versions[d]) /\ view' = [view EXCEPT ![a][d] = @ + 1]
    BY <1>1, <2>1 DEF Learn
  <2>3. view \in [Dids -> [Dids -> Nat]] /\ \A b, e \in Dids : view[b][e] \in 1..Len(Versions[e])
    BY DEF EnvInv, PackInv, ViewOK
  <2>4. view' \in [Dids -> [Dids -> Nat]]
    <3>1. view' = [b \in Dids |-> IF b = a THEN [view[a] EXCEPT ![d] = view[a][d] + 1] ELSE view[b]]
      BY <2>2, <2>3
    <3>2. ASSUME NEW b \in Dids, b = a
          PROVE  [view[a] EXCEPT ![d] = view[a][d] + 1] \in [Dids -> Nat]
      <4>1. PICK f \in [Dids -> Nat] : f = view[a]
        BY <2>3, <3>2
      <4>2. CASE d \in Dids
        <5>1. f[d] + 1 \in Nat
          BY <4>2
        <5> QED BY <4>1, <5>1
      <4>3. CASE d \notin Dids
        <5>1. [f EXCEPT ![d] = f[d] + 1] = f
          BY <4>3
        <5> QED BY <4>1, <5>1
      <4> QED BY <4>2, <4>3
    <3>3. \A b \in Dids : view[b] \in [Dids -> Nat]
      BY <2>3
    <3> QED BY <3>1, <3>2, <3>3
  <2>5. ASSUME NEW b \in Dids, NEW e \in Dids PROVE view'[b][e] \in 1..Len(Versions[e])
    <3>1. Len(Versions[e]) \in Nat
      BY DocumentsAssumption
    <3>2. CASE b = a /\ e = d
      <4>1. view'[b][e] = view[b][e] + 1
        BY <2>2, <2>3, <3>2
      <4> QED BY <2>2, <2>3, <3>1, <3>2, <4>1
    <3>3. CASE ~(b = a /\ e = d)
      <4>1. view'[b][e] = view[b][e]
        BY <2>2, <2>3, <3>3
      <4> QED BY <2>3, <4>1
    <3> QED BY <3>2, <3>3
  <2> QED BY <2>4, <2>5 DEF ViewOK
<1>3. /\ choice' = choice /\ stage' = stage /\ layers' = layers /\ claim' = claim /\ route' = route
      /\ phase' = phase /\ at' = at /\ env' = env /\ got' = got /\ ops' = ops /\ trail' = trail
  BY <1>1 DEF packVars, unpackVars
<1>4. Me' = Me /\ Top' = Top
  BY <1>3 DEF Me, Top
<1>5. PackInv'
  BY <1>2, <1>3, <1>4 DEF EnvInv, PackInv
<1>6. ReadInv'
  BY <1>3 DEF EnvInv, ReadInv
<1>7. SenderInv'
  BY <1>3, <1>4 DEF EnvInv, SenderInv, Proven
<1> QED BY <1>5, <1>6, <1>7 DEF EnvInv

LEMMA EnvInvPack ==
  ASSUME EnvInv, PackSome
  PROVE  EnvInv' /\ phase = "sender" /\ phase' = "sender"
<1>1. PackInv /\ Pack
  BY DEF EnvInv, PackSome
<1>2. PackInv' /\ Me' = Me
  BY <1>1, PackInvPack
<1>3. phase' = phase /\ at' = at /\ env' = env /\ got' = got /\ ops' = ops /\ trail' = trail
  BY DEF PackSome, unpackVars
<1>4. stage # "packed"
  BY <1>1 DEF Pack, PackPrior, PackBody, Encrypt, ChooseRoute, WrapLayer, PackError
<1>5. phase = "sender"
  BY <1>4 DEF EnvInv, ReadInv
<1>6. ReadInv'
  BY <1>3, <1>5 DEF EnvInv, ReadInv
<1>7. SenderInv'
  BY <1>3, <1>5 DEF EnvInv, SenderInv
<1> QED BY <1>2, <1>3, <1>5, <1>6, <1>7 DEF EnvInv

LEMMA EnvInvSend ==
  ASSUME EnvInv, Send
  PROVE  EnvInv'
<1>1. /\ stage = "packed" /\ phase = "sender" /\ phase' = "inbox" /\ view' = view
      /\ env' = env /\ got' = got /\ ops' = ops /\ trail' = trail /\ UNCHANGED packVars
  BY DEF Send
<1>2. PackInv' /\ stage' = stage
  BY <1>1, UnpackLeavesPackInv DEF EnvInv, packVars
<1>3. at' \in Dids /\ at' # None
  <2>1. choice.to \in Dids \cup Kids /\ claim.endpoint \in Uris \cup {None}
    BY MeType DEF EnvInv, PackInv, ClaimType
  <2>2. Did(choice.to) \in Dids
    BY <2>1, DidType
  <2>3. claim.endpoint # None => OwnerOf[claim.endpoint] \in Dids
    BY <2>1, EndpointsAssumption
  <2> QED BY <2>2, <2>3, KidsAssumption DEF Send
<1>4. ReadInv'
  BY <1>1, <1>2, <1>3 DEF EnvInv, ReadInv
<1>5. SenderInv'
  BY <1>1 DEF EnvInv, SenderInv
<1> QED BY <1>2, <1>4, <1>5 DEF EnvInv

\* A refused message stays where it is.
LEMMA EnvInvRefuse ==
  ASSUME EnvInv, Refuse, ops' \in Nat, at \in Dids, stage = "packed"
  PROVE  EnvInv'
<1>1. /\ phase' = "refused" /\ view' = view /\ at' = at /\ env' = env /\ got' = got
      /\ trail' = trail /\ UNCHANGED packVars
  BY DEF Refuse
<1>2. PackInv' /\ stage' = stage
  BY <1>1, UnpackLeavesPackInv DEF EnvInv, packVars
<1>3. ReadInv'
  BY <1>1, <1>2, KidsAssumption DEF EnvInv, ReadInv
<1>4. SenderInv'
  BY <1>1 DEF SenderInv
<1> QED BY <1>2, <1>3, <1>4 DEF EnvInv

LEMMA EnvInvOpen ==
  ASSUME EnvInv, Open
  PROVE  EnvInv'
<1>1. /\ phase = "inbox" /\ at \in Dids /\ stage = "packed" /\ env = NoEnv /\ got = NoMeta
      /\ PackInv /\ ReadInv /\ env \in EnvType /\ got \in Metadata
  BY DEF Open, EnvInv, ReadInv, SenderInv
<1>2. CASE Refuse /\ ops' = ops
  BY <1>1, <1>2, EnvInvRefuse DEF ReadInv
<1>3. CASE /\ IsJwe(Top) => CanFill(Top)
           /\ phase' = "anoncrypt"
           /\ IF IsJwe(Top)
                THEN env' = Filled(Top) /\ got' = FilledMeta(Top, got)
                ELSE UNCHANGED <<env, got>>
           /\ UNCHANGED <<view, packVars, at, ops, trail>>
  <2>1. PackInv' /\ layers' = layers /\ stage' = stage /\ Me' = Me /\ at' = at /\ ops' = ops
        /\ trail' = trail
    BY <1>1, <1>3, UnpackLeavesPackInv DEF packVars
  <2>2. NoMeta.from = None /\ NoMeta.signer = None /\ NoMeta.prior = None /\ NoEnv.from = None
    BY DEF NoMeta, NoEnv
  <2>3. /\ env' \in EnvType /\ got' \in Metadata
        /\ got'.from = env'.from /\ got'.signer = None /\ got'.prior = None
        /\ env'.from # None =>
             /\ Top.t = "auth" /\ Top.skid = env'.from
             /\ env'.found = Held(at, Top.kids) /\ env'.found # <<>>
    <3>1. CASE IsJwe(Top)
      <4>1. /\ env' \in EnvType /\ got' \in Metadata
            /\ got'.from = env'.from /\ got'.signer = None /\ got'.prior = None
            /\ env'.from # None => Top.t = "auth" /\ Top.skid = env'.from
        BY <1>1, <1>3, <2>2, <3>1, FilledType
      <4>2. env'.found = Held(at, Top.kids) /\ env'.found # <<>>
        BY <1>3, <3>1 DEF Filled, CanFill
      <4> QED BY <4>1, <4>2
    <3>2. CASE ~IsJwe(Top)
      BY <1>1, <1>3, <2>2, <3>2
    <3> QED BY <3>1, <3>2
  <2>4. Top' = Top
    BY <2>1 DEF Top
  <2>5. ReadInv'
    BY <1>1, <1>3, <2>1, <2>3, KidsAssumption DEF ReadInv
  <2>6. SenderInv'
    BY <1>3, <2>3, <2>4 DEF SenderInv
  <2> QED BY <2>1, <2>5, <2>6 DEF EnvInv
<1> QED BY <1>2, <1>3 DEF Open

LEMMA EnvInvAnoncrypt ==
  ASSUME EnvInv, UnpackAnoncrypt
  PROVE  EnvInv'
<1>1. /\ phase = "anoncrypt" /\ at \in Dids /\ stage = "packed" /\ ops \in Nat /\ ops' = ops + 1
      /\ PackInv /\ ReadInv /\ env \in EnvType /\ got \in Metadata /\ ops' \in Nat
      /\ got.from = env.from /\ got.signer = None /\ got.prior = None
      /\ env.from # None =>
           /\ Top.t = "auth" /\ Top.skid = env.from
           /\ env.found = Held(at, Top.kids) /\ env.found # <<>>
  BY DEF UnpackAnoncrypt, EnvInv, ReadInv, SenderInv
<1>2. CASE Refuse
  BY <1>1, <1>2, EnvInvRefuse
<1>3. CASE /\ Top.t # "anon" /\ phase' = "authcrypt"
           /\ UNCHANGED <<view, packVars, at, env, got, trail>>
  <2>1. PackInv' /\ layers' = layers /\ stage' = stage /\ Me' = Me
    BY <1>1, <1>3, UnpackLeavesPackInv DEF packVars
  <2>2. Top' = Top
    BY <2>1 DEF Top
  <2>3. ReadInv'
    BY <1>1, <1>3, <2>1 DEF ReadInv
  <2>4. SenderInv'
    BY <1>1, <1>3, <2>2 DEF SenderInv
  <2> QED BY <2>1, <2>3, <2>4 DEF EnvInv
<1>4. CASE /\ Top.t = "anon"
           /\ LET rest == Tail(layers)
              IN  IF ForwardHere(rest)
                  THEN /\ layers' = Tail(rest)
                       /\ got' = [Anoncrypted(got) EXCEPT !.rewrapped = TRUE]
                       /\ trail' = Append(trail, rest[1].next)
                       /\ UNCHANGED phase
                  ELSE /\ layers' = rest
                       /\ got' = Anoncrypted(got)
                       /\ phase' = "authcrypt"
                       /\ UNCHANGED trail
           /\ UNCHANGED <<view, choice, stage, claim, route, at, env>>
  <2>1. Stack(Me, Tail(layers)) /\ Top.kids \in Seq(Kids)
    BY <1>1, <1>4, TopType DEF IsLayer, IsJwe
  <2>2. Stack(Me, layers')
    <3>1. CASE ForwardHere(Tail(layers))
      <4>1. Tail(layers)[1].t # "plain"
        BY <3>1 DEF ForwardHere
      <4>2. layers' = Tail(Tail(layers))
        BY <1>4, <3>1
      <4>3. Stack(Me, Tail(Tail(layers)))
        BY <2>1, <4>1, StackTail
      <4> QED BY <4>2, <4>3
    <3>2. CASE ~ForwardHere(Tail(layers))
      BY <1>4, <2>1, <3>2
    <3> QED BY <3>1, <3>2
  <2>3. PackInv' /\ Me' = Me
    BY <1>1, <1>4, <2>2, UnpackKeepsPackInv
  <2>4. /\ Anoncrypted(got) \in Metadata /\ Anoncrypted(got).from = got.from
        /\ Anoncrypted(got).signer = got.signer /\ Anoncrypted(got).prior = got.prior
    BY <1>1, <2>1 DEF Anoncrypted, Metadata
  <2>5. got' \in Metadata /\ got'.from = got.from /\ got'.signer = got.signer
        /\ got'.prior = got.prior /\ phase' \in {"anoncrypt", "authcrypt"}
    <3>1. PICK m \in Metadata : m = Anoncrypted(got)
      BY <2>4
    <3>2. LET n == [m EXCEPT !.rewrapped = TRUE]
          IN  n \in Metadata /\ n.from = m.from /\ n.signer = m.signer /\ n.prior = m.prior
      BY DEF Metadata
    <3> QED BY <1>1, <1>4, <2>4, <3>1, <3>2
  <2>6. env.from = None
    BY <1>1, <1>4
  <2>9. trail' \in Seq(Dids \cup Kids)
    <3>1. trail \in Seq(Dids \cup Kids)
      BY <1>1 DEF ReadInv
    <3>2. CASE ForwardHere(Tail(layers))
      <4>1. /\ IsLayer(Tail(layers)[1]) /\ Tail(layers)[1].t = "forward"
            /\ trail' = Append(trail, Tail(layers)[1].next)
        BY <1>4, <2>1, <3>2, StackTop DEF ForwardHere
      <4>2. Tail(layers)[1].next \in Dids \cup Kids
        BY <4>1 DEF IsLayer, IsJwe
      <4> QED BY <3>1, <4>1, <4>2, AppendProperties
    <3>3. CASE ~ForwardHere(Tail(layers))
      BY <1>4, <3>1, <3>3
    <3> QED BY <3>2, <3>3
  <2>7. ReadInv'
    BY <1>1, <1>4, <2>5, <2>9 DEF ReadInv
  <2>8. SenderInv'
    BY <1>1, <1>4, <2>5, <2>6 DEF SenderInv
  <2> QED BY <2>3, <2>7, <2>8 DEF EnvInv
<1> QED BY <1>2, <1>3, <1>4 DEF UnpackAnoncrypt

\* The envelope with which an authcrypt layer is opened.
LEMMA RefilledType ==
  ASSUME EnvInv, phase = "authcrypt", Top.t = "auth", env.from # None \/ CanFill(Top),
         FromSender(Refilled)
  PROVE  /\ Refilled \in EnvType
         /\ Refilled.from = Top.skid /\ Top.skid \in Kids
         /\ Holds(Me, Top.skid) /\ Refilled.key = Wallet[Me][Top.skid]
         /\ env.from = None => /\ FilledMeta(Top, got) \in Metadata
                               /\ FilledMeta(Top, got).from = Top.skid
                               /\ FilledMeta(Top, got).signer = None
                               /\ FilledMeta(Top, got).prior = None
<1>1. /\ at \in Dids /\ PackInv /\ ReadInv /\ env \in EnvType /\ got \in Metadata
      /\ got.from = env.from /\ got.signer = None /\ got.prior = None
      /\ env.from # None =>
           /\ Top.t = "auth" /\ Top.skid = env.from
           /\ env.found = Held(at, Top.kids) /\ env.found # <<>>
  BY DEF EnvInv, ReadInv, SenderInv
<1>2. Holds(Me, Top.skid) /\ Top.skey = Wallet[Me][Top.skid] /\ Top.skid \in Kids
  BY <1>1, TopType DEF Genuine, IsLayer
<1>3. Refilled.key = Wallet[Me][Top.skid]
  BY <1>2 DEF FromSender
<1>4. CASE env.from # None
  <2>1. Refilled = env
    BY <1>4 DEF Refilled
  <2> QED BY <1>1, <1>2, <1>3, <1>4, <2>1
<1>5. CASE env.from = None
  <2>1. Refilled = Filled(Top) /\ CanFill(Top) /\ IsJwe(Top)
    BY <1>5 DEF Refilled, IsJwe
  <2> QED BY <1>1, <1>2, <1>3, <1>5, <2>1, FilledType
<1> QED BY <1>4, <1>5

LEMMA EnvInvAuthcrypt ==
  ASSUME EnvInv, UnpackAuthcrypt
  PROVE  EnvInv'
<1>1. /\ phase = "authcrypt" /\ at \in Dids /\ stage = "packed" /\ ops \in Nat
      /\ PackInv /\ ReadInv /\ env \in EnvType /\ got \in Metadata
      /\ got.from = env.from /\ got.signer = None /\ got.prior = None
      /\ env.from # None =>
           /\ Top.t = "auth" /\ Top.skid = env.from
           /\ env.found = Held(at, Top.kids) /\ env.found # <<>>
  BY DEF UnpackAuthcrypt, EnvInv, ReadInv, SenderInv
<1>2. CASE /\ Top.t # "auth" /\ phase' = "sign"
           /\ UNCHANGED <<view, packVars, at, env, got, ops, trail>>
  <2>1. PackInv' /\ stage' = stage /\ Me' = Me
    BY <1>1, <1>2, UnpackLeavesPackInv DEF packVars
  <2>2. ReadInv'
    BY <1>1, <1>2, <2>1 DEF ReadInv
  <2>3. SenderInv'
    BY <1>1, <1>2, <2>1 DEF SenderInv, Proven
  <2> QED BY <2>1, <2>2, <2>3 DEF EnvInv
<1> DEFINE known == env.from # None \/ CanFill(Top)
           keys == IF known THEN Tried(Refilled.found) ELSE <<>>
           ok == /\ known
                 /\ ops + Len(keys) < OpsLimit
                 /\ AllDecrypt(Refilled.found)
                 /\ FromSender(Refilled)
<1>3. CASE /\ Top.t = "auth"
           /\ ops' = ops + Len(keys)
           /\ \/ ~ok /\ Refuse
              \/ /\ ok
                 /\ env' = Refilled
                 /\ got' = IF env.from = None THEN FilledMeta(Top, got) ELSE got
                 /\ layers' = Tail(layers)
                 /\ phase' = "sign"
                 /\ UNCHANGED <<view, choice, stage, claim, route, at, trail>>
  <2>1. ops' \in Nat
    <3>1. known => Tried(Refilled.found) \in Seq(Kids)
      <4>1. SUFFICES ASSUME known PROVE Tried(Refilled.found) \in Seq(Kids)
        OBVIOUS
      <4>2. Refilled \in EnvType /\ Refilled.found # <<>>
        <5>1. CASE env.from # None
          BY <1>1, <5>1 DEF Refilled
        <5>2. CASE env.from = None
          <6>1. CanFill(Top) /\ IsJwe(Top) /\ Refilled = Filled(Top)
            BY <1>3, <4>1, <5>2 DEF Refilled, IsJwe
          <6>2. Filled(Top).found # <<>>
            BY <6>1 DEF Filled, CanFill
          <6> QED BY <1>1, <6>1, <6>2, FilledType
        <5> QED BY <5>1, <5>2
      <4>3. PICK found \in Seq(Kids) : found = Refilled.found /\ found # <<>>
        BY <4>2 DEF EnvType
      <4>4. SubSeq(found, 1, 1) \in Seq(Kids)
        BY <4>3
      <4> QED BY <4>3, <4>4 DEF Tried
    <3>2. keys \in Seq(Kids)
      BY <3>1
    <3>3. Len(keys) \in Nat
      <4> HIDE DEF keys
      <4> QED BY <3>2
    <3> HIDE DEF keys
    <3> QED BY <1>1, <1>3, <3>3
  <2>2. CASE Refuse
    BY <1>1, <2>1, <2>2, EnvInvRefuse
  <2>3. CASE /\ ok
             /\ env' = Refilled
             /\ got' = IF env.from = None THEN FilledMeta(Top, got) ELSE got
             /\ layers' = Tail(layers)
             /\ phase' = "sign"
             /\ UNCHANGED <<view, choice, stage, claim, route, at, trail>>
    <3>1. Stack(Me, Tail(layers))
      BY <1>1, <1>3, TopType
    <3>2. PackInv' /\ Me' = Me
      BY <1>1, <2>3, <3>1, UnpackKeepsPackInv
    <3>3. /\ env' \in EnvType
          /\ env'.from = Top.skid /\ Top.skid \in Kids
          /\ Holds(Me, Top.skid) /\ env'.key = Wallet[Me][Top.skid]
          /\ env.from = None => /\ FilledMeta(Top, got) \in Metadata
                                /\ FilledMeta(Top, got).from = Top.skid
                                /\ FilledMeta(Top, got).signer = None
                                /\ FilledMeta(Top, got).prior = None
      BY <1>1, <1>3, <2>3, RefilledType
    <3>4. got' \in Metadata /\ got'.from = Top.skid /\ got'.signer = None /\ got'.prior = None
      <4> HIDE DEF ok
      <4>1. CASE env.from = None
        <5>1. got' = FilledMeta(Top, got)
          BY <2>3, <4>1
        <5> QED BY <3>3, <4>1, <5>1
      <4>2. CASE env.from # None
        <5>1. got' = got
          BY <2>3, <4>2
        <5> QED BY <1>1, <4>2, <5>1
      <4> QED BY <4>1, <4>2
    <3>5. phase' = "sign" /\ at' = at /\ trail' = trail /\ stage' = stage
      BY <2>3
    <3>6. ReadInv'
      BY <1>1, <2>1, <3>3, <3>4, <3>5 DEF ReadInv
    <3>7. SenderInv'
      BY <3>2, <3>3, <3>4, <3>5 DEF SenderInv, Proven
    <3> QED BY <3>2, <3>6, <3>7 DEF EnvInv
  <2> QED BY <1>3, <2>2, <2>3
<1> QED BY <1>2, <1>3 DEF UnpackAuthcrypt

LEMMA EnvInvSign ==
  ASSUME EnvInv, UnpackSign
  PROVE  EnvInv'
<1>1. /\ phase = "sign" /\ at \in Dids /\ stage = "packed" /\ ops \in Nat
      /\ PackInv /\ ReadInv /\ env \in EnvType /\ got \in Metadata /\ Proven
  BY DEF UnpackSign, EnvInv, ReadInv, SenderInv
<1>2. CASE /\ phase' = "plaintext"
           /\ UNCHANGED <<view, packVars, at, env, got, ops, trail>>
  <2>1. PackInv' /\ stage' = stage /\ Me' = Me
    BY <1>1, <1>2, UnpackLeavesPackInv DEF packVars
  <2>2. ReadInv'
    BY <1>1, <1>2, <2>1 DEF ReadInv
  <2>3. SenderInv'
    BY <1>1, <1>2, <2>1 DEF SenderInv, Proven
  <2> QED BY <2>1, <2>2, <2>3 DEF EnvInv
<1>3. CASE /\ Top.t = "sign"
           /\ layers' = Tail(layers)
           /\ got' = [got EXCEPT !.authenticated = TRUE, !.signer = Top.kid]
           /\ phase' = "plaintext"
           /\ UNCHANGED <<view, choice, stage, claim, route, at, env, ops, trail>>
  <2>1. Stack(Me, Tail(layers)) /\ Top.kid \in Kids /\ Holds(Me, Top.kid)
    BY <1>1, <1>3, TopType DEF IsLayer, IsJwe, Genuine
  <2>2. PackInv' /\ Me' = Me
    BY <1>1, <1>3, <2>1, UnpackKeepsPackInv
  <2>3. /\ got' \in Metadata /\ got'.from = got.from /\ got'.signer = Top.kid
        /\ got'.prior = got.prior
    BY <1>1, <1>3, <2>1 DEF Metadata
  <2>4. ReadInv'
    BY <1>1, <1>3, <2>3 DEF ReadInv
  <2>5. SenderInv'
    BY <1>1, <1>3, <2>1, <2>2, <2>3 DEF SenderInv, Proven
  <2> QED BY <2>2, <2>4, <2>5 DEF EnvInv
<1>4. CASE Refuse /\ ops' = ops
  BY <1>1, <1>4, EnvInvRefuse
<1> QED BY <1>2, <1>3, <1>4 DEF UnpackSign

LEMMA EnvInvPlaintext ==
  ASSUME EnvInv, UnpackPlaintext
  PROVE  EnvInv'
<1>1. /\ phase = "plaintext" /\ at \in Dids /\ stage = "packed" /\ ops \in Nat
      /\ PackInv /\ ReadInv /\ env \in EnvType /\ got \in Metadata /\ Proven
      /\ Top.t = "plain" /\ UNCHANGED <<view, packVars, at, env, ops, trail>>
  BY DEF UnpackPlaintext, EnvInv, ReadInv, SenderInv
<1>2. PackInv' /\ stage' = stage /\ Me' = Me
  BY <1>1, UnpackLeavesPackInv DEF packVars
<1>3. CASE phase' = "opened"
           /\ got' = [got EXCEPT !.prior = IF Top.prior = None THEN None ELSE Top.prior.kid]
  <2>1. Top.prior # None => Top.prior.kid \in Kids /\ Holds(Me, Top.prior.kid)
    BY <1>1, TopType DEF IsLayer, IsJwe, Genuine
  <2>2. PICK p \in Kids \cup {None} :
          /\ p = IF Top.prior = None THEN None ELSE Top.prior.kid
          /\ p # None => Holds(Me, p)
    BY <2>1
  <2>3. got' \in Metadata /\ got'.from = got.from /\ got'.signer = got.signer /\ got'.prior = p
    BY <1>1, <1>3, <2>2 DEF Metadata
  <2>4. ReadInv'
    BY <1>1, <1>2, <1>3, <2>3 DEF ReadInv
  <2>5. SenderInv'
    BY <1>1, <1>2, <1>3, <2>2, <2>3 DEF SenderInv, Proven
  <2> QED BY <1>2, <2>4, <2>5 DEF EnvInv
<1>4. CASE phase' = "refused" /\ got' = got
  <2>1. ReadInv'
    BY <1>1, <1>2, <1>4 DEF ReadInv
  <2>2. SenderInv'
    BY <1>4 DEF SenderInv
  <2> QED BY <1>2, <2>1, <2>2 DEF EnvInv
<1> QED BY <1>3, <1>4 DEF UnpackPlaintext

LEMMA EnvInvRelay ==
  ASSUME EnvInv, Relay
  PROVE  EnvInv'
<1>1. /\ phase = "plaintext" /\ at \in Dids /\ stage = "packed" /\ ops \in Nat
      /\ PackInv /\ ReadInv /\ env \in EnvType /\ got \in Metadata /\ Top.t = "forward"
      /\ trail \in Seq(Dids \cup Kids)
  BY DEF Relay, RelayAtMediator, ForwardForClient, EnvInv, ReadInv
<1>2. CASE RelayAtMediator
  <2>1. /\ phase' = "inbox" /\ at' = Top.next /\ trail' = Append(trail, Top.next)
        /\ layers' = Tail(layers) /\ env' = NoEnv /\ got' = NoMeta /\ ops' = 0
        /\ UNCHANGED <<view, choice, stage, claim, route>>
    BY <1>2 DEF RelayAtMediator
  <2>2. Stack(Me, Tail(layers)) /\ Top.next \in Dids \cup Kids
    BY <1>1, TopType DEF IsLayer, IsJwe
  <2>3. PackInv' /\ Me' = Me
    BY <1>1, <2>1, <2>2, UnpackKeepsPackInv
  <2>4. trail' \in Seq(Dids \cup Kids)
    BY <1>1, <2>1, <2>2
  <2>5. ReadInv'
    BY <1>1, <2>1, <2>2, <2>4, NothingRead, KidsAssumption DEF ReadInv
  <2>6. SenderInv'
    BY <2>1 DEF SenderInv
  <2> QED BY <2>3, <2>5, <2>6 DEF EnvInv
<1>3. CASE ForwardForClient
  <2>1. phase' = "forward" /\ UNCHANGED <<view, packVars, at, env, got, ops, trail>>
    BY <1>3 DEF ForwardForClient
  <2>2. PackInv' /\ stage' = stage /\ Me' = Me
    BY <1>1, <2>1, UnpackLeavesPackInv DEF packVars
  <2>3. ReadInv'
    BY <1>1, <2>1, <2>2 DEF ReadInv
  <2>4. SenderInv'
    BY <2>1 DEF SenderInv
  <2> QED BY <2>2, <2>3, <2>4 DEF EnvInv
<1> QED BY <1>2, <1>3 DEF Relay

\* The beginning.
LEMMA EnvInvInit ==
  EnvelopeInit => EnvInv
<1>1. SUFFICES ASSUME EnvelopeInit PROVE EnvInv
  OBVIOUS
<1>2. /\ view = [a \in Dids |-> [d \in Dids |-> 1]] /\ choice \in Requests /\ stage = "prior"
      /\ layers = <<PlainLayer(None)>> /\ claim = NoClaim
      /\ route = [keys |-> <<>>, next |-> None]
      /\ phase = "sender" /\ at = None /\ env = NoEnv /\ got = NoMeta /\ ops = 0 /\ trail = <<>>
  BY <1>1 DEF EnvelopeInit, PackInit
<1>3. ViewOK
  <2>1. \A d \in Dids : Len(Versions[d]) \in Nat /\ 1 \in 1..Len(Versions[d])
    BY DocumentsAssumption, VersionsAssumption
  <2> QED BY <1>2, <2>1 DEF ViewOK
<1>4. Stack(Me, layers)
  <2>1. PICK l : l = PlainLayer(None)
    OBVIOUS
  <2>2. l \in LayersOf(Me) /\ l.t = "plain"
    BY <2>1, PlainLayerIsLayer DEF PlainLayer
  <2>3. <<l>> \in Seq(LayersOf(Me)) /\ <<l>> # <<>> /\ <<l>>[Len(<<l>>)] = l
    BY <2>2
  <2> QED BY <1>2, <2>1, <2>2, <2>3 DEF Stack
<1>5. claim \in ClaimType /\ route \in RouteType
  BY <1>2 DEF ClaimType, RouteType, NoClaim
<1>6. PackInv
  BY <1>2, <1>3, <1>4, <1>5 DEF PackInv
<1>7. ReadInv
  BY <1>2, NothingRead DEF ReadInv
<1>8. SenderInv
  BY <1>2 DEF SenderInv
<1> QED BY <1>6, <1>7, <1>8 DEF EnvInv

LEMMA EnvInvNext ==
  EnvInv /\ [EnvelopeNext]_envelopeVars => EnvInv'
<1>1. SUFFICES ASSUME EnvInv, [EnvelopeNext]_envelopeVars PROVE EnvInv'
  OBVIOUS
<1>2. CASE UNCHANGED envelopeVars
  <2>1. view' = view /\ UNCHANGED packVars
    BY <1>2 DEF envelopeVars
  <2>2. /\ phase' = phase /\ at' = at /\ env' = env /\ got' = got /\ ops' = ops
        /\ trail' = trail
    BY <1>2 DEF envelopeVars, unpackVars
  <2>3. PackInv' /\ Me' = Me /\ layers' = layers /\ stage' = stage
    BY <1>1, <2>1, UnpackLeavesPackInv DEF EnvInv, packVars
  <2>4. Top' = Top
    BY <2>3 DEF Top
  <2>5. ReadInv'
    BY <1>1, <2>2, <2>3 DEF EnvInv, ReadInv
  <2>6. SenderInv'
    BY <1>1, <2>2, <2>3, <2>4 DEF EnvInv, SenderInv, Proven
  <2> QED BY <2>3, <2>5, <2>6 DEF EnvInv
<1>3. CASE Unpack
  BY <1>1, <1>3, EnvInvOpen, EnvInvAnoncrypt, EnvInvAuthcrypt, EnvInvSign,
     EnvInvPlaintext, EnvInvRelay DEF Unpack
<1> QED BY <1>1, <1>2, <1>3, EnvInvPack, EnvInvSend, EnvInvLearn DEF EnvelopeNext

LEMMA EnvInvHolds ==
  EnvelopeSpec => []EnvInv
BY EnvInvInit, EnvInvNext, PTL DEF EnvelopeSpec

\* Each variable holds what the code can put there, whatever the documents and
\* the routes are: layers are whole, every JWE is for some key, and a message
\* is never left without its plaintext.
THEOREM EnvelopeTypeCorrect ==
  EnvelopeSpec => []EnvelopeTypeOK
<1>1. EnvInv => EnvelopeTypeOK
  <2>1. SUFFICES ASSUME EnvInv PROVE EnvelopeTypeOK
    OBVIOUS
  <2>2. layers # <<>> /\ \A i \in DOMAIN layers : IsLayer(layers[i])
    BY <2>1, StackTop DEF EnvInv, PackInv, Stack
  <2> QED BY <2>1, <2>2 DEF EnvInv, PackInv, ViewOK, ReadInv, ClaimType, RouteType, EnvType,
                            EnvelopeTypeOK
<1> QED BY <1>1, EnvInvHolds, PTL

\* Message::unpack reports as sender, signer and issuer of from_prior only keys
\* that the agent who packed the message has the secrets of, and the public key
\* it read for the sender is the public half of that very secret.
THEOREM AttributionIsProven ==
  EnvelopeSpec => []SenderIsProven
<1>1. EnvInv => SenderIsProven
  <2>1. SUFFICES ASSUME EnvInv, phase = "opened"
                 PROVE  /\ \A k \in {got.from, got.signer, got.prior} \ {None} :
                             k \in DOMAIN Wallet[Me]
                        /\ got.from # None => env.key = Wallet[Me][got.from]
    BY DEF SenderIsProven
  <2>2. Proven
    BY <2>1 DEF EnvInv, SenderInv
  <2> QED BY <2>2 DEF Proven, Holds
<1> QED BY <1>1, EnvInvHolds, PTL

-----------------------------------------------------------------------------
(* Who can open a message *)

\* Taking a layer off leaves the JWE for the addressee in place, unless it was
\* that one: then nothing is encrypted any more.
LEMMA SealedOff ==
  ASSUME NEW a, NEW ls, Stack(a, ls), NEW kids, SealedFor(ls, kids),
         ls[1].t # "plain"
  PROVE  SealedFor(Tail(ls), kids) \/ (Bare(Tail(ls)) /\ IsJwe(ls[1]) /\ ls[1].kids = kids)
<1>1. /\ Stack(a, Tail(ls)) /\ Len(Tail(ls)) = Len(ls) - 1 /\ Len(ls) \in Nat /\ Len(ls) > 1
      /\ \A i \in 1..Len(Tail(ls)) : Tail(ls)[i] = ls[i + 1]
  BY StackTail
<1>2. DOMAIN ls = 1..Len(ls) /\ DOMAIN Tail(ls) = 1..Len(Tail(ls))
  BY <1>1, StackTop
<1>3. PICK c \in DOMAIN ls :
        /\ IsJwe(ls[c]) /\ ls[c].kids = kids
        /\ \A i \in DOMAIN ls : i > c => ls[i].t \in {"sign", "plain"}
  BY DEF SealedFor
<1>4. CASE c # 1
  <2>1. PICK b \in DOMAIN Tail(ls) : b = c - 1
    BY <1>1, <1>2, <1>4
  <2>2. Tail(ls)[b] = ls[c]
    BY <1>1, <1>2, <2>1
  <2>3. ASSUME NEW i \in DOMAIN Tail(ls), i > b
        PROVE  Tail(ls)[i].t \in {"sign", "plain"}
    <3>1. i + 1 \in DOMAIN ls /\ i + 1 > c /\ Tail(ls)[i] = ls[i + 1]
      BY <1>1, <1>2, <2>1, <2>3
    <3> QED BY <1>3, <3>1
  <2> QED BY <1>3, <2>2, <2>3 DEF SealedFor
<1>5. CASE c = 1
  <2>1. ASSUME NEW i \in DOMAIN Tail(ls) PROVE Tail(ls)[i].t \in {"sign", "plain"}
    <3>1. i + 1 \in DOMAIN ls /\ i + 1 > c /\ Tail(ls)[i] = ls[i + 1]
      BY <1>1, <1>2, <1>5
    <3> QED BY <1>3, <3>1
  <2> QED BY <1>3, <1>5, <2>1 DEF Bare
<1> QED BY <1>4, <1>5

LEMMA BareTail ==
  ASSUME NEW a, NEW ls, Stack(a, ls), Bare(ls), ls[1].t # "plain"
  PROVE  Bare(Tail(ls))
<1>1. /\ Stack(a, Tail(ls)) /\ Len(Tail(ls)) = Len(ls) - 1 /\ Len(ls) \in Nat /\ Len(ls) > 1
      /\ \A i \in 1..Len(Tail(ls)) : Tail(ls)[i] = ls[i + 1]
  BY StackTail
<1>2. DOMAIN ls = 1..Len(ls) /\ DOMAIN Tail(ls) = 1..Len(Tail(ls))
  BY <1>1, StackTop
<1>3. ASSUME NEW i \in DOMAIN Tail(ls) PROVE Tail(ls)[i].t \in {"sign", "plain"}
  <2>1. i + 1 \in DOMAIN ls /\ Tail(ls)[i] = ls[i + 1]
    BY <1>1, <1>2
  <2> QED BY <2>1 DEF Bare
<1> QED BY <1>3 DEF Bare

LEMMA BareConcat ==
  ASSUME NEW T, NEW q \in Seq(T), NEW ls \in Seq(T), Bare(q), Bare(ls)
  PROVE  Bare(q \o ls)
<1>1. PICK j : j = q \o ls
  OBVIOUS
<1>2. /\ j \in Seq(T) /\ Len(j) = Len(q) + Len(ls)
      /\ \A i \in 1..Len(q) : j[i] = q[i]
      /\ \A i \in 1..Len(ls) : j[Len(q) + i] = ls[i]
  BY <1>1, ConcatIs
<1>3. /\ DOMAIN q = 1..Len(q) /\ DOMAIN ls = 1..Len(ls) /\ DOMAIN j = 1..Len(j)
      /\ Len(q) \in Nat /\ Len(ls) \in Nat
  BY <1>2
<1>4. ASSUME NEW i \in DOMAIN j PROVE j[i].t \in {"sign", "plain"}
  <2>1. CASE i \in 1..Len(q)
    BY <1>2, <1>3, <2>1 DEF Bare
  <2>2. CASE i \notin 1..Len(q)
    <3>1. PICK k \in 1..Len(ls) : i = Len(q) + k
      <4>1. i - Len(q) \in 1..Len(ls) /\ i = Len(q) + (i - Len(q))
        BY <1>2, <1>3, <2>2
      <4> QED BY <4>1
    <3>2. j[i] = ls[k]
      BY <1>2, <3>1
    <3> QED BY <1>3, <3>1, <3>2 DEF Bare
  <2> QED BY <2>1, <2>2
<1> QED BY <1>1, <1>4 DEF Bare

LEMMA BareUnder ==
  ASSUME NEW a, NEW l, l.t = "sign", NEW ls, Stack(a, ls), Bare(ls)
  PROVE  Bare(<<l>> \o ls)
<1>1. PICK U : U = LayersOf(a) \cup {l}
  OBVIOUS
<1>2. ls \in Seq(U)
  <2>1. PICK T : T = LayersOf(a)
    OBVIOUS
  <2>2. ls \in Seq(T) /\ T \subseteq U
    BY <1>1, <2>1 DEF Stack
  <2> QED BY <2>2
<1>3. <<l>> \in Seq(U)
  <2>1. l \in U
    BY <1>1
  <2> QED BY <2>1
<1>4. Bare(<<l>>)
  <2>1. \A i \in DOMAIN <<l>> : <<l>>[i] = l
    OBVIOUS
  <2> QED BY <2>1 DEF Bare
<1> QED BY <1>2, <1>3, <1>4, BareConcat

\* What is put around does not unseal.
LEMMA SealedUnder ==
  ASSUME NEW a, NEW q \in Seq(LayersOf(a)), NEW ls, Stack(a, ls), NEW kids,
         \/ SealedFor(ls, kids)
         \/ Bare(ls) /\ q # <<>> /\ IsJwe(q[Len(q)]) /\ q[Len(q)].kids = kids
  PROVE  SealedFor(q \o ls, kids)
<1>1. PICK T : T = LayersOf(a)
  OBVIOUS
<1>2. q \in Seq(T) /\ ls \in Seq(T) /\ ls # <<>>
  BY <1>1 DEF Stack
<1>3. PICK j : j = q \o ls
  OBVIOUS
<1>4. /\ j \in Seq(T) /\ Len(j) = Len(q) + Len(ls)
      /\ \A i \in 1..Len(q) : j[i] = q[i]
      /\ \A i \in 1..Len(ls) : j[Len(q) + i] = ls[i]
  BY <1>2, <1>3, ConcatIs
<1>5. /\ Len(q) \in Nat /\ Len(ls) \in Nat /\ DOMAIN j = 1..Len(j) /\ DOMAIN ls = 1..Len(ls)
  BY <1>2, <1>4
<1>6. \A i \in DOMAIN j : i > Len(q) => i - Len(q) \in DOMAIN ls /\ j[i] = ls[i - Len(q)]
  <2>1. ASSUME NEW i \in DOMAIN j, i > Len(q)
        PROVE  i - Len(q) \in DOMAIN ls /\ j[i] = ls[i - Len(q)]
    <3>1. PICK k \in 1..Len(ls) : k = i - Len(q)
      BY <1>4, <1>5, <2>1
    <3>2. i = Len(q) + k
      BY <1>5, <3>1
    <3> QED BY <1>4, <1>5, <3>1, <3>2
  <2> QED BY <2>1
<1>7. CASE SealedFor(ls, kids)
  <2>1. PICK c \in DOMAIN ls :
          /\ IsJwe(ls[c]) /\ ls[c].kids = kids
          /\ \A i \in DOMAIN ls : i > c => ls[i].t \in {"sign", "plain"}
    BY <1>7 DEF SealedFor
  <2>2. PICK b \in DOMAIN j : b = Len(q) + c
    BY <1>4, <1>5
  <2>3. j[b] = ls[c]
    BY <1>4, <1>5, <2>2
  <2>4. ASSUME NEW i \in DOMAIN j, i > b PROVE j[i].t \in {"sign", "plain"}
    <3>1. PICK k \in DOMAIN ls : k = i - Len(q) /\ j[i] = ls[k]
      BY <1>5, <1>6, <2>2, <2>4
    <3>2. k > c
      BY <1>5, <2>2, <2>4, <3>1
    <3> QED BY <2>1, <3>1, <3>2
  <2>5. SealedFor(j, kids)
    BY <2>1, <2>3, <2>4 DEF SealedFor
  <2> QED BY <1>3, <2>5
<1>8. CASE Bare(ls) /\ q # <<>> /\ IsJwe(q[Len(q)]) /\ q[Len(q)].kids = kids
  <2>1. PICK b \in DOMAIN j : b = Len(q) /\ b \in 1..Len(q)
    BY <1>2, <1>4, <1>5, <1>8
  <2>2. j[b] = q[Len(q)]
    BY <1>4, <2>1
  <2>3. ASSUME NEW i \in DOMAIN j, i > b PROVE j[i].t \in {"sign", "plain"}
    <3>1. PICK k \in DOMAIN ls : j[i] = ls[k]
      BY <1>6, <2>1, <2>3
    <3> QED BY <1>8, <3>1 DEF Bare
  <2>4. SealedFor(j, kids)
    BY <1>8, <2>2, <2>3 DEF SealedFor
  <2> QED BY <1>3, <2>4
<1> QED BY <1>7, <1>8

\* Whoever has a key that the message was made for is its addressee.
LEMMA OnlyAddressee ==
  ASSUME PrivateKeys, NEW a \in Dids, NEW d \in Dids, NEW kids \in Seq(Kids), KidsOf(d, kids),
         Held(a, kids) # <<>>
  PROVE  a = d
<1>1. PICK v \in 1..Len(Versions[d]) :
        Versions[d][v] # NoDoc /\ ToSet(kids) \subseteq ToSet(Versions[d][v].agree)
  BY DEF KidsOf
<1>2. ToSet(Held(a, kids)) # {} /\ ToSet(Held(a, kids)) = ToSet(kids) \cap DOMAIN Wallet[a]
  BY HeldType, ToSetFacts
<1> QED BY <1>1, <1>2 DEF PrivateKeys

\* Layers, addressee and keys unchanged: SealInv stays, wherever the message is.
Sealed == SealedFor(layers, claim.kids)

LEMMA SealInvKeeps ==
  ASSUME SealInv, EnvInv, phase # "sender", layers' = layers, choice' = choice,
         stage' = stage, claim' = claim, phase' # "sender",
         phase' = "inbox" => Sealed,
         Bare(layers) /\ ~Sealed => at' = at
  PROVE  SealInv'
<1>1. stage = "packed"
  BY DEF EnvInv, ReadInv
<1>2. KidsOf(Did(choice.to), claim.kids)
  BY <1>1 DEF SealInv
<1>3. Sealed \/ (Bare(layers) /\ at = Did(choice.to))
  BY <1>1 DEF SealInv, Sealed
<1>4. CASE Sealed
  <2>1. SealedFor(layers', claim'.kids)
    BY <1>4 DEF Sealed
  <2> QED BY <1>1, <1>2, <2>1 DEF SealInv
<1>5. CASE ~Sealed
  <2>1. Bare(layers) /\ at' = Did(choice.to) /\ phase' # "inbox"
    BY <1>3, <1>5
  <2>2. Bare(layers')
    BY <2>1
  <2> QED BY <1>1, <1>2, <2>1, <2>2 DEF SealInv
<1> QED BY <1>4, <1>5

\* A layer has been taken off.
LEMMA SealInvTakes ==
  ASSUME SealInv, EnvInv, phase # "sender", phase' # "sender", choice' = choice,
         stage' = stage, claim' = claim,
         \/ SealedFor(layers', claim.kids)
         \/ Bare(layers') /\ at' = Did(choice.to) /\ phase' # "inbox"
  PROVE  SealInv'
<1>1. stage = "packed"
  BY DEF EnvInv, ReadInv
<1>2. KidsOf(Did(choice.to), claim.kids)
  BY <1>1 DEF SealInv
<1> QED BY <1>1, <1>2 DEF SealInv

LEMMA SealInvPack ==
  ASSUME SealInv, EnvInv, PackSome
  PROVE  SealInv'
<1>1. phase = "sender" /\ phase' = "sender" /\ Pack /\ PackInv
  BY EnvInvPack DEF PackSome, EnvInv
<1>2. Stack(Me, layers) /\ choice' = choice
  BY <1>1 DEF PackInv, Pack, PackPrior, PackBody, Encrypt, ChooseRoute, WrapLayer, PackError, Fail
<1>3. CASE PackPrior
  <2>1. Bare(layers) /\ stage' = "body"
    BY <1>3 DEF SealInv, PackPrior
  <2>2. Bare(layers')
    <3>1. CASE layers' = layers
      BY <2>1, <3>1
    <3>2. CASE layers' = <<PlainLayer(SignCompact(Head(Signers(Me, choice.prior))))>>
      <4>1. PICK l : layers' = <<l>> /\ l.t = "plain"
        BY <3>2 DEF PlainLayer
      <4>2. \A i \in DOMAIN <<l>> : <<l>>[i].t = "plain"
        BY <4>1
      <4> QED BY <4>1, <4>2 DEF Bare
    <3> QED BY <1>3, <3>1, <3>2 DEF PackPrior
  <2> QED BY <2>1, <2>2 DEF SealInv
<1>4. CASE PackBody
  <2>1. Bare(layers) /\ stage' = "encrypt"
    BY <1>4 DEF SealInv, PackBody
  <2>2. Bare(layers')
    <3>1. CASE layers' = layers
      BY <2>1, <3>1
    <3>2. CASE choice.signBy # None
      <4>1. PICK kid, l : kid = Head(Signers(Me, choice.signBy)) /\ l = SignLayer(kid, Secret(Me, kid))
        OBVIOUS
      <4>2. l.t = "sign" /\ layers' = <<l>> \o layers
        BY <1>4, <3>2, <4>1 DEF SignLayer, PackBody
      <4>3. Bare(<<l>> \o layers)
        BY <1>2, <2>1, <4>2, BareUnder
      <4> QED BY <4>2, <4>3
    <3> QED BY <1>4, <3>1, <3>2 DEF PackBody
  <2> QED BY <2>1, <2>2 DEF SealInv
<1>5. CASE Encrypt
  <2>1. Bare(layers) /\ stage' = "route" /\ CanEncrypt /\ layers' = Jwes \o layers
    BY <1>5 DEF SealInv, Encrypt
  <2>2. PICK kids : kids = IF choice.from # None THEN AuthKids(Me, choice.from, choice.to)
                                                 ELSE AnonKids(Me, choice.to)
    OBVIOUS
  <2>3. claim'.kids = kids
    <3>1. claim \in ClaimType
      BY <1>1 DEF PackInv
    <3> QED BY <1>5, <2>2, <3>1 DEF Encrypt, ClaimType
  <2>4. /\ Jwes \in Seq(LayersOf(Me)) /\ KidsOf(Did(choice.to), kids) /\ Len(Jwes) \in 1..2
        /\ IsJwe(Jwes[Len(Jwes)]) /\ Jwes[Len(Jwes)].kids = kids
    BY <1>1, <2>1, <2>2, JwesType
  <2>5. Jwes # <<>>
    <3>1. Len(<<>>) \notin 1..2
      OBVIOUS
    <3> QED BY <2>4, <3>1
  <2>6. SealedFor(Jwes \o layers, kids)
    BY <1>2, <2>1, <2>4, <2>5, SealedUnder
  <2> QED BY <1>2, <2>1, <2>3, <2>4, <2>6 DEF SealInv
<1>6. CASE ChooseRoute
  <2>1. /\ stage = "route" /\ stage' \in {"packed", "wrap"} /\ layers' = layers
        /\ claim'.kids = claim.kids
    <3>1. claim \in ClaimType
      BY <1>1 DEF PackInv
    <3> QED BY <1>6, <3>1 DEF ChooseRoute, ClaimType
  <2>2. KidsOf(Did(choice.to), claim.kids) /\ SealedFor(layers, claim.kids)
    BY <1>1, <2>1 DEF SealInv
  <2> QED BY <1>2, <2>1, <2>2 DEF SealInv
<1>7. CASE WrapLayer
  <2>1. /\ stage = "wrap" /\ stage' \in {"packed", "wrap"} /\ claim' = claim
        /\ layers' = <<Anoncrypt(Me, Last(route.keys)), ForwardLayer(route.next)>> \o layers
    BY <1>7 DEF WrapLayer
  <2>2. KidsOf(Did(choice.to), claim.kids) /\ SealedFor(layers, claim.kids)
    BY <1>1, <2>1 DEF SealInv
  <2>3. <<Anoncrypt(Me, Last(route.keys)), ForwardLayer(route.next)>> \in Seq(LayersOf(Me))
    BY <1>1, <1>7, WrapType
  <2>4. SealedFor(layers', claim.kids)
    BY <1>2, <2>1, <2>2, <2>3, SealedUnder
  <2> QED BY <1>2, <2>1, <2>2, <2>4 DEF SealInv
<1>8. CASE PackError
  BY <1>8 DEF PackError, Fail, SealInv
<1> QED BY <1>1, <1>3, <1>4, <1>5, <1>6, <1>7, <1>8 DEF Pack

LEMMA SealInvSend ==
  ASSUME SealInv, EnvInv, Send
  PROVE  SealInv'
<1>1. /\ stage = "packed" /\ phase = "sender" /\ stage' = stage /\ layers' = layers
      /\ claim' = claim /\ choice' = choice
  BY DEF Send, packVars
<1>2. KidsOf(Did(choice.to), claim.kids) /\ SealedFor(layers, claim.kids)
  BY <1>1 DEF SealInv
<1> QED BY <1>1, <1>2 DEF SealInv

\* The JWE for the addressee is opened by nobody else.
LEMMA OpenedByAddressee ==
  ASSUME PrivateKeys, SealInv, EnvInv, phase # "sender", phase # "inbox",
         IsJwe(Top), Top.t # "plain", Held(at, Top.kids) # <<>>
  PROVE  \/ SealedFor(Tail(layers), claim.kids)
         \/ Bare(Tail(layers)) /\ at = Did(choice.to)
<1>1. PackInv /\ at \in Dids /\ Stack(Me, layers) /\ stage = "packed"
  BY DEF EnvInv, PackInv, ReadInv
<1>2. Did(choice.to) \in Dids /\ KidsOf(Did(choice.to), claim.kids) /\ claim.kids \in Seq(Kids)
  BY <1>1, MeType, DidType DEF SealInv, PackInv, ClaimType
<1>3. ~Bare(layers)
  <2>1. 1 \in DOMAIN layers
    BY <1>1, StackTop
  <2> QED BY <2>1 DEF Bare, IsJwe, Top
<1>4. SealedFor(layers, claim.kids)
  BY <1>1, <1>3 DEF SealInv
<1>5. SealedFor(Tail(layers), claim.kids) \/ (Bare(Tail(layers)) /\ Top.kids = claim.kids)
  BY <1>1, <1>4, SealedOff DEF Top
<1>6. Top.kids = claim.kids => at = Did(choice.to)
  BY <1>1, <1>2, OnlyAddressee
<1> QED BY <1>5, <1>6

\* A layer that is no JWE does not matter.
LEMMA OthersDoNotSeal ==
  ASSUME SealInv, EnvInv, phase # "sender", phase # "inbox", ~IsJwe(Top), Top.t # "plain"
  PROVE  \/ SealedFor(Tail(layers), claim.kids)
         \/ Bare(Tail(layers)) /\ at = Did(choice.to) /\ Top.t = "sign"
<1>1. Stack(Me, layers) /\ stage = "packed"
  BY DEF EnvInv, PackInv, ReadInv
<1>2. CASE SealedFor(layers, claim.kids)
  BY <1>1, <1>2, SealedOff DEF Top
<1>3. CASE Bare(layers) /\ at = Did(choice.to)
  <2>1. 1 \in DOMAIN layers
    BY <1>1, StackTop
  <2>2. Top.t = "sign"
    BY <1>3, <2>1 DEF Bare, Top
  <2>3. Bare(Tail(layers))
    BY <1>1, <1>3, BareTail DEF Top
  <2> QED BY <1>3, <2>2, <2>3
<1> QED BY <1>1, <1>2, <1>3 DEF SealInv

LEMMA SealInvUnpack ==
  ASSUME PrivateKeys, SealInv, EnvInv, Unpack
  PROVE  SealInv'
<1>1. phase # "sender" /\ stage = "packed"
  BY DEF EnvInv, ReadInv, Unpack, Open, UnpackAnoncrypt, UnpackAuthcrypt, UnpackSign,
         UnpackPlaintext, Relay, RelayAtMediator, ForwardForClient
<1>2. phase = "inbox" => Sealed
  BY <1>1 DEF SealInv, Sealed
<1>3. CASE /\ UNCHANGED packVars /\ at' = at
           /\ phase' \in {"anoncrypt", "authcrypt", "sign", "plaintext", "opened", "refused",
                         "forward"}
  <2>1. layers' = layers /\ choice' = choice /\ stage' = stage /\ claim' = claim
    BY <1>3 DEF packVars
  <2> QED BY <1>1, <1>3, <2>1, SealInvKeeps
<1>4. ASSUME Refuse PROVE SealInv'
  BY <1>3, <1>4 DEF Refuse
<1>5. CASE Open
  BY <1>3, <1>4, <1>5 DEF Open
<1>6. CASE UnpackAnoncrypt
  <2>1. CASE /\ Top.t = "anon"
             /\ CanUnpackAnoncrypt
             /\ LET rest == Tail(layers)
                IN  IF ForwardHere(rest)
                    THEN /\ layers' = Tail(rest)
                         /\ got' = [Anoncrypted(got) EXCEPT !.rewrapped = TRUE]
                         /\ trail' = Append(trail, rest[1].next)
                         /\ UNCHANGED phase
                    ELSE /\ layers' = rest
                         /\ got' = Anoncrypted(got)
                         /\ phase' = "authcrypt"
                         /\ UNCHANGED trail
             /\ UNCHANGED <<view, choice, stage, claim, route, at, env>>
    <3>1. phase = "anoncrypt"
      BY <1>6 DEF UnpackAnoncrypt
    <3>2. \/ SealedFor(Tail(layers), claim.kids)
          \/ Bare(Tail(layers)) /\ at = Did(choice.to)
      BY <1>1, <2>1, <3>1, OpenedByAddressee DEF IsJwe, CanUnpackAnoncrypt
    <3>3. Stack(Me, Tail(layers))
      BY <2>1, TopType DEF EnvInv
    <3>4. CASE ForwardHere(Tail(layers))
      <4>1. PICK rest : rest = Tail(layers)
        OBVIOUS
      <4>2. rest[1].t = "forward" /\ layers' = Tail(rest) /\ phase' = phase
        BY <2>1, <3>4, <4>1 DEF ForwardHere
      <4>3. 1 \in DOMAIN rest
        BY <3>3, <4>1, StackTop
      <4>4. ~Bare(rest)
        BY <4>2, <4>3 DEF Bare
      <4>5. SealedFor(rest, claim.kids)
        BY <3>2, <4>1, <4>4
      <4>6. ~IsJwe(rest[1]) /\ rest[1].t # "plain"
        BY <4>2 DEF IsJwe
      <4>7. SealedFor(Tail(rest), claim.kids)
        BY <3>3, <4>1, <4>5, <4>6, SealedOff
      <4> QED BY <1>1, <2>1, <3>1, <4>2, <4>7, SealInvTakes
    <3>5. CASE ~ForwardHere(Tail(layers))
      <4>1. layers' = Tail(layers) /\ phase' = "authcrypt"
        BY <2>1, <3>5
      <4> QED BY <1>1, <2>1, <3>2, <4>1, SealInvTakes
    <3> QED BY <3>4, <3>5
  <2> QED BY <1>3, <1>4, <1>6, <2>1 DEF UnpackAnoncrypt
<1>7. CASE UnpackAuthcrypt
  <2>1. CASE /\ Top.t = "auth" /\ (env.from # None \/ CanFill(Top))
             /\ layers' = Tail(layers)
             /\ phase' = "sign"
             /\ UNCHANGED <<view, choice, stage, claim, route, at, trail>>
    <3>1. phase = "authcrypt"
      BY <1>7 DEF UnpackAuthcrypt
    <3>2. Held(at, Top.kids) # <<>>
      BY <2>1, <3>1 DEF EnvInv, SenderInv, CanFill
    <3>3. \/ SealedFor(Tail(layers), claim.kids)
          \/ Bare(Tail(layers)) /\ at = Did(choice.to)
      BY <1>1, <2>1, <3>1, <3>2, OpenedByAddressee DEF IsJwe
    <3> QED BY <1>1, <2>1, <3>3, SealInvTakes
  <2> QED BY <1>3, <1>4, <1>7, <2>1 DEF UnpackAuthcrypt
<1>8. CASE UnpackSign
  <2>1. CASE /\ Top.t = "sign"
             /\ layers' = Tail(layers)
             /\ phase' = "plaintext"
             /\ UNCHANGED <<view, choice, stage, claim, route, at, env, ops, trail>>
    <3>1. phase = "sign"
      BY <1>8 DEF UnpackSign
    <3>2. \/ SealedFor(Tail(layers), claim.kids)
          \/ Bare(Tail(layers)) /\ at = Did(choice.to)
      BY <1>1, <2>1, <3>1, OthersDoNotSeal DEF IsJwe
    <3> QED BY <1>1, <2>1, <3>2, SealInvTakes
  <2> QED BY <1>3, <1>4, <1>8, <2>1 DEF UnpackSign
<1>9. CASE UnpackPlaintext
  BY <1>3, <1>9 DEF UnpackPlaintext
<1>10. CASE Relay
  <2>1. CASE RelayAtMediator
    <3>1. /\ phase = "plaintext" /\ Top.t = "forward" /\ phase' = "inbox" /\ layers' = Tail(layers)
          /\ UNCHANGED <<view, choice, stage, claim, route>>
      BY <2>1 DEF RelayAtMediator
    <3>2. SealedFor(Tail(layers), claim.kids)
      BY <1>1, <3>1, OthersDoNotSeal DEF IsJwe
    <3> QED BY <1>1, <3>1, <3>2, SealInvTakes
  <2> QED BY <1>3, <1>10, <2>1 DEF Relay, ForwardForClient
<1> QED BY <1>5, <1>6, <1>7, <1>8, <1>9, <1>10 DEF Unpack

LEMMA SealInvStutters ==
  ASSUME SealInv, UNCHANGED <<packVars, unpackVars>>
  PROVE  SealInv'
BY DEF SealInv, packVars, unpackVars

\* What waits in the inbox of anybody but the addressee, and what anybody but
\* the addressee has in hand while unpacking, is still encrypted for keys of the
\* addressee: protect_sender, the forwards of the route, and the loop that takes
\* forwards off in _try_unpack_anoncrypt never uncover it too early.  No two
\* agents share a key of their documents.
THEOREM OnlyTheAddresseeReads ==
  ASSUME PrivateKeys
  PROVE  EnvelopeSpec => []StaysSealed
<1>1. EnvelopeInit => SealInv
  <2>1. SUFFICES ASSUME EnvelopeInit PROVE SealInv
    OBVIOUS
  <2>2. stage = "prior" /\ layers = <<PlainLayer(None)>>
    BY <2>1 DEF EnvelopeInit, PackInit
  <2>3. PICK l : l = PlainLayer(None)
    OBVIOUS
  <2>4. \A i \in DOMAIN <<l>> : <<l>>[i].t = "plain"
    BY <2>3 DEF PlainLayer
  <2>5. Bare(layers)
    BY <2>2, <2>3, <2>4 DEF Bare
  <2> QED BY <2>2, <2>5 DEF SealInv
<1>2. EnvInv /\ SealInv /\ [EnvelopeNext]_envelopeVars => SealInv'
  <2>1. SUFFICES ASSUME EnvInv, SealInv, [EnvelopeNext]_envelopeVars PROVE SealInv'
    OBVIOUS
  <2>2. CASE UNCHANGED <<packVars, unpackVars>>
    BY <2>1, <2>2, SealInvStutters
  <2>3. CASE LearnSome
    BY <2>2, <2>3 DEF LearnSome
  <2>4. CASE UNCHANGED envelopeVars
    BY <2>2, <2>4 DEF envelopeVars
  <2> QED BY <2>1, <2>2, <2>3, <2>4, SealInvPack, SealInvSend, SealInvUnpack DEF EnvelopeNext
<1>3. EnvInv /\ SealInv => StaysSealed
  <2>1. SUFFICES ASSUME EnvInv, SealInv, phase # "sender", at # Did(choice.to)
                 PROVE  \E i \in DOMAIN layers : IsJwe(layers[i]) /\ layers[i].kids = claim.kids
    BY DEF StaysSealed
  <2>2. stage = "packed"
    BY <2>1 DEF EnvInv, ReadInv
  <2>3. SealedFor(layers, claim.kids)
    BY <2>1, <2>2 DEF SealInv
  <2> QED BY <2>3 DEF SealedFor
<1> QED BY <1>1, <1>2, <1>3, EnvInvHolds, PTL DEF EnvelopeSpec

-----------------------------------------------------------------------------
(* What the metadata describe *)

LEMMA ConsIs ==
  ASSUME NEW T, NEW l \in T, NEW ls \in Seq(T)
  PROVE  /\ <<l>> \o ls \in Seq(T)
         /\ Len(<<l>> \o ls) = Len(ls) + 1
         /\ (<<l>> \o ls)[1] = l
         /\ \A i \in 1..Len(ls) : (<<l>> \o ls)[i + 1] = ls[i]
<1>1. PICK q \in Seq(T) : q = <<l>> /\ Len(q) = 1 /\ q[1] = l
  <2>1. <<l>> \in Seq(T)
    OBVIOUS
  <2>2. Len(<<l>>) = 1 /\ <<l>>[1] = l
    OBVIOUS
  <2> QED BY <2>1, <2>2
<1>2. /\ q \o ls \in Seq(T) /\ Len(q \o ls) = Len(q) + Len(ls)
      /\ \A i \in 1..Len(q) : (q \o ls)[i] = q[i]
      /\ \A i \in 1..Len(ls) : (q \o ls)[Len(q) + i] = ls[i]
  BY ConcatIs
<1>3. PICK j : j = q \o ls
  OBVIOUS
<1>4. Len(j) = Len(ls) + 1 /\ j[1] = l /\ \A i \in 1..Len(ls) : j[i + 1] = ls[i]
  <2>1. Len(ls) \in Nat
    OBVIOUS
  <2> QED BY <1>1, <1>2, <1>3, <2>1
<1> QED BY <1>1, <1>2, <1>3, <1>4

\* Two layers are put on one after the other.
LEMMA TwoOver ==
  ASSUME NEW T, NEW l \in T, NEW m \in T, NEW ls \in Seq(T)
  PROVE  <<l, m>> \o ls = <<l>> \o (<<m>> \o ls)
<1>1. <<l>> \in Seq(T) /\ <<m>> \in Seq(T)
  OBVIOUS
<1>2. (<<l>> \o <<m>>) \o ls = <<l>> \o (<<m>> \o ls)
  BY <1>1, ConcatAssociative
<1>3. PICK q \in Seq(T) : q = <<l>> \o <<m>> /\ Len(q) = 2 /\ q[1] = l /\ q[2] = m
  <2>1. PICK r \in Seq(T) : r = <<m>> /\ Len(r) = 1 /\ r[1] = m
    <3>1. Len(<<m>>) = 1 /\ <<m>>[1] = m
      OBVIOUS
    <3> QED BY <1>1, <3>1
  <2>2. /\ <<l>> \o r \in Seq(T) /\ Len(<<l>> \o r) = Len(r) + 1 /\ (<<l>> \o r)[1] = l
        /\ \A i \in 1..Len(r) : (<<l>> \o r)[i + 1] = r[i]
    BY ConsIs
  <2>3. PICK j : j = <<l>> \o r
    OBVIOUS
  <2>4. j \in Seq(T) /\ Len(j) = 2 /\ j[1] = l /\ j[2] = m
    BY <2>1, <2>2, <2>3
  <2> QED BY <2>1, <2>3, <2>4
<1>4. q = <<l, m>>
  <2>1. PICK r : r = <<l, m>>
    OBVIOUS
  <2>2. r \in Seq(T) /\ Len(r) = 2 /\ r[1] = l /\ r[2] = m
    BY <2>1
  <2>3. \A i \in 1..2 : q[i] = r[i]
    <3>1. SUFFICES ASSUME NEW i \in 1..2 PROVE q[i] = r[i]
      OBVIOUS
    <3>2. i = 1 \/ i = 2
      BY <3>1
    <3> QED BY <1>3, <2>2, <3>2
  <2>4. q = [i \in 1..2 |-> q[i]] /\ r = [i \in 1..2 |-> r[i]]
    BY <1>3, <2>2
  <2>5. q = r
    BY <2>3, <2>4
  <2> QED BY <2>1, <2>5
<1> QED BY <1>2, <1>3, <1>4

LEMMA CoreTail ==
  ASSUME NEW a, NEW ls, Stack(a, ls), NEW ch, NEW cl, NEW c, CoreAt(ls, c, ch, cl), c > 1
  PROVE  CoreAt(Tail(ls), c - 1, ch, cl)
<1>1. DOMAIN ls = 1..Len(ls) /\ Len(ls) \in Nat /\ c \in 1..Len(ls)
  BY StackTop DEF CoreAt
<1>2. ls[1].t # "plain"
  <2>1. 1 \in 1..(c - 1)
    BY <1>1
  <2> QED BY <2>1 DEF CoreAt
<1>3. PICK tl : tl = Tail(ls)
  OBVIOUS
<1>4. /\ Stack(a, tl) /\ Len(tl) = Len(ls) - 1
      /\ \A i \in 1..Len(tl) : tl[i] = ls[i + 1]
  BY <1>2, <1>3, StackTail
<1>5. DOMAIN tl = 1..Len(tl)
  BY <1>4, StackTop
<1>6. PICK b \in 1..Len(tl) : b = c - 1 /\ c = b + 1
  BY <1>1, <1>4
<1>7. tl[b] = ls[c]
  BY <1>4, <1>6
<1>8. BodyFrom(tl, b, cl)
  <2>1. BodyFrom(ls, c, cl)
    BY DEF CoreAt
  <2>2. CASE cl.signer = None
    <3>1. Len(ls) = c + 1 /\ ls[c + 1].t = "plain"
      BY <2>1, <2>2 DEF BodyFrom
    <3>2. Len(tl) = b + 1 /\ tl[b + 1] = ls[c + 1]
      BY <1>1, <1>4, <1>6, <3>1
    <3> QED BY <2>2, <3>1, <3>2 DEF BodyFrom
  <2>3. CASE cl.signer # None
    <3>1. Len(ls) = c + 2 /\ ls[c + 2].t = "plain" /\ ls[c + 1].t = "sign"
          /\ ls[c + 1].kid = cl.signer
      BY <2>1, <2>3 DEF BodyFrom
    <3>2. Len(tl) = b + 2 /\ tl[b + 1] = ls[c + 1] /\ tl[b + 2] = ls[c + 2]
      BY <1>1, <1>4, <1>6, <3>1
    <3> QED BY <2>3, <3>1, <3>2 DEF BodyFrom
  <2> QED BY <2>2, <2>3
<1>9. ASSUME NEW i \in 1..(b - 1)
      PROVE  \/ tl[i].t = "forward" /\ IsJwe(tl[i + 1]) /\ (Hidden(ch) => i + 1 < b)
             \/ tl[i].t = "anon" /\ (tl[i + 1].t = "forward" \/ (i + 1 = b /\ Hidden(ch)))
  <2>1. PICK k \in 1..(c - 1) : k = i + 1
    BY <1>6
  <2>2. tl[i] = ls[k] /\ tl[i + 1] = ls[k + 1] /\ (k + 1 < c <=> i + 1 < b) /\ (k + 1 = c <=> i + 1 = b)
    BY <1>1, <1>4, <1>6, <2>1
  <2>3. \/ ls[k].t = "forward" /\ IsJwe(ls[k + 1]) /\ (Hidden(ch) => k + 1 < c)
        \/ ls[k].t = "anon" /\ (ls[k + 1].t = "forward" \/ (k + 1 = c /\ Hidden(ch)))
    BY <2>1 DEF CoreAt
  <2> QED BY <2>2, <2>3
<1>10. CoreAt(tl, b, ch, cl)
  BY <1>5, <1>7, <1>8, <1>9 DEF CoreAt
<1> QED BY <1>3, <1>6, <1>10

LEMMA CoreOff ==
  ASSUME NEW a, NEW ls, Stack(a, ls), NEW ch, NEW cl, CoreAt(ls, 1, ch, cl)
  PROVE  BodyFrom(Tail(ls), 0, cl)
<1>1. IsJwe(ls[1]) /\ BodyFrom(ls, 1, cl) /\ ls[1].t # "plain"
  BY DEF CoreAt, IsJwe
<1>2. PICK tl : tl = Tail(ls)
  OBVIOUS
<1>3. /\ Len(tl) = Len(ls) - 1 /\ Len(ls) \in Nat
      /\ \A i \in 1..Len(tl) : tl[i] = ls[i + 1]
  BY <1>1, <1>2, StackTail
<1>4. CASE cl.signer = None
  <2>1. Len(ls) = 2 /\ ls[2].t = "plain"
    BY <1>1, <1>4 DEF BodyFrom
  <2>2. Len(tl) = 1 /\ tl[1] = ls[2]
    BY <1>3, <2>1
  <2>3. BodyFrom(tl, 0, cl)
    BY <1>4, <2>1, <2>2 DEF BodyFrom
  <2> QED BY <1>2, <2>3
<1>5. CASE cl.signer # None
  <2>1. Len(ls) = 3 /\ ls[3].t = "plain" /\ ls[2].t = "sign" /\ ls[2].kid = cl.signer
    BY <1>1, <1>5 DEF BodyFrom
  <2>2. Len(tl) = 2 /\ tl[1] = ls[2] /\ tl[2] = ls[3]
    BY <1>3, <2>1
  <2>3. BodyFrom(tl, 0, cl)
    BY <1>5, <2>1, <2>2 DEF BodyFrom
  <2> QED BY <1>2, <2>3
<1> QED BY <1>4, <1>5

\* The signature is taken off.
LEMMA BodyOff ==
  ASSUME NEW a, NEW ls, Stack(a, ls), NEW cl, BodyFrom(ls, 0, cl)
  PROVE  /\ ls[1].t \in {"sign", "plain"}
         /\ ls[1].t = "plain" => cl.signer = None
         /\ ls[1].t = "sign" => cl.signer = ls[1].kid /\ cl.signer # None /\ Tail(ls)[1].t = "plain"
<1>1. CASE cl.signer = None
  BY <1>1 DEF BodyFrom
<1>2. CASE cl.signer # None
  <2>1. Len(ls) = 2 /\ ls[2].t = "plain" /\ ls[1].t = "sign" /\ ls[1].kid = cl.signer
    BY <1>2 DEF BodyFrom
  <2>2. PICK tl : tl = Tail(ls)
    OBVIOUS
  <2>3. Len(tl) = 1 /\ \A i \in 1..Len(tl) : tl[i] = ls[i + 1]
    BY <2>1, <2>2, StackTail
  <2>4. tl[1] = ls[2]
    BY <2>3
  <2> QED BY <1>2, <2>1, <2>2, <2>4
<1> QED BY <1>1, <1>2

\* A JWE around the body.
LEMMA CoreOver ==
  ASSUME NEW a, NEW ls, Stack(a, ls), NEW l \in LayersOf(a), NEW ch, NEW cl,
         BodyFrom(ls, 0, cl), IsJwe(l), l.kids = cl.kids, l.t = "auth" <=> ch.from # None,
         l.t = "auth" => l.skid = cl.from
  PROVE  CoreAt(<<l>> \o ls, 1, ch, cl)
<1>1. PICK T : T = LayersOf(a)
  OBVIOUS
<1>2. ls \in Seq(T) /\ l \in T
  BY <1>1 DEF Stack
<1>3. PICK j : j = <<l>> \o ls
  OBVIOUS
<1>4. j \in Seq(T) /\ Len(j) = Len(ls) + 1 /\ j[1] = l /\ \A i \in 1..Len(ls) : j[i + 1] = ls[i]
  BY <1>2, <1>3, ConsIs
<1>5. Len(ls) \in Nat /\ 1 \in DOMAIN j
  BY <1>2, <1>4
<1>6. BodyFrom(j, 1, cl)
  <2>1. CASE cl.signer = None
    <3>1. Len(ls) = 1 /\ ls[1].t = "plain"
      BY <2>1 DEF BodyFrom
    <3>2. Len(j) = 2 /\ j[2] = ls[1]
      BY <1>4, <3>1
    <3> QED BY <2>1, <3>1, <3>2 DEF BodyFrom
  <2>2. CASE cl.signer # None
    <3>1. Len(ls) = 2 /\ ls[2].t = "plain" /\ ls[1].t = "sign" /\ ls[1].kid = cl.signer
      BY <2>2 DEF BodyFrom
    <3>2. Len(j) = 3 /\ j[2] = ls[1] /\ j[3] = ls[2]
      BY <1>4, <3>1
    <3> QED BY <2>2, <3>1, <3>2 DEF BodyFrom
  <2> QED BY <2>1, <2>2
<1>7. \A i \in 1..(1 - 1) : FALSE
  OBVIOUS
<1> QED BY <1>3, <1>4, <1>5, <1>6, <1>7 DEF CoreAt

\* One more layer around.
LEMMA CoreUnder ==
  ASSUME NEW a, NEW ls, Stack(a, ls), NEW l \in LayersOf(a), NEW ch, NEW cl, NEW c,
         CoreAt(ls, c, ch, cl),
         \/ l.t = "forward" /\ IsJwe(ls[1]) /\ (Hidden(ch) => c > 1)
         \/ l.t = "anon" /\ (ls[1].t = "forward" \/ (c = 1 /\ Hidden(ch)))
  PROVE  CoreAt(<<l>> \o ls, c + 1, ch, cl)
<1>1. PICK T : T = LayersOf(a)
  OBVIOUS
<1>2. ls \in Seq(T) /\ l \in T
  BY <1>1 DEF Stack
<1>3. PICK j : j = <<l>> \o ls
  OBVIOUS
<1>4. j \in Seq(T) /\ Len(j) = Len(ls) + 1 /\ j[1] = l /\ \A i \in 1..Len(ls) : j[i + 1] = ls[i]
  BY <1>2, <1>3, ConsIs
<1>5. Len(ls) \in Nat /\ DOMAIN ls = 1..Len(ls) /\ DOMAIN j = 1..(Len(ls) + 1) /\ c \in 1..Len(ls)
  BY <1>2, <1>4 DEF CoreAt
<1>6. PICK b \in DOMAIN j : b = c + 1
  BY <1>5
<1>7. j[b] = ls[c]
  BY <1>4, <1>5, <1>6
<1>8. BodyFrom(j, b, cl)
  <2>1. BodyFrom(ls, c, cl)
    BY DEF CoreAt
  <2>2. CASE cl.signer = None
    <3>1. Len(ls) = c + 1 /\ ls[c + 1].t = "plain"
      BY <2>1, <2>2 DEF BodyFrom
    <3>2. Len(j) = b + 1 /\ j[b + 1] = ls[c + 1]
      BY <1>4, <1>5, <1>6, <3>1
    <3> QED BY <2>2, <3>1, <3>2 DEF BodyFrom
  <2>3. CASE cl.signer # None
    <3>1. Len(ls) = c + 2 /\ ls[c + 2].t = "plain" /\ ls[c + 1].t = "sign"
          /\ ls[c + 1].kid = cl.signer
      BY <2>1, <2>3 DEF BodyFrom
    <3>2. Len(j) = b + 2 /\ j[b + 1] = ls[c + 1] /\ j[b + 2] = ls[c + 2]
      BY <1>4, <1>5, <1>6, <3>1
    <3> QED BY <2>3, <3>1, <3>2 DEF BodyFrom
  <2> QED BY <2>2, <2>3
<1>9. ASSUME NEW i \in 1..(b - 1)
      PROVE  \/ j[i].t = "forward" /\ IsJwe(j[i + 1]) /\ (Hidden(ch) => i + 1 < b)
             \/ j[i].t = "anon" /\ (j[i + 1].t = "forward" \/ (i + 1 = b /\ Hidden(ch)))
  <2>1. CASE i = 1
    <3>1. j[i] = l /\ j[i + 1] = ls[1] /\ (i + 1 < b <=> c > 1) /\ (i + 1 = b <=> c = 1)
      BY <1>4, <1>5, <1>6, <2>1
    <3> QED BY <3>1
  <2>2. CASE i # 1
    <3>1. PICK k \in 1..(c - 1) : i = k + 1
      <4>1. i - 1 \in 1..(c - 1) /\ i = (i - 1) + 1
        BY <1>5, <1>6, <2>2
      <4> QED BY <4>1
    <3>2. j[i] = ls[k] /\ j[i + 1] = ls[k + 1] /\ (k + 1 < c <=> i + 1 < b)
          /\ (k + 1 = c <=> i + 1 = b)
      BY <1>4, <1>5, <1>6, <3>1
    <3>3. \/ ls[k].t = "forward" /\ IsJwe(ls[k + 1]) /\ (Hidden(ch) => k + 1 < c)
          \/ ls[k].t = "anon" /\ (ls[k + 1].t = "forward" \/ (k + 1 = c /\ Hidden(ch)))
      BY <3>1 DEF CoreAt
    <3> QED BY <3>2, <3>3
  <2> QED BY <2>1, <2>2
<1>10. CoreAt(j, b, ch, cl)
  BY <1>6, <1>7, <1>8, <1>9 DEF CoreAt
<1> QED BY <1>3, <1>6, <1>10

LEMMA TailTop ==
  ASSUME NEW a, NEW ls, Stack(a, ls), ls[1].t # "plain"
  PROVE  Tail(ls)[1] = ls[1 + 1]
<1>1. PICK tl : tl = Tail(ls)
  OBVIOUS
<1>2. Len(tl) = Len(ls) - 1 /\ Len(ls) \in Nat /\ Len(ls) > 1
      /\ \A i \in 1..Len(tl) : tl[i] = ls[i + 1]
  BY <1>1, StackTail
<1>3. 1 \in 1..Len(tl)
  BY <1>2
<1> QED BY <1>1, <1>2, <1>3

\* What a forward and the loop leave is a message again.
LEMMA ForwardOff ==
  ASSUME NEW a, NEW ls, Stack(a, ls), NEW ch, NEW cl, Forwarding(ls, ch, cl)
  PROVE  Whole(Tail(ls), ch, cl)
<1>1. PICK c \in DOMAIN ls : CoreAt(ls, c, ch, cl)
  BY DEF Forwarding
<1>2. ls[1].t = "forward"
  BY DEF Forwarding
<1>3. DOMAIN ls = 1..Len(ls) /\ Len(ls) \in Nat
  BY StackTop
<1>4. c # 1
  BY <1>1, <1>2 DEF CoreAt, IsJwe
<1>5. c > 1 /\ 1 \in 1..(c - 1)
  BY <1>3, <1>4
<1>6. IsJwe(ls[1 + 1]) /\ (Hidden(ch) => 1 + 1 < c)
  BY <1>1, <1>2, <1>5 DEF CoreAt
<1>7. CoreAt(Tail(ls), c - 1, ch, cl)
  BY <1>1, <1>5, CoreTail
<1>8. Tail(ls)[1] = ls[1 + 1]
  BY <1>2, TailTop
<1>9. c - 1 \in DOMAIN Tail(ls) /\ (Hidden(ch) => c - 1 > 1)
  BY <1>3, <1>6, <1>7 DEF CoreAt
<1> QED BY <1>6, <1>7, <1>8, <1>9 DEF Whole

\* An anoncrypt layer has come off: what is below it.
LEMMA AnonOff ==
  ASSUME NEW a, NEW ls, Stack(a, ls), NEW ch, NEW cl, Whole(ls, ch, cl), ls[1].t = "anon"
  PROVE  \/ Forwarding(Tail(ls), ch, cl)
         \/ Hidden(ch) /\ Tail(ls)[1].t = "auth" /\ CoreAt(Tail(ls), 1, ch, cl)
         \/ BodyFrom(Tail(ls), 0, cl) /\ ch.from = None /\ ls[1].kids = cl.kids
<1>1. PICK c \in DOMAIN ls : CoreAt(ls, c, ch, cl) /\ (Hidden(ch) => c > 1)
  BY DEF Whole
<1>2. DOMAIN ls = 1..Len(ls) /\ Len(ls) \in Nat
  BY StackTop
<1>3. CASE c = 1
  <2>1. BodyFrom(Tail(ls), 0, cl)
    BY <1>1, <1>3, CoreOff
  <2> QED BY <1>1, <1>3, <2>1 DEF CoreAt
<1>4. CASE c # 1
  <2>1. c > 1 /\ 1 \in 1..(c - 1)
    BY <1>2, <1>4
  <2>2. CoreAt(Tail(ls), c - 1, ch, cl)
    BY <1>1, <2>1, CoreTail
  <2>3. ls[1 + 1].t = "forward" \/ (1 + 1 = c /\ Hidden(ch))
    BY <1>1, <2>1 DEF CoreAt
  <2>4. Tail(ls)[1] = ls[1 + 1]
    BY TailTop
  <2>5. CASE ls[1 + 1].t = "forward"
    <3>1. c - 1 \in DOMAIN Tail(ls)
      BY <2>2 DEF CoreAt
    <3> QED BY <2>2, <2>4, <2>5, <3>1 DEF Forwarding
  <2>6. CASE 1 + 1 = c /\ Hidden(ch)
    <3>1. c - 1 = 1
      BY <2>6
    <3>2. CoreAt(Tail(ls), 1, ch, cl)
      BY <2>2, <3>1
    <3>3. Tail(ls)[1].t = "auth"
      BY <2>6, <3>2 DEF CoreAt, Hidden
    <3> QED BY <2>6, <3>2, <3>3
  <2> QED BY <2>3, <2>5, <2>6
<1> QED BY <1>3, <1>4

\* An authcrypt layer on top is the innermost one, and nothing hides it.
LEMMA AuthOnTop ==
  ASSUME NEW a, NEW ls, Stack(a, ls), NEW ch, NEW cl, Whole(ls, ch, cl), ls[1].t # "anon"
  PROVE  ls[1].t = "auth" /\ CoreAt(ls, 1, ch, cl) /\ ~ch.protect
<1>1. PICK c \in DOMAIN ls : CoreAt(ls, c, ch, cl) /\ (Hidden(ch) => c > 1)
  BY DEF Whole
<1>2. DOMAIN ls = 1..Len(ls) /\ Len(ls) \in Nat
  BY StackTop
<1>3. ls[1].t = "auth"
  BY DEF Whole, IsJwe
<1>4. c = 1
  <2>1. SUFFICES ASSUME c # 1 PROVE FALSE
    OBVIOUS
  <2>2. 1 \in 1..(c - 1)
    BY <1>2, <2>1
  <2> QED BY <1>1, <1>3, <2>2 DEF CoreAt
<1>5. ch.from # None
  BY <1>1, <1>3, <1>4 DEF CoreAt
<1> QED BY <1>1, <1>3, <1>4, <1>5 DEF Hidden

-----------------------------------------------------------------------------
(* The packing makes a message that its metadata describe *)

LEMMA ShapeInvPack ==
  ASSUME EnvInv, ShapeInv, PackSome
  PROVE  ShapeInv' /\ phase' = "sender"
<1>1. phase = "sender" /\ phase' = "sender" /\ Pack /\ PackInv
  BY EnvInvPack DEF PackSome, EnvInv
<1>2. PICK a \in Dids : a = Me
  BY <1>1, MeType
<1>3. Stack(a, layers) /\ choice' = choice /\ claim \in ClaimType
  BY <1>1, <1>2
     DEF PackInv, Pack, PackPrior, PackBody, Encrypt, ChooseRoute, WrapLayer, PackError, Fail
<1>4. NoClaim.signer = None /\ NoClaim.from = None
  BY DEF NoClaim
<1>5. CASE PackPrior
  <2>1. claim = NoClaim /\ BodyFrom(layers, 0, claim) /\ stage' = "body" /\ claim' = claim
    BY <1>5 DEF ShapeInv, PackPrior
  <2>2. BodyFrom(layers', 0, claim)
    <3>1. CASE layers' = layers
      BY <2>1, <3>1
    <3>2. CASE layers' = <<PlainLayer(SignCompact(Head(Signers(Me, choice.prior))))>>
      <4>1. PICK l : l = PlainLayer(SignCompact(Head(Signers(Me, choice.prior))))
        OBVIOUS
      <4>2. Len(<<l>>) = 0 + 1 /\ <<l>>[0 + 1] = l
        OBVIOUS
      <4>3. l.t = "plain"
        BY <4>1 DEF PlainLayer
      <4> QED BY <1>4, <2>1, <3>2, <4>1, <4>2, <4>3 DEF BodyFrom
    <3> QED BY <1>5, <3>1, <3>2 DEF PackPrior
  <2> QED BY <1>1, <2>1, <2>2 DEF ShapeInv
<1>6. CASE PackBody
  <2>1. claim = NoClaim /\ BodyFrom(layers, 0, claim) /\ stage' = "encrypt"
    BY <1>6 DEF ShapeInv, PackBody
  <2>2. CASE choice.signBy = None
    <3>1. layers' = layers /\ claim' = claim
      BY <1>6, <2>2 DEF PackBody
    <3> QED BY <1>1, <1>4, <2>1, <3>1 DEF ShapeInv
  <2>3. CASE choice.signBy # None
    <3>1. CanSign(a, choice.signBy) /\ choice.signBy \in Dids \cup Kids
      BY <1>1, <1>2, <1>6, <2>3, MeType DEF PackBody, CanPackBody
    <3>2. PICK k : k = Head(Signers(a, choice.signBy))
      OBVIOUS
    <3>3. k \in Kids /\ Holds(a, k)
      BY <1>1, <3>1, <3>2, SignersType DEF PackInv
    <3>4. PICK l : l = SignLayer(k, Secret(a, k))
      OBVIOUS
    <3>5. l \in LayersOf(a) /\ l.t = "sign" /\ l.kid = k
      BY <3>3, <3>4, SignLayerIsLayer DEF SignLayer
    <3>6. layers' = <<l>> \o layers /\ claim' = [claim EXCEPT !.signer = k]
      BY <1>2, <1>6, <2>3, <3>2, <3>4 DEF PackBody
    <3>7. claim'.signer = k /\ claim'.from = None /\ k # None
      BY <1>3, <1>4, <2>1, <3>3, <3>6, KidsAssumption DEF ClaimType
    <3>8. Len(layers) = 1 /\ layers[1].t = "plain"
      BY <1>4, <2>1 DEF BodyFrom
    <3>9. PICK T : T = LayersOf(a)
      OBVIOUS
    <3>10. layers \in Seq(T) /\ l \in T
      BY <1>3, <3>5, <3>9 DEF Stack
    <3>11. PICK j : j = <<l>> \o layers
      OBVIOUS
    <3>12. Len(j) = Len(layers) + 1 /\ j[1] = l /\ \A i \in 1..Len(layers) : j[i + 1] = layers[i]
      BY <3>10, <3>11, ConsIs
    <3>13. Len(j) = 0 + 2 /\ j[0 + 1] = l /\ j[0 + 2] = layers[1]
      BY <3>8, <3>12
    <3>14. BodyFrom(layers', 0, claim')
      BY <3>5, <3>6, <3>7, <3>8, <3>11, <3>13 DEF BodyFrom
    <3> QED BY <1>1, <2>1, <3>7, <3>14 DEF ShapeInv
  <2> QED BY <2>2, <2>3
<1>7. CASE Encrypt
  <2>1. /\ claim.from = None /\ BodyFrom(layers, 0, claim) /\ stage' = "route" /\ CanEncrypt
        /\ layers' = Jwes \o layers
    BY <1>7 DEF ShapeInv, Encrypt
  <2>2. BodyFrom(layers, 0, claim')
    <3>1. claim'.signer = claim.signer
      BY <1>3, <1>7 DEF Encrypt, ClaimType
    <3> QED BY <2>1, <3>1 DEF BodyFrom
  <2>3. (claim'.from = None <=> choice.from = None) /\ Whole(layers', choice, claim')
    <3>1. CASE choice.from = None
      <4>1. CanAnoncrypt(a, choice.to) /\ choice.to \in Dids \cup Kids
        BY <1>1, <1>2, <2>1, <3>1, MeType DEF CanEncrypt
      <4>2. PICK l : l = Anoncrypt(a, choice.to)
        OBVIOUS
      <4>3. l \in LayersOf(a)
        BY <1>1, <4>1, <4>2, AnonKidsType, AnonLayerIsLayer DEF Anoncrypt, PackInv
      <4>4. l.t = "anon" /\ l.kids = AnonKids(a, choice.to)
        BY <4>2 DEF Anoncrypt, AnonLayer
      <4>5. layers' = <<l>> \o layers
        BY <1>2, <2>1, <3>1, <4>2 DEF Jwes
      <4>6. claim'.kids = l.kids /\ claim'.from = None
        BY <1>2, <1>3, <1>7, <2>1, <3>1, <4>4 DEF Encrypt, ClaimType
      <4>7. CoreAt(<<l>> \o layers, 1, choice, claim')
        BY <1>3, <2>2, <3>1, <4>3, <4>4, <4>6, CoreOver DEF IsJwe
      <4>8. IsJwe(layers'[1]) /\ 1 \in DOMAIN layers'
        BY <4>5, <4>7 DEF CoreAt
      <4> QED BY <3>1, <4>5, <4>6, <4>7, <4>8 DEF Whole, Hidden
    <3>2. CASE choice.from # None
      <4>1. PICK from \in Dids \cup Kids, to \in Dids \cup Kids : from = choice.from /\ to = choice.to
        BY <1>1, <3>2, MeType
      <4>2. CanAuthcrypt(a, from, to)
        BY <1>2, <2>1, <3>2, <4>1 DEF CanEncrypt
      <4>3. PICK kids, k, doc : kids = AuthKids(a, from, to) /\ k = FromKid(a, from, to)
                                /\ doc = Doc(a, Did(to))
        OBVIOUS
      <4>4. /\ IsDocument(doc) /\ kids \in Seq(Kids) /\ kids # <<>>
            /\ ToSet(kids) \subseteq DOMAIN doc.key /\ k \in Kids /\ Holds(a, k)
        BY <1>1, <4>2, <4>3, AuthKidsType DEF PackInv
      <4>5. PICK l, m : l = AuthLayer(doc, kids, k, Secret(a, k)) /\ m = AnonLayer(doc, kids)
        OBVIOUS
      <4>6. l \in LayersOf(a) /\ m \in LayersOf(a)
        BY <4>4, <4>5, AnonLayerIsLayer, AuthLayerIsLayer
      <4>7. l.t = "auth" /\ l.kids = kids /\ l.skid = k /\ m.t = "anon"
        BY <4>5 DEF AuthLayer, AnonLayer
      <4>8. claim'.kids = kids /\ claim'.from = k /\ k # None
        BY <1>2, <1>3, <1>7, <3>2, <4>1, <4>3, <4>4, KidsAssumption DEF Encrypt, ClaimType
      <4>9. CoreAt(<<l>> \o layers, 1, choice, claim')
        BY <1>3, <2>2, <3>2, <4>6, <4>7, <4>8, CoreOver DEF IsJwe
      <4>10. layers' = ((IF choice.protect THEN <<m>> ELSE <<>>) \o <<l>>) \o layers
        BY <1>2, <2>1, <3>2, <4>1, <4>3, <4>5 DEF Jwes, Authcrypted, Authcrypt
      <4>11. PICK T : T = LayersOf(a)
        OBVIOUS
      <4>12. layers \in Seq(T) /\ l \in T /\ m \in T
        BY <1>3, <4>6, <4>11 DEF Stack
      <4>13. CASE choice.protect
        <5>1. <<m>> \in Seq(T) /\ <<l>> \in Seq(T)
          BY <4>12
        <5>2. layers' = <<m>> \o (<<l>> \o layers)
          BY <4>10, <4>12, <4>13, <5>1, ConcatAssociative
        <5>3. Stack(a, <<l>> \o layers)
          BY <1>3, <4>11, <5>1, StackUnder
        <5>4. CoreAt(<<m>> \o (<<l>> \o layers), 1 + 1, choice, claim')
          BY <3>2, <4>6, <4>7, <4>9, <4>13, <5>3, CoreUnder DEF Hidden
        <5>5. <<l>> \o layers \in Seq(T)
          BY <4>12, ConsIs
        <5>6. layers'[1] = m
          BY <4>12, <5>2, <5>5, ConsIs
        <5>7. 1 + 1 \in DOMAIN layers' /\ 1 + 1 > 1
          BY <5>2, <5>4 DEF CoreAt
        <5>8. IsJwe(layers'[1])
          BY <4>7, <5>6 DEF IsJwe
        <5> QED BY <3>2, <4>8, <5>2, <5>4, <5>7, <5>8 DEF Whole
      <4>14. CASE ~choice.protect
        <5>1. <<>> \o <<l>> = <<l>>
          OBVIOUS
        <5>2. layers' = <<l>> \o layers
          BY <4>10, <4>14, <5>1
        <5>3. IsJwe(layers'[1]) /\ 1 \in DOMAIN layers'
          BY <4>9, <5>2 DEF CoreAt
        <5> QED BY <3>2, <4>8, <4>9, <4>14, <5>2, <5>3 DEF Whole, Hidden
      <4> QED BY <4>13, <4>14
    <3> QED BY <3>1, <3>2
  <2> QED BY <1>1, <1>3, <2>1, <2>3 DEF ShapeInv
<1>8. CASE ChooseRoute
  <2>1. /\ stage = "route" /\ stage' \in {"packed", "wrap"} /\ layers' = layers
        /\ claim'.kids = claim.kids /\ claim'.from = claim.from /\ claim'.signer = claim.signer
    BY <1>3, <1>8 DEF ChooseRoute, ClaimType
  <2>2. (claim.from = None <=> choice.from = None) /\ Whole(layers, choice, claim)
    BY <1>1, <2>1 DEF ShapeInv
  <2>3. Whole(layers, choice, claim')
    BY <2>1, <2>2 DEF Whole, CoreAt, BodyFrom
  <2> QED BY <1>1, <1>3, <2>1, <2>2, <2>3 DEF ShapeInv
<1>9. CASE WrapLayer
  <2>1. PICK l, m : l = Anoncrypt(a, Last(route.keys)) /\ m = ForwardLayer(route.next)
    OBVIOUS
  <2>2. /\ stage = "wrap" /\ stage' \in {"packed", "wrap"} /\ claim' = claim
        /\ layers' = <<l, m>> \o layers
    BY <1>2, <1>9, <2>1 DEF WrapLayer
  <2>3. (claim.from = None <=> choice.from = None) /\ Whole(layers, choice, claim)
    BY <1>1, <2>2 DEF ShapeInv
  <2>4. <<l, m>> \in Seq(LayersOf(a))
    BY <1>1, <1>2, <1>9, <2>1, WrapType
  <2>5. l \in LayersOf(a) /\ m \in LayersOf(a)
    <3>1. PICK q \in Seq(LayersOf(a)) : q = <<l, m>>
      BY <2>4
    <3>2. Len(q) = 2 /\ q[1] = l /\ q[2] = m
      BY <3>1
    <3>3. 1 \in 1..Len(q) /\ 2 \in 1..Len(q)
      BY <3>2
    <3> QED BY <3>2, <3>3
  <2>6. l.t = "anon" /\ m.t = "forward"
    BY <2>1 DEF Anoncrypt, AnonLayer, ForwardLayer
  <2>7. PICK T : T = LayersOf(a)
    OBVIOUS
  <2>8. layers \in Seq(T) /\ l \in T /\ m \in T
    BY <1>3, <2>5, <2>7 DEF Stack
  <2>9. PICK ls : ls = <<m>> \o layers
    OBVIOUS
  <2>10. layers' = <<l>> \o ls /\ ls \in Seq(T) /\ ls[1] = m
    <3>1. <<l, m>> \o layers = <<l>> \o (<<m>> \o layers)
      BY <2>8, TwoOver
    <3>2. <<m>> \o layers \in Seq(T) /\ (<<m>> \o layers)[1] = m
      BY <2>8, ConsIs
    <3> QED BY <2>2, <2>9, <3>1, <3>2, Zenon
  <2>11. Stack(a, ls)
    <3>1. <<m>> \in Seq(T)
      BY <2>8
    <3> QED BY <1>3, <2>7, <2>9, <3>1, StackUnder
  <2>12. PICK c \in DOMAIN layers : CoreAt(layers, c, choice, claim) /\ (Hidden(choice) => c > 1)
    BY <2>3 DEF Whole
  <2>13. IsJwe(layers[1]) /\ c \in Nat
    BY <1>3, <2>3, <2>12, StackTop DEF Whole
  <2>14. CoreAt(ls, c + 1, choice, claim)
    BY <1>3, <2>5, <2>6, <2>9, <2>12, <2>13, CoreUnder
  <2>15. CoreAt(<<l>> \o ls, (c + 1) + 1, choice, claim)
    BY <2>5, <2>6, <2>10, <2>11, <2>14, CoreUnder
  <2>16. layers'[1] = l
    BY <2>8, <2>10, ConsIs
  <2>17. (c + 1) + 1 \in DOMAIN layers' /\ (Hidden(choice) => (c + 1) + 1 > 1)
    BY <2>10, <2>13, <2>15 DEF CoreAt
  <2>18. Whole(layers', choice, claim)
    BY <2>6, <2>10, <2>15, <2>16, <2>17 DEF Whole, IsJwe
  <2> QED BY <1>1, <1>3, <2>2, <2>3, <2>18 DEF ShapeInv
<1>10. CASE PackError
  BY <1>1, <1>10 DEF PackError, Fail, ShapeInv
<1> QED BY <1>1, <1>5, <1>6, <1>7, <1>8, <1>9, <1>10 DEF Pack

-----------------------------------------------------------------------------
(* The unpacking reports what is there *)

\* A step of the way: the metadata of the packing stay, and where the message
\* is not taken apart, it is whole.
LEMMA ShapeInvKeeps ==
  ASSUME ShapeInv, stage = "packed", choice' = choice, stage' = stage, claim' = claim,
         phase' \in {"sender", "inbox", "anoncrypt"} => Whole(layers', choice, claim)
  PROVE  ShapeInv' /\ (claim.from = None <=> choice.from = None)
BY DEF ShapeInv

LEMMA MetaInvEnds ==
  ASSUME ShapeInv, stage = "packed", phase' \in {"refused", "forward"},
         choice' = choice, stage' = stage, claim' = claim
  PROVE  ShapeInv' /\ MetaInv'
BY ShapeInvKeeps DEF MetaInv

LEMMA MetaInvOpen ==
  ASSUME EnvInv, ShapeInv, Open
  PROVE  ShapeInv' /\ MetaInv'
<1>1. /\ phase = "inbox" /\ stage = "packed" /\ env = NoEnv /\ got = NoMeta /\ PackInv
      /\ choice' = choice /\ stage' = stage /\ claim' = claim /\ layers' = layers
  BY DEF Open, Refuse, EnvInv, ReadInv, SenderInv, packVars
<1>2. Whole(layers, choice, claim) /\ IsJwe(Top)
  BY <1>1 DEF ShapeInv, Whole, Top
<1>3. CASE Refuse
  BY <1>1, <1>3, MetaInvEnds DEF Refuse
<1>4. CASE phase' = "anoncrypt" /\ env' = Filled(Top) /\ got' = FilledMeta(Top, got)
  <2>1. ShapeInv'
    BY <1>1, <1>2, <1>4, ShapeInvKeeps
  <2>2. Top' = Top
    BY <1>1 DEF Top
  <2>3. /\ ~NoMeta.anonymous /\ ~NoMeta.rewrapped /\ ~NoMeta.authenticated
        /\ NoEnv.from = None
    BY DEF NoMeta, NoEnv
  <2>4. CASE Top.t = "anon"
    <3>1. got' = [NoMeta EXCEPT !.anonymous = TRUE, !.kids = Top.kids] /\ env'.from = None
      BY <1>1, <1>4, <2>3, <2>4 DEF FilledMeta, Filled
    <3>2. got'.anonymous /\ ~got'.rewrapped /\ ~got'.authenticated
      BY <3>1 DEF NoMeta
    <3> QED BY <1>4, <2>1, <2>2, <2>4, <3>1, <3>2 DEF MetaInv
  <2>5. CASE Top.t = "auth"
    <3>1. Top.skid \in Kids
      BY <1>1, <2>5, TopType DEF IsLayer
    <3>2. env'.from = Top.skid /\ env'.from # None
      BY <1>4, <2>5, <3>1, KidsAssumption DEF Filled
    <3>3. got' = [NoMeta EXCEPT !.authenticated = TRUE, !.encrypted = TRUE,
                                !.from = Top.skid, !.kids = Top.kids]
      BY <1>1, <1>4, <2>5 DEF FilledMeta
    <3>4. /\ ~got'.anonymous /\ ~got'.rewrapped /\ got'.authenticated
          /\ got'.encrypted /\ got'.kids = Top.kids
      BY <3>3 DEF NoMeta
    <3> QED BY <1>4, <2>1, <2>2, <2>5, <3>2, <3>4 DEF MetaInv
  <2> QED BY <1>2, <2>4, <2>5 DEF IsJwe
<1> QED BY <1>2, <1>3, <1>4 DEF Open

LEMMA MetaInvAnoncrypt ==
  ASSUME EnvInv, ShapeInv, MetaInv, UnpackAnoncrypt
  PROVE  ShapeInv' /\ MetaInv'
<1>1. /\ phase = "anoncrypt" /\ stage = "packed" /\ PackInv /\ got \in Metadata
      /\ choice' = choice /\ stage' = stage /\ claim' = claim
      /\ got.from = env.from /\ got.signer = None
      /\ env.from # None => Top.t = "auth"
  BY DEF UnpackAnoncrypt, Refuse, EnvInv, ReadInv, SenderInv, packVars
<1>2. PICK a : a = Me
  OBVIOUS
<1>3. Stack(a, layers) /\ Whole(layers, choice, claim)
  BY <1>1, <1>2 DEF ShapeInv, PackInv
<1>4. claim.from = None <=> choice.from = None
  BY <1>1 DEF ShapeInv
<1>5. CASE Refuse
  BY <1>1, <1>5, MetaInvEnds DEF Refuse
<1>6. CASE /\ Top.t # "anon" /\ phase' = "authcrypt"
           /\ UNCHANGED <<view, packVars, at, env, got, trail>>
  <2>1. ShapeInv'
    BY <1>1, <1>6, ShapeInvKeeps
  <2>2. Top.t = "auth" /\ CoreAt(layers, 1, choice, claim) /\ ~choice.protect
    BY <1>3, <1>6, AuthOnTop DEF Top
  <2>3. layers' = layers /\ Top' = Top /\ got' = got /\ env' = env
    BY <1>6 DEF packVars, Top
  <2>4. /\ got.anonymous <=> choice.protect \/ got.rewrapped
        /\ env.from # None => got.encrypted /\ got.kids = Top.kids /\ got.authenticated
    BY <1>1, <1>6, <2>2 DEF MetaInv
  <2> QED BY <1>1, <1>6, <2>1, <2>2, <2>3, <2>4 DEF MetaInv
<1>7. CASE /\ Top.t = "anon"
           /\ LET rest == Tail(layers)
              IN  IF ForwardHere(rest)
                  THEN /\ layers' = Tail(rest)
                       /\ got' = [Anoncrypted(got) EXCEPT !.rewrapped = TRUE]
                       /\ trail' = Append(trail, rest[1].next)
                       /\ UNCHANGED phase
                  ELSE /\ layers' = rest
                       /\ got' = Anoncrypted(got)
                       /\ phase' = "authcrypt"
                       /\ UNCHANGED trail
           /\ UNCHANGED <<view, choice, stage, claim, route, at, env>>
  <2>1. env.from = None /\ got.from = None /\ ~got.authenticated /\ env' = env
    BY <1>1, <1>7 DEF MetaInv
  <2>2. PICK rest : rest = Tail(layers)
    OBVIOUS
  <2>3. \/ Forwarding(rest, choice, claim)
        \/ Hidden(choice) /\ rest[1].t = "auth" /\ CoreAt(rest, 1, choice, claim)
        \/ BodyFrom(rest, 0, claim) /\ choice.from = None /\ Top.kids = claim.kids
    BY <1>3, <1>7, <2>2, AnonOff DEF Top
  <2>4. Stack(a, rest)
    BY <1>1, <1>2, <1>7, <2>2, TopType
  <2>5. PICK m : m = Anoncrypted(got)
    OBVIOUS
  <2>6. /\ m \in Metadata /\ m.encrypted /\ m.anonymous /\ ~m.authenticated
        /\ m.kids = Top.kids /\ m.from = None /\ m.signer = None
    <3>1. Top.kids \in Seq(Kids)
      BY <1>1, <1>7, TopType DEF IsLayer, IsJwe
    <3> QED BY <1>1, <2>1, <2>5, <3>1 DEF Anoncrypted, Metadata
  <2>7. CASE ForwardHere(rest)
    <3>1. layers' = Tail(rest) /\ got' = [m EXCEPT !.rewrapped = TRUE] /\ phase' = "anoncrypt"
      BY <1>1, <1>7, <2>2, <2>5, <2>7
    <3>2. rest[1].t = "forward"
      BY <2>7 DEF ForwardHere
    <3>3. ~BodyFrom(rest, 0, claim)
      BY <2>4, <3>2, BodyOff
    <3>4. Forwarding(rest, choice, claim)
      BY <2>3, <3>2, <3>3
    <3>5. Whole(layers', choice, claim)
      BY <2>4, <3>1, <3>4, ForwardOff
    <3>6. ShapeInv'
      BY <1>1, <3>5, ShapeInvKeeps
    <3>7. got'.encrypted /\ got'.anonymous /\ got'.rewrapped /\ ~got'.authenticated
      BY <2>6, <3>1 DEF Metadata
    <3> QED BY <2>1, <3>1, <3>6, <3>7 DEF MetaInv
  <2>8. CASE ~ForwardHere(rest)
    <3>1. layers' = rest /\ got' = m /\ phase' = "authcrypt"
      BY <1>7, <2>2, <2>5, <2>8
    <3>2. ShapeInv'
      BY <1>1, <3>1, ShapeInvKeeps
    <3>3. Top' = rest[1]
      BY <3>1 DEF Top
    <3>4. CASE Forwarding(rest, choice, claim)
      BY <1>1, <3>1, <3>2, <3>4 DEF MetaInv
    <3>5. CASE Hidden(choice) /\ rest[1].t = "auth" /\ CoreAt(rest, 1, choice, claim)
      BY <1>1, <2>1, <2>6, <3>1, <3>2, <3>3, <3>5 DEF MetaInv, Hidden
    <3>6. CASE BodyFrom(rest, 0, claim) /\ choice.from = None /\ Top.kids = claim.kids
      <4>1. Decrypted(m, choice, claim)
        BY <1>4, <2>6, <3>6 DEF Decrypted
      <4> QED BY <1>1, <2>6, <3>1, <3>2, <3>6, <4>1 DEF MetaInv
    <3> QED BY <2>3, <3>4, <3>5, <3>6
  <2> QED BY <2>7, <2>8
<1> QED BY <1>5, <1>6, <1>7 DEF UnpackAnoncrypt

LEMMA MetaInvAuthcrypt ==
  ASSUME EnvInv, ShapeInv, MetaInv, UnpackAuthcrypt
  PROVE  ShapeInv' /\ MetaInv'
<1>1. /\ phase = "authcrypt" /\ stage = "packed" /\ PackInv /\ got \in Metadata
      /\ choice' = choice /\ stage' = stage /\ claim' = claim
      /\ got.from = env.from /\ got.signer = None
      /\ env.from # None => Top.t = "auth" /\ Top.skid = env.from
  BY DEF UnpackAuthcrypt, Refuse, EnvInv, ReadInv, SenderInv, packVars
<1>2. PICK a : a = Me
  OBVIOUS
<1>3. Stack(a, layers)
  BY <1>1, <1>2 DEF PackInv
<1>4. claim.from = None <=> choice.from = None
  BY <1>1 DEF ShapeInv
<1>5. \/ Forwarding(layers, choice, claim)
      \/ /\ Top.t = "auth" /\ CoreAt(layers, 1, choice, claim)
         /\ got.anonymous <=> choice.protect \/ got.rewrapped
         /\ env.from # None => got.encrypted /\ got.kids = Top.kids /\ got.authenticated
      \/ /\ BodyFrom(layers, 0, claim) /\ choice.from = None
         /\ Decrypted(got, choice, claim) /\ ~got.authenticated
  BY <1>1 DEF MetaInv
<1>6. CASE Refuse
  BY <1>1, <1>6, MetaInvEnds DEF Refuse
<1>7. CASE /\ Top.t # "auth" /\ phase' = "sign"
           /\ UNCHANGED <<view, packVars, at, env, got, ops, trail>>
  <2>1. ShapeInv'
    BY <1>1, <1>7, ShapeInvKeeps
  <2>2. layers' = layers /\ got' = got
    BY <1>7 DEF packVars
  <2>3. \/ Forwarding(layers, choice, claim)
        \/ /\ BodyFrom(layers, 0, claim) /\ Decrypted(got, choice, claim) /\ got.signer = None
           /\ got.authenticated <=> claim.from # None
    BY <1>1, <1>4, <1>5, <1>7
  <2> QED BY <1>1, <1>7, <2>1, <2>2, <2>3 DEF MetaInv
<1>8. CASE /\ Top.t = "auth"
           /\ got' = IF env.from = None THEN FilledMeta(Top, got) ELSE got
           /\ layers' = Tail(layers)
           /\ phase' = "sign"
  <2>1. ShapeInv'
    BY <1>1, <1>8, ShapeInvKeeps
  <2>2. layers[1].t = "auth"
    BY <1>8 DEF Top
  <2>3. ~Forwarding(layers, choice, claim) /\ ~BodyFrom(layers, 0, claim)
    BY <1>3, <2>2, BodyOff DEF Forwarding
  <2>4. /\ CoreAt(layers, 1, choice, claim)
        /\ got.anonymous <=> choice.protect \/ got.rewrapped
        /\ env.from # None => got.encrypted /\ got.kids = Top.kids /\ got.authenticated
    BY <1>5, <2>3
  <2>5. BodyFrom(layers', 0, claim)
    BY <1>3, <1>8, <2>4, CoreOff
  <2>6. choice.from # None /\ Top.kids = claim.kids /\ Top.skid = claim.from
    BY <1>8, <2>4 DEF CoreAt, Top
  <2>7. /\ got'.encrypted /\ got'.from = claim.from /\ got'.kids = claim.kids
        /\ got'.anonymous <=> choice.protect \/ got'.rewrapped
        /\ got'.authenticated /\ got'.signer = None
    <3>1. CASE env.from = None
      <4>1. got' = [got EXCEPT !.authenticated = TRUE, !.encrypted = TRUE,
                               !.from = Top.skid, !.kids = Top.kids]
        BY <1>8, <3>1 DEF FilledMeta
      <4>2. /\ got'.authenticated /\ got'.encrypted /\ got'.from = Top.skid
            /\ got'.kids = Top.kids /\ got'.anonymous = got.anonymous
            /\ got'.rewrapped = got.rewrapped /\ got'.signer = got.signer
        BY <1>1, <4>1 DEF Metadata
      <4> QED BY <1>1, <2>4, <2>6, <4>2
    <3>2. CASE env.from # None
      <4>1. got' = got
        BY <1>8, <3>2
      <4> QED BY <1>1, <2>4, <2>6, <3>2, <4>1
    <3> QED BY <3>1, <3>2
  <2>8. Decrypted(got', choice, claim) /\ got'.signer = None
        /\ (got'.authenticated <=> claim.from # None)
    BY <1>4, <2>6, <2>7 DEF Decrypted
  <2> QED BY <1>1, <1>8, <2>1, <2>5, <2>8 DEF MetaInv
<1> QED BY <1>6, <1>7, <1>8 DEF UnpackAuthcrypt

LEMMA MetaInvSign ==
  ASSUME EnvInv, ShapeInv, MetaInv, UnpackSign
  PROVE  ShapeInv' /\ MetaInv'
<1>1. /\ phase = "sign" /\ stage = "packed" /\ PackInv /\ got \in Metadata
      /\ choice' = choice /\ stage' = stage /\ claim' = claim
  BY DEF UnpackSign, Refuse, EnvInv, ReadInv, packVars
<1>2. PICK a : a = Me
  OBVIOUS
<1>3. Stack(a, layers)
  BY <1>1, <1>2 DEF PackInv
<1>4. \/ Forwarding(layers, choice, claim)
      \/ /\ BodyFrom(layers, 0, claim) /\ Decrypted(got, choice, claim)
         /\ got.signer = None
         /\ got.authenticated <=> claim.from # None
  BY <1>1 DEF MetaInv
<1>5. CASE Refuse
  BY <1>1, <1>5, MetaInvEnds DEF Refuse
<1>6. CASE /\ Top.t # "sign" /\ phase' = "plaintext"
           /\ UNCHANGED <<view, packVars, at, env, got, ops, trail>>
  <2>1. ShapeInv'
    BY <1>1, <1>6, ShapeInvKeeps
  <2>2. layers' = layers /\ got' = got /\ Top' = Top
    BY <1>6 DEF packVars, Top
  <2>3. BodyFrom(layers, 0, claim) => Top.t = "plain" /\ claim.signer = None
    BY <1>3, <1>6, BodyOff DEF Top
  <2>4. \/ Forwarding(layers, choice, claim)
        \/ Top.t = "plain" /\ Verified(got, choice, claim)
    BY <1>4, <2>3 DEF Verified
  <2> QED BY <1>1, <1>6, <2>1, <2>2, <2>4 DEF MetaInv
<1>7. CASE /\ Top.t = "sign"
           /\ layers' = Tail(layers)
           /\ got' = [got EXCEPT !.authenticated = TRUE, !.signer = Top.kid]
           /\ phase' = "plaintext"
  <2>1. ShapeInv'
    BY <1>1, <1>7, ShapeInvKeeps
  <2>2. ~Forwarding(layers, choice, claim)
    BY <1>7 DEF Forwarding, Top
  <2>3. claim.signer = Top.kid /\ claim.signer # None /\ Tail(layers)[1].t = "plain"
    BY <1>3, <1>4, <1>7, <2>2, BodyOff DEF Top
  <2>4. Top'.t = "plain"
    BY <1>7, <2>3 DEF Top
  <2>5. /\ got'.authenticated /\ got'.signer = Top.kid
        /\ got'.encrypted = got.encrypted /\ got'.from = got.from /\ got'.kids = got.kids
        /\ got'.anonymous = got.anonymous /\ got'.rewrapped = got.rewrapped
    BY <1>1, <1>7 DEF Metadata
  <2>6. Verified(got', choice, claim)
    BY <1>4, <2>2, <2>3, <2>5 DEF Verified, Decrypted
  <2> QED BY <1>1, <1>7, <2>1, <2>4, <2>6 DEF MetaInv
<1> QED BY <1>5, <1>6, <1>7 DEF UnpackSign

LEMMA MetaInvPlaintext ==
  ASSUME EnvInv, ShapeInv, MetaInv, UnpackPlaintext
  PROVE  ShapeInv' /\ MetaInv'
<1>1. /\ phase = "plaintext" /\ stage = "packed" /\ got \in Metadata /\ Top.t = "plain"
      /\ choice' = choice /\ stage' = stage /\ claim' = claim
  BY DEF UnpackPlaintext, EnvInv, ReadInv, packVars
<1>2. Verified(got, choice, claim)
  BY <1>1 DEF MetaInv, Forwarding, Top
<1>3. CASE phase' = "refused"
  BY <1>1, <1>3, MetaInvEnds
<1>4. CASE phase' = "opened"
           /\ got' = [got EXCEPT !.prior = IF Top.prior = None THEN None ELSE Top.prior.kid]
  <2>1. ShapeInv'
    BY <1>1, <1>4, ShapeInvKeeps
  <2>2. /\ got'.authenticated = got.authenticated /\ got'.signer = got.signer
        /\ got'.encrypted = got.encrypted /\ got'.from = got.from /\ got'.kids = got.kids
        /\ got'.anonymous = got.anonymous /\ got'.rewrapped = got.rewrapped
    BY <1>1, <1>4 DEF Metadata
  <2>3. Verified(got', choice, claim)
    BY <1>2, <2>2 DEF Verified, Decrypted
  <2> QED BY <1>1, <1>4, <2>1, <2>3 DEF MetaInv
<1> QED BY <1>3, <1>4 DEF UnpackPlaintext

LEMMA MetaInvRelay ==
  ASSUME EnvInv, ShapeInv, MetaInv, Relay
  PROVE  ShapeInv' /\ MetaInv'
<1>1. /\ phase = "plaintext" /\ stage = "packed" /\ PackInv /\ Top.t = "forward"
      /\ choice' = choice /\ stage' = stage /\ claim' = claim
  BY DEF Relay, RelayAtMediator, ForwardForClient, EnvInv, ReadInv, packVars
<1>2. CASE ForwardForClient
  BY <1>1, <1>2, MetaInvEnds DEF ForwardForClient
<1>3. CASE RelayAtMediator
  <2>1. phase' = "inbox" /\ layers' = Tail(layers)
    BY <1>3 DEF RelayAtMediator
  <2>2. PICK a : a = Me
    OBVIOUS
  <2>3. Stack(a, layers) /\ Forwarding(layers, choice, claim)
    BY <1>1, <2>2 DEF PackInv, MetaInv
  <2>4. Whole(layers', choice, claim)
    BY <2>1, <2>3, ForwardOff
  <2>5. ShapeInv'
    BY <1>1, <2>4, ShapeInvKeeps
  <2> QED BY <2>1, <2>5 DEF MetaInv
<1> QED BY <1>2, <1>3 DEF Relay

LEMMA MetaInvSend ==
  ASSUME ShapeInv, Send
  PROVE  ShapeInv' /\ MetaInv'
<1>1. /\ phase = "sender" /\ stage = "packed" /\ phase' = "inbox"
      /\ choice' = choice /\ stage' = stage /\ claim' = claim /\ layers' = layers
  BY DEF Send, packVars
<1>2. ShapeInv'
  BY <1>1, ShapeInvKeeps DEF ShapeInv
<1> QED BY <1>1, <1>2 DEF MetaInv

\* Pack makes, and unpack leaves, what the metadata describe.
LEMMA MetaInvHolds ==
  EnvelopeSpec => [](ShapeInv /\ MetaInv)
<1>1. EnvelopeInit => ShapeInv /\ MetaInv
  <2>1. SUFFICES ASSUME EnvelopeInit PROVE ShapeInv /\ MetaInv
    OBVIOUS
  <2>2. stage = "prior" /\ phase = "sender" /\ claim = NoClaim /\ layers = <<PlainLayer(None)>>
    BY <2>1 DEF EnvelopeInit, PackInit
  <2>3. PICK l : l = PlainLayer(None)
    OBVIOUS
  <2>4. Len(<<l>>) = 0 + 1 /\ <<l>>[0 + 1] = l /\ l.t = "plain"
    <3>1. Len(<<l>>) = 0 + 1 /\ <<l>>[0 + 1] = l
      OBVIOUS
    <3>2. l.t = "plain"
      BY <2>3 DEF PlainLayer
    <3> QED BY <3>1, <3>2
  <2>5. NoClaim.signer = None
    BY DEF NoClaim
  <2>6. BodyFrom(layers, 0, claim)
    BY <2>2, <2>3, <2>4, <2>5 DEF BodyFrom
  <2> QED BY <2>2, <2>6 DEF ShapeInv, MetaInv
<1>2. EnvInv /\ (ShapeInv /\ MetaInv) /\ [EnvelopeNext]_envelopeVars => (ShapeInv /\ MetaInv)'
  <2>1. SUFFICES ASSUME EnvInv, ShapeInv, MetaInv, [EnvelopeNext]_envelopeVars
                 PROVE  ShapeInv' /\ MetaInv'
    OBVIOUS
  <2>2. CASE UNCHANGED <<packVars, unpackVars>>
    <3>1. /\ choice' = choice /\ stage' = stage /\ claim' = claim /\ layers' = layers
          /\ phase' = phase /\ got' = got /\ env' = env /\ Top' = Top
      BY <2>2 DEF packVars, unpackVars, Top
    <3>2. ShapeInv'
      BY <2>1, <3>1 DEF ShapeInv
    <3>3. MetaInv'
      BY <2>1, <3>1 DEF MetaInv
    <3> QED BY <3>2, <3>3
  <2>3. CASE LearnSome
    BY <2>2, <2>3 DEF LearnSome
  <2>4. CASE UNCHANGED envelopeVars
    BY <2>2, <2>4 DEF envelopeVars
  <2>5. CASE PackSome
    BY <2>1, <2>5, ShapeInvPack DEF MetaInv
  <2>6. CASE Unpack
    BY <2>1, <2>6, MetaInvOpen, MetaInvAnoncrypt, MetaInvAuthcrypt, MetaInvSign,
       MetaInvPlaintext, MetaInvRelay DEF Unpack
  <2> QED BY <2>1, <2>2, <2>3, <2>4, <2>5, <2>6, MetaInvSend DEF EnvelopeNext
<1> QED BY <1>1, <1>2, EnvInvHolds, PTL DEF EnvelopeSpec

\* What unpack reports of an opened message (UnpackMetadata) is what pack
\* reported of it (PackEncryptedMetadata): the same sender key, signer and
\* recipient keys, through every layer that protect_sender and the route put
\* around it, and anonymous_sender exactly when a layer hid the sender's key.
THEOREM MetadataIsTrue ==
  EnvelopeSpec => []MetadataAgrees
<1>1. ShapeInv /\ MetaInv => MetadataAgrees
  <2>1. SUFFICES ASSUME MetaInv, phase = "opened"
                 PROVE  /\ got.encrypted
                        /\ got.from = claim.from
                        /\ got.kids = claim.kids
                        /\ got.signer = claim.signer
                        /\ got.authenticated <=> {claim.from, claim.signer} # {None}
                        /\ got.anonymous <=> choice.from = None \/ choice.protect \/ got.rewrapped
    BY DEF MetadataAgrees
  <2>2. Verified(got, choice, claim)
    BY <2>1 DEF MetaInv
  <2>3. {claim.from, claim.signer} # {None} <=> claim.from # None \/ claim.signer # None
    OBVIOUS
  <2> QED BY <2>2, <2>3 DEF Verified, Decrypted
<1> QED BY <1>1, MetaInvHolds, PTL

-----------------------------------------------------------------------------
(* What the layers are while the documents stay as they were *)

\* The layer was made for the keys of `x`, as the first documents have them.
MadeFor(l, x) ==
  LET doc == First(Did(x))
  IN  \A k \in ToSet(l.kids) :
        /\ k \in ToSet(Agreement(doc, x))
        /\ k \in DOMAIN doc.key /\ k \in DOMAIN l.key
        /\ l.key[k] = doc.key[k]

\* A document has the key, under its own id, for authentication.
Published(kid, key) ==
  LET doc == First(DidOf[kid])
  IN  kid \in ToSet(doc.auth) /\ kid \in DOMAIN doc.key /\ doc.key[kid] = key

\* The same for the key that a sender encrypts with.
SenderFits(kid, key) ==
  LET doc == First(DidOf[kid])
  IN  /\ kid \in ToSet(doc.agree) /\ kid \in DOMAIN doc.key /\ doc.key[kid] = key
      /\ Alg(doc, kid) # "unsupported"

\* A layer that the first documents account for.
Fresh(l) ==
  /\ IsJwe(l) => \E x \in Dids \cup Kids : MadeFor(l, x)
  /\ l.t = "auth" => SenderFits(l.skid, l.skey)
  /\ l.t = "sign" => Published(l.kid, l.key)
  /\ l.t = "plain" /\ l.prior # None => Published(l.prior.kid, l.prior.key)

\* What is below a forward is for its addressee, what protect_sender hides is for
\* the same keys, and below the innermost JWE is the body.
Follows(l, m) ==
  /\ l.t = "forward" => IsJwe(m) /\ MadeFor(m, l.next)
  /\ l.t = "anon" => /\ m.t # "anon"
                     /\ m.t = "auth" => \A x \in Dids \cup Kids : MadeFor(l, x) => MadeFor(m, x)
  /\ l.t = "auth" => m.t \in {"sign", "plain"}
  /\ l.t = "sign" => m.t = "plain"

Sound(ls) ==
  /\ \A i \in DOMAIN ls : Fresh(ls[i])
  /\ \A i \in DOMAIN ls : i + 1 \in DOMAIN ls => Follows(ls[i], ls[i + 1])

-----------------------------------------------------------------------------
(* While the documents stay as they were *)

LEMMA FirstDocuments ==
  ASSUME ViewOK, Steady, NEW a \in Dids, NEW d \in Dids
  PROVE  /\ Doc(a, d) = First(d) /\ Resolves(a, d)
         /\ IsDocument(First(d)) /\ First(d) # NoDoc
<1>1. view[a][d] = 1 /\ 1 \in 1..Len(Versions[d])
  BY DEF Steady, ViewOK
<1>2. Versions[d][1] # NoDoc
  BY VersionsAssumption
<1>3. IsDocument(Versions[d][1])
  BY <1>1, <1>2, DocumentsAssumption
<1> QED BY <1>1, <1>2, <1>3 DEF Doc, First, Resolves

\* Nothing that a resolver learns is forgotten.
LEMMA OnceSteady ==
  ASSUME EnvInv, [EnvelopeNext]_envelopeVars, Steady'
  PROVE  Steady /\ view' = view
<1>1. ViewOK
  BY DEF EnvInv, PackInv
<1>2. CASE LearnSome
  <2>1. PICK w \in Watch : Learn(w[1], w[2])
    BY <1>2 DEF LearnSome
  <2>2. PICK a, d : a = w[1] /\ d = w[2]
    OBVIOUS
  <2>3. view[a][d] < Len(Versions[d]) /\ view' = [view EXCEPT ![a][d] = @ + 1]
    BY <2>1, <2>2 DEF Learn
  <2>4. CASE a \in Dids /\ d \in Dids
    <3>1. view[a][d] \in Nat /\ view[a][d] >= 1
      BY <1>1, <2>4 DEF ViewOK
    <3>2. view'[a][d] = view[a][d] + 1
      BY <1>1, <2>3, <2>4 DEF ViewOK
    <3>3. view'[a][d] = 1
      BY <2>4 DEF Steady
    <3> QED BY <3>1, <3>2, <3>3
  <2>5. CASE ~(a \in Dids /\ d \in Dids)
    <3>1. view' = view
      BY <1>1, <2>3, <2>5 DEF ViewOK
    <3> QED BY <3>1 DEF Steady
  <2> QED BY <2>4, <2>5
<1>3. CASE view' = view
  BY <1>3 DEF Steady
<1>4. \/ LearnSome \/ view' = view
  BY DEF EnvelopeNext, envelopeVars, PackSome, Pack, PackPrior, PackBody, Encrypt, ChooseRoute,
     WrapLayer, PackError, Fail, Send, Unpack, Open, Refuse, UnpackAnoncrypt, UnpackAuthcrypt,
     UnpackSign, UnpackPlaintext, Relay, RelayAtMediator, ForwardForClient
<1> QED BY <1>2, <1>3, <1>4

-----------------------------------------------------------------------------
(* The layers that a packing makes fit the first documents *)

LEMMA SupportedIs ==
  ASSUME NEW doc, IsDocument(doc), NEW s \in Seq(Kids)
  PROVE  \A k \in ToSet(Supported(doc, s)) :
           k \in ToSet(s) /\ k \in DOMAIN doc.key /\ Alg(doc, k) # "unsupported"
<1> DEFINE S == {k \in DOMAIN doc.key : Alg(doc, k) # "unsupported"}
<1>1. S \in SUBSET Kids
  BY DEF IsDocument
<1>2. Supported(doc, s) = Keep(s, S)
  BY DEF Supported
<1>3. \A k \in S : k \in DOMAIN doc.key /\ Alg(doc, k) # "unsupported"
  OBVIOUS
<1> HIDE DEF S
<1>4. ToSet(Keep(s, S)) = ToSet(s) \cap S
  BY <1>1, KeepType
<1> QED BY <1>2, <1>3, <1>4

LEMMA MadeForLayer ==
  ASSUME NEW x, NEW doc, doc = First(Did(x)), NEW kids,
         ToSet(kids) \subseteq ToSet(Agreement(doc, x)), ToSet(kids) \subseteq DOMAIN doc.key,
         NEW l, l.kids = kids, l.key = EncryptedKeys(doc, kids)
  PROVE  MadeFor(l, x)
BY DEF MadeFor, EncryptedKeys, PublicKey

LEMMA AnonMadeFor ==
  ASSUME ViewOK, Steady, NEW a \in Dids, NEW x \in Dids \cup Kids, CanAnoncrypt(a, x)
  PROVE  Fresh(Anoncrypt(a, x)) /\ MadeFor(Anoncrypt(a, x), x)
<1>1. PICK d \in Dids : d = Did(x)
  BY DidType
<1>2. PICK doc : doc = Doc(a, d) /\ doc = First(d) /\ IsDocument(doc)
  BY FirstDocuments
<1>3. PICK kids : kids = Agreement(doc, x) /\ kids \in Seq(Kids)
  BY <1>2, AgreementType
<1>4. PICK alg : alg = AnonAlg(doc, kids)
  OBVIOUS
<1>5. alg \in Algs
  BY <1>1, <1>2, <1>3, <1>4 DEF CanAnoncrypt, Algs
<1>6. AnonKids(a, x) = WithAlg(doc, kids, alg)
  BY <1>1, <1>2, <1>3, <1>4 DEF AnonKids
<1>7. ToSet(WithAlg(doc, kids, alg)) = OfAlg(doc, kids, alg)
  BY <1>2, <1>3, <1>5, AlgType
<1>8. ToSet(AnonKids(a, x)) \subseteq ToSet(kids) /\ ToSet(AnonKids(a, x)) \subseteq DOMAIN doc.key
  BY <1>6, <1>7 DEF OfAlg
<1>9. PICK l : l = Anoncrypt(a, x)
  OBVIOUS
<1>10. l.t = "anon" /\ l.kids = AnonKids(a, x) /\ l.key = EncryptedKeys(doc, AnonKids(a, x))
  BY <1>1, <1>2, <1>9 DEF Anoncrypt, AnonLayer
<1>11. MadeFor(l, x)
  BY <1>1, <1>2, <1>3, <1>8, <1>10, MadeForLayer
<1>12. Fresh(l)
  BY <1>10, <1>11 DEF Fresh
<1> QED BY <1>9, <1>11, <1>12

LEMMA FromKidIs ==
  ASSUME ViewOK, Steady, NEW a \in Dids, NEW from \in Dids \cup Kids, NEW to \in Dids \cup Kids,
         CanAuthcrypt(a, from, to)
  PROVE  LET doc == First(Did(from))
             k == FromKid(a, from, to)
         IN  /\ k \in ToSet(doc.agree) /\ k \in DOMAIN doc.key /\ Alg(doc, k) # "unsupported"
             /\ k \in Kids /\ k \in DOMAIN Wallet[a]
<1>1. PICK f \in Dids, d \in Dids : f = Did(from) /\ d = Did(to)
  BY DidType
<1>2. PICK fdoc, doc : /\ fdoc = Doc(a, f) /\ fdoc = First(f) /\ IsDocument(fdoc)
                       /\ doc = Doc(a, d)
  BY FirstDocuments
<1>3. PICK kids, own : kids = Agreement(doc, to) /\ own = Agreement(fdoc, from)
  OBVIOUS
<1>4. own \in Seq(Kids) /\ ToSet(own) \subseteq ToSet(fdoc.agree)
  BY <1>2, <1>3, AgreementType
<1>5. PICK held : held = Held(a, own)
  OBVIOUS
<1>6. held \in Seq(Kids) /\ ToSet(held) = ToSet(own) \cap DOMAIN Wallet[a]
  BY <1>4, <1>5, HeldType
<1>7. PICK sup : sup = Supported(fdoc, held)
  OBVIOUS
<1>8. /\ sup \in Seq(Kids)
      /\ \A k \in ToSet(sup) : k \in ToSet(held) /\ k \in DOMAIN fdoc.key /\ Alg(fdoc, k) # "unsupported"
  <2>1. sup \in Seq(Kids)
    BY <1>2, <1>6, <1>7, AlgType
  <2> QED BY <2>1, <1>2, <1>6, <1>7, SupportedIs
<1> DEFINE S == {k \in DOMAIN fdoc.key : \E l \in ToSet(kids) : Alg(doc, l) = Alg(fdoc, k)}
<1>9. Common(a, from, to) = Keep(sup, S)
  BY <1>1, <1>2, <1>3, <1>5, <1>7 DEF Common
<1>10. S \in SUBSET Kids
  BY <1>2 DEF IsDocument
<1>11. Common(a, from, to) # <<>>
  BY DEF CanAuthcrypt
<1>12. PICK k : k = FromKid(a, from, to)
  OBVIOUS
<1>13. k \in ToSet(sup) /\ k \in Kids
  <2> HIDE DEF S
  <2>1. Keep(sup, S) \in Seq(Kids) /\ ToSet(Keep(sup, S)) = ToSet(sup) \cap S
    BY <1>8, <1>10, KeepType
  <2>2. k = Head(Keep(sup, S))
    BY <1>9, <1>12 DEF FromKid
  <2>3. k \in ToSet(Keep(sup, S)) /\ ToSet(Keep(sup, S)) \subseteq Kids
    BY <1>9, <1>11, <2>1, <2>2, ToSetFacts
  <2> QED BY <2>1, <2>3
<1>14. k \in ToSet(held) /\ k \in DOMAIN fdoc.key /\ Alg(fdoc, k) # "unsupported"
  BY <1>8, <1>13
<1>15. k \in ToSet(fdoc.agree) /\ k \in DOMAIN Wallet[a]
  BY <1>4, <1>6, <1>14
<1> QED BY <1>1, <1>2, <1>12, <1>13, <1>14, <1>15

LEMMA AuthKidsAre ==
  ASSUME ViewOK, Steady, NEW a \in Dids, NEW from \in Dids \cup Kids, NEW to \in Dids \cup Kids,
         CanAuthcrypt(a, from, to)
  PROVE  LET doc == First(Did(to))
         IN  /\ ToSet(AuthKids(a, from, to)) \subseteq ToSet(Agreement(doc, to))
             /\ ToSet(AuthKids(a, from, to)) \subseteq DOMAIN doc.key
<1>1. PICK f \in Dids, d \in Dids : f = Did(from) /\ d = Did(to)
  BY DidType
<1>2. PICK doc : doc = Doc(a, d) /\ doc = First(d) /\ IsDocument(doc)
  BY FirstDocuments
<1>3. PICK kids : kids = Agreement(doc, to) /\ kids \in Seq(Kids)
  BY <1>2, AgreementType
<1>4. PICK alg : alg = Alg(Doc(a, f), FromKid(a, from, to))
  OBVIOUS
<1>5. alg \in Algs
  BY <1>1, <1>4 DEF CanAuthcrypt, Algs
<1>6. AuthKids(a, from, to) = WithAlg(doc, kids, alg)
  BY <1>1, <1>2, <1>3, <1>4 DEF AuthKids
<1>7. ToSet(WithAlg(doc, kids, alg)) = OfAlg(doc, kids, alg)
  BY <1>2, <1>3, <1>5, AlgType
<1> QED BY <1>1, <1>2, <1>3, <1>6, <1>7 DEF OfAlg

\* The authcrypt layer, and the layer that protect_sender puts around it.
LEMMA AuthMadeFor ==
  ASSUME SecretsFit, ViewOK, Steady, NEW a \in Dids, NEW from \in Dids \cup Kids,
         NEW to \in Dids \cup Kids, CanAuthcrypt(a, from, to),
         NEW l, l = Authcrypt(a, from, to),
         NEW m, m = AnonLayer(Doc(a, Did(to)), AuthKids(a, from, to))
  PROVE  Fresh(l) /\ MadeFor(l, to) /\ Fresh(m) /\ MadeFor(m, to) /\ Follows(m, l)
<1>1. PICK f \in Dids, d \in Dids : f = Did(from) /\ d = Did(to)
  BY DidType
<1>2. PICK doc : doc = Doc(a, d) /\ doc = First(d)
  BY FirstDocuments
<1>3. PICK kids, k : kids = AuthKids(a, from, to) /\ k = FromKid(a, from, to)
  OBVIOUS
<1>4. /\ l.t = "auth" /\ l.kids = kids /\ l.key = EncryptedKeys(doc, kids)
      /\ l.skid = k /\ l.skey = Wallet[a][k]
  BY <1>1, <1>2, <1>3 DEF Authcrypt, AuthLayer, Secret
<1>5. m.t = "anon" /\ m.kids = kids /\ m.key = EncryptedKeys(doc, kids)
  BY <1>1, <1>2, <1>3 DEF AnonLayer
<1>6. ToSet(kids) \subseteq ToSet(Agreement(doc, to)) /\ ToSet(kids) \subseteq DOMAIN doc.key
  BY <1>1, <1>2, <1>3, AuthKidsAre
<1>7. MadeFor(l, to) /\ MadeFor(m, to)
  BY <1>1, <1>2, <1>4, <1>5, <1>6, MadeForLayer
<1>8. /\ k \in ToSet(First(f).agree) /\ k \in DOMAIN First(f).key
      /\ Alg(First(f), k) # "unsupported" /\ k \in Kids /\ k \in DOMAIN Wallet[a]
  BY <1>1, <1>3, FromKidIs
<1>9. DidOf[k] = f /\ Wallet[a][k] = First(f).key[k]
  BY <1>8 DEF SecretsFit, PublicKey
<1>10. SenderFits(l.skid, l.skey)
  BY <1>4, <1>8, <1>9 DEF SenderFits
<1>11. Fresh(l) /\ Fresh(m)
  BY <1>4, <1>5, <1>7, <1>10 DEF Fresh
<1>12. Follows(m, l)
  BY <1>4, <1>5 DEF Follows, MadeFor
<1> QED BY <1>7, <1>11, <1>12

LEMMA SignerFits ==
  ASSUME SecretsFit, ViewOK, Steady, NEW a \in Dids, NEW x \in Dids \cup Kids, CanSign(a, x)
  PROVE  Published(Head(Signers(a, x)), Secret(a, Head(Signers(a, x))))
<1>1. PICK d \in Dids : d = Did(x)
  BY DidType
<1>2. PICK doc : doc = Doc(a, d) /\ doc = First(d) /\ IsDocument(doc)
  BY FirstDocuments
<1>3. PICK s \in Seq(Kids) : s = Authentication(doc, x) /\ ToSet(s) \subseteq ToSet(doc.auth)
  BY <1>2, OnlyType DEF IsDocument, Authentication
<1>4. Held(a, s) \in Seq(Kids) /\ ToSet(Held(a, s)) = ToSet(s) \cap DOMAIN Wallet[a]
  BY HeldType
<1>5. Signers(a, x) = Held(a, s) /\ Signers(a, x) # <<>>
  BY <1>1, <1>2, <1>3 DEF Signers, CanSign
<1>6. PICK k : k = Head(Signers(a, x))
  OBVIOUS
<1>7. k \in ToSet(doc.auth) /\ k \in DOMAIN Wallet[a]
  <2>1. k \in ToSet(Held(a, s))
    BY <1>4, <1>5, <1>6, ToSetFacts
  <2> QED BY <1>3, <1>4, <2>1
<1>8. DidOf[k] = d /\ k \in DOMAIN doc.key /\ Wallet[a][k] = doc.key[k]
  BY <1>2, <1>7 DEF SecretsFit, HasMethod, PublicKey
<1> QED BY <1>2, <1>6, <1>7, <1>8 DEF Published, Secret

-----------------------------------------------------------------------------
(* What the reader finds *)

LEMMA PublishedVerifies ==
  ASSUME ViewOK, Steady, NEW a \in Dids, NEW kid \in Kids, NEW key, Published(kid, key)
  PROVE  Verifies(a, kid, key)
<1>1. PICK d \in Dids : d = Did(kid) /\ d = DidOf[kid]
  BY KidsAssumption DEF Did
<1>2. PICK doc : doc = Doc(a, d) /\ doc = First(d) /\ IsDocument(doc) /\ Resolves(a, d)
  BY FirstDocuments
<1>3. kid \in ToSet(doc.auth) /\ kid \in DOMAIN doc.key /\ doc.key[kid] = key
  BY <1>1, <1>2 DEF Published
<1>4. Contains(doc.auth, kid)
  BY <1>2, <1>3 DEF Contains, ToSet, IsDocument
<1> QED BY <1>1, <1>2, <1>3, <1>4 DEF Verifies, HasMethod, SignedWith, PublicKey

LEMMA SenderIsKnown ==
  ASSUME ViewOK, Steady, at \in Dids, NEW l, l.t = "auth", l.skid \in Kids,
         SenderFits(l.skid, l.skey)
  PROVE  SenderKnown(l) /\ Doc(at, Did(l.skid)).key[l.skid] = l.skey
<1>1. PICK k \in Kids : k = l.skid
  OBVIOUS
<1>2. PICK d \in Dids : d = Did(k) /\ d = DidOf[k]
  BY KidsAssumption DEF Did
<1>3. PICK doc : doc = Doc(at, d) /\ doc = First(d) /\ IsDocument(doc) /\ Resolves(at, d)
  BY FirstDocuments
<1>4. /\ k \in ToSet(doc.agree) /\ k \in DOMAIN doc.key /\ doc.key[k] = l.skey
      /\ Alg(doc, k) # "unsupported"
  BY <1>1, <1>2, <1>3 DEF SenderFits
<1>5. Contains(doc.agree, k)
  BY <1>3, <1>4 DEF Contains, ToSet, IsDocument
<1> QED BY <1>1, <1>2, <1>3, <1>4, <1>5 DEF SenderKnown, HasMethod

\* Every key that the reader holds of a layer opens it.
LEMMA HeldDecrypt ==
  ASSUME SecretsFit, ViewOK, Steady, at \in Dids, NEW x \in Dids \cup Kids,
         MadeFor(Top, x), Top.kids \in Seq(Kids), Held(at, Top.kids) # <<>>
  PROVE  AllDecrypt(Held(at, Top.kids))
<1>1. PICK d \in Dids : d = Did(x)
  BY DidType
<1>2. PICK doc : doc = First(d) /\ IsDocument(doc)
  BY FirstDocuments
<1>3. PICK found : found = Held(at, Top.kids)
  OBVIOUS
<1>4. found \in Seq(Kids) /\ ToSet(found) = ToSet(Top.kids) \cap DOMAIN Wallet[at]
  BY <1>3, HeldType
<1>5. \A k \in ToSet(found) : Decrypts(at, k, Top)
  <2>1. SUFFICES ASSUME NEW k \in ToSet(found) PROVE Decrypts(at, k, Top)
    OBVIOUS
  <2>2. k \in ToSet(Top.kids) /\ k \in DOMAIN Wallet[at]
    BY <1>4, <2>1
  <2>3. k \in ToSet(Agreement(doc, x)) /\ k \in DOMAIN Top.key /\ Top.key[k] = doc.key[k]
    BY <1>1, <1>2, <2>2 DEF MadeFor
  <2>4. k \in ToSet(doc.agree)
    BY <1>2, <2>3, AgreementType
  <2>5. Wallet[at][k] = doc.key[k]
    BY <1>2, <2>2, <2>4 DEF SecretsFit, PublicKey
  <2> QED BY <2>3, <2>5 DEF Decrypts, Secret
<1>6. \A i \in DOMAIN Tried(found) : Tried(found)[i] \in ToSet(found)
  <2>1. \A i \in DOMAIN found : found[i] \in ToSet(found)
    BY <1>4, ToSetFacts
  <2>2. DOMAIN SubSeq(found, 1, 1) = 1..1 /\ SubSeq(found, 1, 1)[1] = found[1] /\ 1 \in DOMAIN found
    BY <1>3, <1>4
  <2> QED BY <2>1, <2>2 DEF Tried
<1> QED BY <1>3, <1>5, <1>6 DEF AllDecrypt

-----------------------------------------------------------------------------
(* Layers are put on and taken off *)

LEMMA SoundOver ==
  ASSUME NEW T, NEW l \in T, NEW ls \in Seq(T), ls # <<>>, Sound(ls), Fresh(l), Follows(l, ls[1])
  PROVE  Sound(<<l>> \o ls)
<1>1. PICK j : j = <<l>> \o ls
  OBVIOUS
<1>2. /\ j \in Seq(T) /\ Len(j) = Len(ls) + 1 /\ j[1] = l
      /\ \A i \in 1..Len(ls) : j[i + 1] = ls[i]
  BY <1>1, ConsIs
<1>3. Len(ls) \in Nat /\ Len(ls) > 0 /\ DOMAIN j = 1..(Len(ls) + 1) /\ DOMAIN ls = 1..Len(ls)
  BY <1>2
<1>4. ASSUME NEW i \in DOMAIN j
      PROVE  Fresh(j[i]) /\ (i + 1 \in DOMAIN j => Follows(j[i], j[i + 1]))
  <2>1. CASE i = 1
    <3>1. j[i] = l /\ j[i + 1] = ls[1]
      BY <1>2, <1>3, <2>1
    <3> QED BY <3>1
  <2>2. CASE i # 1
    <3>1. PICK n \in DOMAIN ls : i = n + 1
      <4>1. i - 1 \in 1..Len(ls) /\ i = (i - 1) + 1
        BY <1>3, <1>4, <2>2
      <4> QED BY <1>3, <4>1
    <3>2. j[i] = ls[n] /\ (i + 1 \in DOMAIN j => n + 1 \in DOMAIN ls /\ j[i + 1] = ls[n + 1])
      BY <1>2, <1>3, <3>1
    <3> QED BY <3>1, <3>2 DEF Sound
  <2> QED BY <2>1, <2>2
<1> QED BY <1>1, <1>4 DEF Sound

LEMMA SoundUnder ==
  ASSUME NEW a, NEW ls, Stack(a, ls), ls[1].t # "plain", Sound(ls)
  PROVE  Sound(Tail(ls))
<1>1. PICK tl : tl = Tail(ls)
  OBVIOUS
<1>2. /\ Stack(a, tl) /\ Len(tl) = Len(ls) - 1 /\ Len(ls) \in Nat
      /\ \A i \in 1..Len(tl) : tl[i] = ls[i + 1]
  BY <1>1, StackTail
<1>3. DOMAIN tl = 1..Len(tl) /\ DOMAIN ls = 1..Len(ls)
  BY <1>2, StackTop
<1>4. ASSUME NEW i \in DOMAIN tl
      PROVE  Fresh(tl[i]) /\ (i + 1 \in DOMAIN tl => Follows(tl[i], tl[i + 1]))
  <2>1. tl[i] = ls[i + 1] /\ i + 1 \in DOMAIN ls
    BY <1>2, <1>3, <1>4
  <2>2. i + 1 \in DOMAIN tl => tl[i + 1] = ls[(i + 1) + 1] /\ (i + 1) + 1 \in DOMAIN ls
    BY <1>2, <1>3, <1>4
  <2> QED BY <2>1, <2>2 DEF Sound
<1> QED BY <1>1, <1>4 DEF Sound

\* The layer below the outermost one.
LEMMA SoundNext ==
  ASSUME NEW a, NEW ls, Stack(a, ls), ls[1].t # "plain", Sound(ls)
  PROVE  Fresh(ls[1]) /\ Follows(ls[1], Tail(ls)[1])
<1>1. Tail(ls)[1] = ls[1 + 1]
  BY TailTop
<1>2. Len(ls) \in Nat /\ Len(ls) > 1 /\ DOMAIN ls = 1..Len(ls)
  BY StackTail, StackTop
<1>3. 1 \in DOMAIN ls /\ 1 + 1 \in DOMAIN ls
  BY <1>2
<1> QED BY <1>1, <1>3 DEF Sound

\* Every layer fits the first documents, the route leads to who can open it, and the
\* reader has found the key of the sender that was used.
SoundInv ==
  Steady =>
    /\ Sound(layers)
    /\ stage = "route" => IsJwe(Top) /\ MadeFor(Top, choice.to)
    /\ stage = "wrap" => IsJwe(Top) /\ MadeFor(Top, route.next)
    /\ phase \in {"anoncrypt", "authcrypt"} /\ env.from # None =>
         env.key = First(DidOf[env.from]).key[env.from]

LEMMA SoundEncrypt ==
  ASSUME SecretsFit, EnvInv, ShapeInv, Steady, Sound(layers), Encrypt
  PROVE  Sound(layers') /\ IsJwe(layers'[1]) /\ MadeFor(layers'[1], choice.to)
<1>1. PICK a \in Dids : a = Me
  BY MeType DEF EnvInv
<1>2. /\ stage = "encrypt" /\ ViewOK /\ Stack(a, layers) /\ BodyFrom(layers, 0, claim)
      /\ layers' = Jwes \o layers /\ CanEncrypt /\ choice.to \in Dids \cup Kids
  BY <1>1, MeType DEF Encrypt, ShapeInv, EnvInv, PackInv
<1>3. layers[1].t \in {"sign", "plain"}
  BY <1>2 DEF BodyFrom
<1>4. PICK T : T = LayersOf(a)
  OBVIOUS
<1>5. layers \in Seq(T) /\ layers # <<>>
  BY <1>2, <1>4 DEF Stack
<1>6. CASE choice.from = None
  <2>1. PICK to \in Dids \cup Kids : to = choice.to /\ CanAnoncrypt(a, to)
    BY <1>1, <1>2, <1>6 DEF CanEncrypt
  <2>2. PICK l : l = Anoncrypt(a, to)
    OBVIOUS
  <2>3. l \in T /\ l.t = "anon"
    BY <1>2, <1>4, <2>1, <2>2, AnonKidsType, AnonLayerIsLayer DEF Anoncrypt, AnonLayer
  <2>4. Fresh(l) /\ MadeFor(l, to)
    BY <1>2, <2>1, <2>2, AnonMadeFor
  <2>5. layers' = <<l>> \o layers
    BY <1>1, <1>2, <1>6, <2>1, <2>2 DEF Jwes
  <2>6. Follows(l, layers[1])
    BY <1>3, <2>3 DEF Follows
  <2>7. Sound(<<l>> \o layers) /\ (<<l>> \o layers)[1] = l
    BY <1>5, <2>3, <2>4, <2>6, SoundOver, ConsIs
  <2> QED BY <2>1, <2>3, <2>4, <2>5, <2>7 DEF IsJwe
<1>7. CASE choice.from # None
  <2>1. PICK from \in Dids \cup Kids, to \in Dids \cup Kids : from = choice.from /\ to = choice.to
    BY <1>2, <1>7, MeType DEF EnvInv
  <2>2. CanAuthcrypt(a, from, to)
    BY <1>1, <1>2, <1>7, <2>1 DEF CanEncrypt
  <2>3. PICK l, m : l = Authcrypt(a, from, to)
                    /\ m = AnonLayer(Doc(a, Did(to)), AuthKids(a, from, to))
    OBVIOUS
  <2>4. l \in T /\ m \in T
    BY <1>2, <1>4, <2>2, <2>3, AuthKidsType, AnonLayerIsLayer, AuthLayerIsLayer DEF Authcrypt
  <2>5. l.t = "auth" /\ m.t = "anon"
    BY <2>3 DEF Authcrypt, AuthLayer, AnonLayer
  <2>6. Fresh(l) /\ MadeFor(l, to) /\ Fresh(m) /\ MadeFor(m, to) /\ Follows(m, l)
    BY <1>2, <2>2, <2>3, AuthMadeFor
  <2>7. layers' = ((IF choice.protect THEN <<m>> ELSE <<>>) \o <<l>>) \o layers
    BY <1>1, <1>2, <1>7, <2>1, <2>3 DEF Jwes, Authcrypted
  <2>8. Follows(l, layers[1])
    BY <1>3, <2>5 DEF Follows
  <2>9. PICK ls : ls = <<l>> \o layers
    OBVIOUS
  <2>10. Sound(ls) /\ ls \in Seq(T) /\ ls[1] = l /\ ls # <<>>
    <3>1. Sound(<<l>> \o layers)
      BY <1>5, <2>4, <2>6, <2>8, SoundOver
    <3>2. <<l>> \o layers \in Seq(T) /\ (<<l>> \o layers)[1] = l
          /\ Len(<<l>> \o layers) = Len(layers) + 1
      BY <1>5, <2>4, ConsIs
    <3>3. Len(layers) + 1 # 0
      BY <1>5
    <3>4. Len(<<>>) = 0
      OBVIOUS
    <3> QED BY <2>9, <3>1, <3>2, <3>3, <3>4, Zenon
  <2>11. CASE choice.protect
    <3>1. <<m>> \in Seq(T) /\ <<l>> \in Seq(T)
      BY <2>4
    <3>2. layers' = <<m>> \o ls
      BY <1>5, <2>7, <2>9, <2>11, <3>1, ConcatAssociative
    <3>3. Sound(<<m>> \o ls) /\ (<<m>> \o ls)[1] = m
      BY <2>4, <2>6, <2>10, SoundOver, ConsIs
    <3> QED BY <2>1, <2>5, <2>6, <3>2, <3>3 DEF IsJwe
  <2>12. CASE ~choice.protect
    <3>1. <<>> \o <<l>> = <<l>>
      OBVIOUS
    <3>2. layers' = ls
      BY <2>7, <2>9, <2>12, <3>1
    <3> QED BY <2>1, <2>5, <2>6, <2>10, <3>2 DEF IsJwe
  <2> QED BY <2>11, <2>12
<1> QED BY <1>6, <1>7

LEMMA SoundWrap ==
  ASSUME EnvInv, Steady, Sound(layers), IsJwe(Top), MadeFor(Top, route.next), WrapLayer
  PROVE  Sound(layers') /\ IsJwe(layers'[1]) /\ MadeFor(layers'[1], Last(route.keys))
<1>1. PICK a \in Dids : a = Me
  BY MeType DEF EnvInv
<1>2. PICK T : T = LayersOf(a)
  OBVIOUS
<1>3. ViewOK /\ layers \in Seq(T) /\ layers # <<>> /\ PackInv
  BY <1>1, <1>2 DEF EnvInv, PackInv, Stack
<1>4. PICK key \in Dids \cup Kids : key = Last(route.keys)
  BY <1>3, WrapType
<1>5. PICK l, m : l = Anoncrypt(a, key) /\ m = ForwardLayer(route.next)
  OBVIOUS
<1>6. CanAnoncrypt(a, key) /\ layers' = <<l, m>> \o layers
  BY <1>1, <1>4, <1>5 DEF WrapLayer
<1>7. route.next \in Dids \cup Kids
  BY <1>3 DEF WrapLayer, PackInv, RouteType
<1>8. l \in T /\ m \in T
  BY <1>2, <1>3, <1>5, <1>6, <1>7, AnonKidsType, AnonLayerIsLayer, ForwardLayerIsLayer DEF Anoncrypt
<1>9. l.t = "anon" /\ m.t = "forward" /\ m.next = route.next
  BY <1>5 DEF Anoncrypt, AnonLayer, ForwardLayer
<1>10. Fresh(l) /\ MadeFor(l, key)
  BY <1>3, <1>5, <1>6, AnonMadeFor
<1>11. Fresh(m) /\ Follows(m, layers[1]) /\ Follows(l, m)
  BY <1>9 DEF Fresh, Follows, Top, IsJwe
<1>12. PICK ls : ls = <<m>> \o layers
  OBVIOUS
<1>13. Sound(ls) /\ ls \in Seq(T) /\ ls[1] = m /\ ls # <<>>
  <2>1. Sound(<<m>> \o layers)
    BY <1>3, <1>8, <1>11, SoundOver
  <2>2. <<m>> \o layers \in Seq(T) /\ (<<m>> \o layers)[1] = m
        /\ Len(<<m>> \o layers) = Len(layers) + 1
    BY <1>3, <1>8, ConsIs
  <2>3. Len(layers) + 1 # 0
    BY <1>3
  <2>4. Len(<<>>) = 0
    OBVIOUS
  <2> QED BY <1>12, <2>1, <2>2, <2>3, <2>4, Zenon
<1>14. layers' = <<l>> \o ls
  <2>1. <<l, m>> \o layers = <<l>> \o (<<m>> \o layers)
    BY <1>3, <1>8, TwoOver
  <2> QED BY <1>6, <1>12, <2>1, Zenon
<1>15. Sound(<<l>> \o ls) /\ (<<l>> \o ls)[1] = l
  BY <1>8, <1>10, <1>11, <1>13, SoundOver, ConsIs
<1> QED BY <1>4, <1>9, <1>10, <1>14, <1>15 DEF IsJwe

LEMMA SoundInvPack ==
  ASSUME SecretsFit, EnvInv, ShapeInv, SoundInv, PackSome
  PROVE  SoundInv'
<1>1. SUFFICES ASSUME Steady'
               PROVE  /\ Sound(layers')
                      /\ stage' = "route" => IsJwe(Top') /\ MadeFor(Top', choice'.to)
                      /\ stage' = "wrap" => IsJwe(Top') /\ MadeFor(Top', route'.next)
                      /\ phase' \notin {"anoncrypt", "authcrypt"}
  BY DEF SoundInv
<1>2. Steady /\ view' = view
  BY <1>1, OnceSteady DEF EnvelopeNext
<1>3. phase' = "sender" /\ Pack /\ PackInv /\ ViewOK /\ Sound(layers)
  BY <1>2, ShapeInvPack DEF PackSome, EnvInv, PackInv, SoundInv
<1>4. PICK a \in Dids : a = Me
  BY <1>3, MeType
<1>5. CASE PackPrior
  <2>1. stage' = "body"
    BY <1>5 DEF PackPrior
  <2>2. Sound(layers')
    <3>1. CASE choice.prior = None
      BY <1>3, <1>5, <3>1 DEF PackPrior
    <3>2. CASE choice.prior # None
      <4>1. PICK x \in Dids \cup Kids : x = choice.prior /\ CanSign(a, x)
        BY <1>3, <1>4, <1>5, <3>2, MeType DEF PackPrior, CanPackPrior
      <4>2. PICK k : k = Head(Signers(a, x))
        OBVIOUS
      <4>3. Published(k, Secret(a, k))
        BY <1>2, <1>3, <4>1, <4>2, SignerFits
      <4>4. PICK l : l = PlainLayer(SignCompact(k))
        OBVIOUS
      <4>5. l.t = "plain" /\ l.prior.kid = k /\ l.prior.key = Secret(a, k)
        BY <1>4, <4>4 DEF PlainLayer, SignCompact
      <4>6. Fresh(l)
        BY <4>3, <4>5 DEF Fresh, IsJwe
      <4>7. layers' = <<l>>
        BY <1>4, <1>5, <3>2, <4>1, <4>2, <4>4 DEF PackPrior
      <4>8. DOMAIN <<l>> = {1} /\ <<l>>[1] = l /\ 1 + 1 # 1
        OBVIOUS
      <4>9. \A i \in DOMAIN <<l>> : Fresh(<<l>>[i]) /\ i + 1 \notin DOMAIN <<l>>
        BY <4>6, <4>8
      <4> QED BY <4>7, <4>9 DEF Sound
    <3> QED BY <3>1, <3>2
  <2> QED BY <1>3, <2>1, <2>2
<1>6. CASE PackBody
  <2>1. stage' = "encrypt" /\ claim = NoClaim /\ BodyFrom(layers, 0, claim)
    BY <1>6 DEF PackBody, ShapeInv
  <2>2. Sound(layers')
    <3>1. CASE choice.signBy = None
      BY <1>3, <1>6, <3>1 DEF PackBody
    <3>2. CASE choice.signBy # None
      <4>1. PICK x \in Dids \cup Kids : x = choice.signBy /\ CanSign(a, x)
        BY <1>3, <1>4, <1>6, <3>2, MeType DEF PackBody, CanPackBody
      <4>2. PICK k : k = Head(Signers(a, x))
        OBVIOUS
      <4>3. Published(k, Secret(a, k)) /\ k \in Kids /\ Holds(a, k)
        BY <1>2, <1>3, <4>1, <4>2, SignerFits, SignersType
      <4>4. PICK l : l = SignLayer(k, Secret(a, k))
        OBVIOUS
      <4>5. l.t = "sign" /\ l.kid = k /\ l.key = Secret(a, k) /\ l \in LayersOf(a)
        BY <4>3, <4>4, SignLayerIsLayer DEF SignLayer
      <4>6. Fresh(l) /\ Follows(l, layers[1])
        <5>1. NoClaim.signer = None
          BY DEF NoClaim
        <5>2. layers[1].t = "plain"
          BY <2>1, <5>1 DEF BodyFrom
        <5> QED BY <4>3, <4>5, <5>2 DEF Fresh, Follows, IsJwe
      <4>7. layers' = <<l>> \o layers
        BY <1>4, <1>6, <3>2, <4>1, <4>2, <4>4 DEF PackBody
      <4>8. layers \in Seq(LayersOf(a)) /\ layers # <<>>
        BY <1>3, <1>4 DEF PackInv, Stack
      <4> QED BY <1>3, <4>5, <4>6, <4>7, <4>8, SoundOver
    <3> QED BY <3>1, <3>2
  <2> QED BY <1>3, <2>1, <2>2
<1>7. CASE Encrypt
  <2>1. Sound(layers') /\ IsJwe(layers'[1]) /\ MadeFor(layers'[1], choice.to)
    BY <1>2, <1>3, <1>7, SoundEncrypt
  <2>2. stage' = "route" /\ choice' = choice
    BY <1>7 DEF Encrypt
  <2> QED BY <1>3, <2>1, <2>2 DEF Top
<1>8. CASE ChooseRoute
  <2>1. /\ stage = "route" /\ stage' \in {"wrap", "packed"} /\ layers' = layers
        /\ stage' = "wrap" => route'.next = choice.to
    BY <1>8 DEF ChooseRoute
  <2>2. IsJwe(Top) /\ MadeFor(Top, choice.to) /\ Top' = Top
    BY <1>2, <2>1 DEF SoundInv, Top
  <2> QED BY <1>3, <2>1, <2>2
<1>9. CASE WrapLayer
  <2>1. IsJwe(Top) /\ MadeFor(Top, route.next)
    BY <1>2, <1>9 DEF SoundInv, WrapLayer
  <2>2. Sound(layers') /\ IsJwe(layers'[1]) /\ MadeFor(layers'[1], Last(route.keys))
    BY <1>2, <1>3, <1>9, <2>1, SoundWrap
  <2>3. stage' \in {"wrap", "packed"} /\ route'.next = Last(route.keys)
    BY <1>9 DEF WrapLayer
  <2> QED BY <1>3, <2>2, <2>3 DEF Top
<1>10. CASE PackError
  BY <1>3, <1>10 DEF PackError, Fail
<1> QED BY <1>3, <1>5, <1>6, <1>7, <1>8, <1>9, <1>10 DEF Pack

-----------------------------------------------------------------------------
(* The reader has no other reason to refuse *)

RefusalInv ==
  phase = "refused" /\ Steady /\ ops < OpsLimit => IsJwe(Top) /\ Held(at, Top.kids) = <<>>

\* A step of the way to what is below, and a refusal.
LEMMA SoundInvKeeps ==
  ASSUME SoundInv, Steady, stage' = "packed", Sound(layers'),
         phase' \notin {"anoncrypt", "authcrypt", "refused"}
  PROVE  SoundInv' /\ RefusalInv'
BY DEF SoundInv, RefusalInv

LEMMA SoundInvRefuse ==
  ASSUME SoundInv, Steady, Refuse, stage = "packed", ops' \in Nat,
         ops' < OpsLimit => IsJwe(Top) /\ Held(at, Top.kids) = <<>>
  PROVE  SoundInv' /\ RefusalInv'
<1>1. phase' = "refused" /\ layers' = layers /\ at' = at /\ stage' = "packed" /\ Top' = Top
  BY DEF Refuse, packVars, Top
<1> QED BY <1>1 DEF SoundInv, RefusalInv

\* The outermost layer, where it is a JWE.
LEMMA TopFits ==
  ASSUME EnvInv, Sound(layers)
  PROVE  /\ Fresh(Top)
         /\ IsJwe(Top) => /\ Top.kids \in Seq(Kids)
                          /\ \E x \in Dids \cup Kids : MadeFor(Top, x)
         /\ Top.t = "auth" => Top.skid \in Kids /\ SenderFits(Top.skid, Top.skey)
         /\ Top.t = "sign" => Top.kid \in Kids /\ Published(Top.kid, Top.key)
<1>1. Stack(Me, layers)
  BY DEF EnvInv, PackInv
<1>2. 1 \in DOMAIN layers /\ IsLayer(Top)
  BY <1>1, StackTop DEF Top
<1>3. Fresh(Top)
  BY <1>2 DEF Sound, Top
<1> QED BY <1>2, <1>3 DEF Fresh, IsLayer, IsJwe

LEMMA SoundInvOpen ==
  ASSUME SecretsFit, EnvInv, SoundInv, Steady, Open
  PROVE  SoundInv' /\ RefusalInv'
<1>1. /\ phase = "inbox" /\ at \in Dids /\ stage = "packed" /\ ViewOK /\ Sound(layers)
      /\ env.from = None /\ layers' = layers /\ stage' = stage /\ Top' = Top /\ ops' = ops
      /\ ops \in Nat /\ view' = view
  BY DEF Open, Refuse, EnvInv, PackInv, ReadInv, SenderInv, SoundInv, packVars, Top, NoEnv
<1>2. Top.t = "auth" => SenderKnown(Top) /\ Doc(at, Did(Top.skid)).key[Top.skid] = Top.skey
  BY <1>1, TopFits, SenderIsKnown
<1>3. CASE Refuse /\ IsJwe(Top) /\ ~CanFill(Top)
  <2>1. SenderKnown(Top)
    BY <1>2 DEF SenderKnown
  <2>2. Held(at, Top.kids) = <<>>
    BY <1>3, <2>1 DEF CanFill
  <2> QED BY <1>1, <1>3, <2>2, SoundInvRefuse
<1>4. CASE phase' = "anoncrypt" /\ env' = IF IsJwe(Top) THEN Filled(Top) ELSE env
  <2>1. ASSUME env'.from # None
        PROVE  env'.key = First(DidOf[env'.from]).key[env'.from]
    <3>1. CASE Top.t = "auth"
      <4>1. PICK k \in Kids : k = Top.skid /\ SenderFits(k, Top.skey)
        BY <1>1, <3>1, TopFits
      <4>2. First(DidOf[k]).key[k] = Top.skey
        BY <4>1 DEF SenderFits
      <4>3. env'.from = k /\ env'.key = Top.skey
        BY <1>2, <1>4, <3>1, <4>1 DEF Filled, IsJwe
      <4> QED BY <4>2, <4>3
    <3>2. CASE Top.t # "auth"
      <4>1. env'.from = env.from
        BY <1>4, <3>2 DEF Filled
      <4> QED BY <1>1, <2>1, <4>1
    <3> QED BY <3>1, <3>2
  <2> QED BY <1>1, <1>4, <2>1 DEF SoundInv, RefusalInv
<1> QED BY <1>3, <1>4 DEF Open

LEMMA SoundInvAnoncrypt ==
  ASSUME SecretsFit, EnvInv, SoundInv, Steady, UnpackAnoncrypt
  PROVE  SoundInv' /\ RefusalInv'
<1>1. /\ phase = "anoncrypt" /\ at \in Dids /\ stage = "packed" /\ ViewOK /\ Sound(layers)
      /\ PackInv /\ stage' = stage /\ ops' \in Nat /\ ops' = ops + 1 /\ view' = view
      /\ env.from # None => Top.t = "auth"
  BY DEF UnpackAnoncrypt, Refuse, EnvInv, PackInv, ReadInv, SenderInv, SoundInv, packVars
<1>2. CASE Refuse /\ (ops' >= OpsLimit \/ (Top.t = "anon" /\ ~CanUnpackAnoncrypt))
  <2>1. ASSUME ops' < OpsLimit
        PROVE  IsJwe(Top) /\ Held(at, Top.kids) = <<>>
    <3>1. ~(ops' >= OpsLimit)
      BY <2>1, LimitAssumption, <1>1
    <3>2. Top.t = "anon" /\ ~CanUnpackAnoncrypt
      BY <1>2, <3>1
    <3>3. PICK x \in Dids \cup Kids : MadeFor(Top, x)
      BY <1>1, <3>2, TopFits DEF IsJwe
    <3>4. Top.kids \in Seq(Kids)
      BY <1>1, <3>2, TopFits DEF IsJwe
    <3>5. Held(at, Top.kids) # <<>> => AllDecrypt(Held(at, Top.kids))
      BY <1>1, <3>3, <3>4, HeldDecrypt
    <3>6. layers[2].next \in Dids => Resolves(at, layers[2].next)
      BY <1>1, FirstDocuments
    <3> QED BY <3>2, <3>5, <3>6 DEF CanUnpackAnoncrypt, IsJwe
  <2> QED BY <1>1, <1>2, <2>1, SoundInvRefuse
<1>3. CASE phase' = "authcrypt" /\ layers' = layers /\ env' = env
  BY <1>1, <1>3 DEF SoundInv, RefusalInv
<1>4. CASE /\ Top.t = "anon" /\ env' = env /\ phase' \in {"anoncrypt", "authcrypt"}
           /\ \/ layers' = Tail(layers)
              \/ layers' = Tail(Tail(layers)) /\ ForwardHere(Tail(layers))
  <2>1. Stack(Me, layers) /\ layers[1].t # "plain"
    BY <1>1, <1>4 DEF PackInv, Top
  <2>2. Stack(Me, Tail(layers)) /\ Sound(Tail(layers))
    BY <1>1, <2>1, StackTail, SoundUnder
  <2>3. Sound(layers')
    <3>1. CASE layers' = Tail(layers)
      BY <2>2, <3>1
    <3>2. CASE layers' = Tail(Tail(layers)) /\ ForwardHere(Tail(layers))
      <4>1. PICK r : r = Tail(layers)
        OBVIOUS
      <4>2. r[1].t # "plain" /\ Stack(Me, r) /\ Sound(r)
        BY <2>2, <3>2, <4>1 DEF ForwardHere
      <4> QED BY <3>2, <4>1, <4>2, SoundUnder
    <3> QED BY <1>4, <3>1, <3>2
  <2>4. env'.from = None
    BY <1>1, <1>4
  <2> QED BY <1>1, <1>4, <2>3, <2>4 DEF SoundInv, RefusalInv
<1> QED BY <1>2, <1>3, <1>4 DEF UnpackAnoncrypt, packVars

LEMMA SoundInvAuthcrypt ==
  ASSUME SecretsFit, EnvInv, SoundInv, Steady, UnpackAuthcrypt
  PROVE  SoundInv' /\ RefusalInv'
<1>1. /\ phase = "authcrypt" /\ at \in Dids /\ stage = "packed" /\ ViewOK /\ Sound(layers)
      /\ PackInv /\ stage' = stage /\ ops \in Nat
      /\ env.from # None =>
           /\ Top.t = "auth" /\ Top.skid = env.from
           /\ env.found = Held(at, Top.kids) /\ env.found # <<>>
           /\ env.key = First(DidOf[env.from]).key[env.from]
  BY DEF UnpackAuthcrypt, Refuse, EnvInv, PackInv, ReadInv, SenderInv, SoundInv, packVars
<1>2. Stack(Me, layers)
  BY <1>1 DEF PackInv
<1>3. CASE Top.t # "auth" /\ phase' = "sign" /\ layers' = layers
  BY <1>1, <1>3, SoundInvKeeps
<1>4. CASE Top.t = "auth" /\ layers' = Tail(layers) /\ phase' = "sign"
  <2>1. layers[1].t # "plain"
    BY <1>4 DEF Top
  <2>2. Sound(layers')
    BY <1>1, <1>2, <1>4, <2>1, SoundUnder
  <2> QED BY <1>1, <1>4, <2>2, SoundInvKeeps
<1>5. ASSUME Top.t = "auth", Refuse,
             NEW known, known = (env.from # None \/ CanFill(Top)),
             NEW keys, keys = IF known THEN Tried(Refilled.found) ELSE <<>>,
             ops' = ops + Len(keys),
             ~(/\ known
               /\ ops + Len(keys) < OpsLimit
               /\ AllDecrypt(Refilled.found)
               /\ FromSender(Refilled))
      PROVE  SoundInv' /\ RefusalInv'
  <2>1. PICK k \in Kids : k = Top.skid /\ SenderFits(k, Top.skey)
    BY <1>1, <1>5, TopFits
  <2>2. SenderKnown(Top) /\ Doc(at, Did(k)).key[k] = Top.skey
    BY <1>1, <1>5, <2>1, SenderIsKnown
  <2>3. PICK x \in Dids \cup Kids : MadeFor(Top, x) /\ Top.kids \in Seq(Kids)
    BY <1>1, <1>5, TopFits DEF IsJwe
  <2>4. PICK found \in Seq(Kids) : found = Held(at, Top.kids)
    BY <1>1, <2>3, HeldType
  <2>5. known => Refilled.found = found /\ found # <<>> /\ Refilled.key = Top.skey
    <3>1. CASE env.from = None
      <4>1. Refilled.found = found /\ Refilled.key = Top.skey
        BY <1>5, <2>1, <2>2, <2>4, <3>1 DEF Refilled, Filled
      <4> QED BY <1>5, <2>4, <3>1, <4>1 DEF CanFill
    <3>2. CASE env.from # None
      BY <1>1, <2>1, <2>4, <3>2 DEF Refilled, SenderFits
    <3> QED BY <3>1, <3>2
  <2>6. known => AllDecrypt(Refilled.found) /\ FromSender(Refilled)
    BY <1>1, <2>3, <2>4, <2>5, HeldDecrypt DEF FromSender
  <2>7. CASE ~known
    <3>1. found = <<>>
      BY <1>5, <2>2, <2>4, <2>7 DEF CanFill
    <3>2. ops' \in Nat
      BY <1>1, <1>5, <2>7
    <3> QED BY <1>1, <1>5, <2>4, <3>1, <3>2, SoundInvRefuse DEF IsJwe
  <2>8. CASE known
    <3>1. ~(ops' < OpsLimit)
      BY <1>5, <2>6, <2>8
    <3>2. phase' = "refused" /\ layers' = layers /\ stage' = stage
      BY <1>5 DEF Refuse, packVars
    <3> QED BY <1>1, <3>1, <3>2 DEF SoundInv, RefusalInv
  <2> QED BY <2>7, <2>8
<1> QED BY <1>3, <1>4, <1>5 DEF UnpackAuthcrypt, packVars

LEMMA SoundInvSign ==
  ASSUME EnvInv, SoundInv, Steady, UnpackSign
  PROVE  SoundInv' /\ RefusalInv'
<1>1. /\ phase = "sign" /\ at \in Dids /\ stage = "packed" /\ ViewOK /\ Sound(layers)
      /\ stage' = stage /\ Stack(Me, layers)
  BY DEF UnpackSign, Refuse, EnvInv, PackInv, ReadInv, SoundInv, packVars
<1>2. Top.t = "sign" => Verifies(at, Top.kid, Top.key)
  BY <1>1, TopFits, PublishedVerifies
<1>3. CASE phase' = "plaintext" /\ layers' = layers
  BY <1>1, <1>3, SoundInvKeeps
<1>4. CASE Top.t = "sign" /\ phase' = "plaintext" /\ layers' = Tail(layers)
  <2>1. layers[1].t # "plain"
    BY <1>4 DEF Top
  <2>2. Sound(layers')
    BY <1>1, <1>4, <2>1, SoundUnder
  <2> QED BY <1>1, <1>4, <2>2, SoundInvKeeps
<1> QED BY <1>2, <1>3, <1>4 DEF UnpackSign, packVars

LEMMA SoundInvPlaintext ==
  ASSUME EnvInv, SoundInv, Steady, UnpackPlaintext
  PROVE  SoundInv' /\ RefusalInv'
<1>1. /\ phase = "plaintext" /\ at \in Dids /\ stage = "packed" /\ ViewOK /\ Sound(layers)
      /\ stage' = stage /\ layers' = layers /\ Top.t = "plain"
  BY DEF UnpackPlaintext, EnvInv, PackInv, ReadInv, SoundInv, packVars
<1>2. PriorVerifies(at, Top.prior)
  <2>1. CASE Top.prior = None
    BY <2>1 DEF PriorVerifies
  <2>2. CASE Top.prior # None
    <3>1. Stack(Me, layers)
      BY DEF EnvInv, PackInv
    <3>2. IsLayer(Top)
      BY <3>1, StackTop DEF Top
    <3>3. Top.prior.kid \in Kids
      BY <1>1, <2>2, <3>2 DEF IsLayer, IsJwe
    <3>4. Published(Top.prior.kid, Top.prior.key)
      BY <1>1, <2>2, TopFits DEF Fresh
    <3> QED BY <1>1, <3>3, <3>4, PublishedVerifies DEF PriorVerifies
  <2> QED BY <2>1, <2>2
<1>3. phase' = "opened"
  BY <1>2 DEF UnpackPlaintext
<1> QED BY <1>1, <1>3, SoundInvKeeps

LEMMA SoundInvRelay ==
  ASSUME EnvInv, SoundInv, Steady, Relay
  PROVE  SoundInv' /\ RefusalInv'
<1>1. /\ phase = "plaintext" /\ stage = "packed" /\ Sound(layers) /\ Stack(Me, layers)
      /\ stage' = stage /\ Top.t = "forward"
  BY DEF Relay, RelayAtMediator, ForwardForClient, EnvInv, PackInv, ReadInv, SoundInv, packVars
<1>2. CASE ForwardForClient
  BY <1>1, <1>2, SoundInvKeeps DEF ForwardForClient, packVars
<1>3. CASE RelayAtMediator
  <2>1. layers' = Tail(layers) /\ phase' = "inbox" /\ layers[1].t # "plain"
    BY <1>1, <1>3 DEF RelayAtMediator, Top
  <2>2. Sound(layers')
    BY <1>1, <2>1, SoundUnder
  <2> QED BY <1>1, <2>1, <2>2, SoundInvKeeps
<1> QED BY <1>2, <1>3 DEF Relay

LEMMA SoundInvSend ==
  ASSUME SoundInv, Steady, Send
  PROVE  SoundInv' /\ RefusalInv'
<1>1. stage = "packed" /\ stage' = stage /\ layers' = layers /\ phase' = "inbox" /\ Sound(layers)
  BY DEF Send, packVars, SoundInv
<1> QED BY <1>1, SoundInvKeeps

LEMMA SoundInvNext ==
  ASSUME SecretsFit, EnvInv, ShapeInv, SoundInv, RefusalInv, [EnvelopeNext]_envelopeVars
  PROVE  SoundInv' /\ RefusalInv'
<1>1. SUFFICES ASSUME Steady' PROVE SoundInv' /\ RefusalInv'
  BY DEF SoundInv, RefusalInv
<1>2. Steady
  BY <1>1, OnceSteady
<1>3. CASE UNCHANGED <<packVars, unpackVars>>
  <2>1. /\ choice' = choice /\ stage' = stage /\ layers' = layers /\ route' = route
        /\ phase' = phase /\ env' = env /\ at' = at /\ ops' = ops /\ Top' = Top
    BY <1>3 DEF packVars, unpackVars, Top
  <2> QED BY <1>2, <2>1 DEF SoundInv, RefusalInv
<1>4. CASE LearnSome
  BY <1>3, <1>4 DEF LearnSome
<1>5. CASE UNCHANGED envelopeVars
  BY <1>3, <1>5 DEF envelopeVars
<1>6. CASE PackSome
  <2>1. phase' = "sender"
    BY <1>6, ShapeInvPack
  <2> QED BY <1>6, <2>1, SoundInvPack DEF RefusalInv
<1>7. CASE Unpack
  BY <1>2, <1>7, SoundInvOpen, SoundInvAnoncrypt, SoundInvAuthcrypt, SoundInvSign,
     SoundInvPlaintext, SoundInvRelay DEF Unpack
<1> QED BY <1>2, <1>3, <1>4, <1>5, <1>6, <1>7, SoundInvSend DEF EnvelopeNext

-----------------------------------------------------------------------------
(* The way that is announced *)

\* The forwards in the layers are addressed to what is left of the way w after m
\* stops; the first of them is layer p.
Ahead(ls, w, m, p) ==
  /\ \A j \in (m + 1)..Len(w) :
       /\ p + 2 * (j - m - 1) \in DOMAIN ls
       /\ ls[p + 2 * (j - m - 1)].t = "forward"
       /\ ls[p + 2 * (j - m - 1)].next = w[j]
  /\ \A i \in DOMAIN ls : ls[i].t = "forward" => i <= p + 2 * (Len(w) - m - 1)

NoForward(ls) == \A i \in DOMAIN ls : ls[i].t # "forward"

LEMMA NoneAhead ==
  ASSUME NEW ls, NoForward(ls), NEW w, Len(w) \in Nat, NEW p
  PROVE  Ahead(ls, w, Len(w), p)
<1>1. (Len(w) + 1)..Len(w) = {}
  OBVIOUS
<1> QED BY <1>1 DEF Ahead, NoForward

\* An anoncrypt layer is taken off a forward.
LEMMA AheadBelow ==
  ASSUME NEW a, NEW ls, Stack(a, ls), ls[1].t # "plain",
         NEW w, Len(w) \in Nat, NEW m \in Nat, Ahead(ls, w, m, 2)
  PROVE  Ahead(Tail(ls), w, m, 1)
<1>1. PICK tl : tl = Tail(ls)
  OBVIOUS
<1>2. /\ Stack(a, tl) /\ Len(tl) = Len(ls) - 1 /\ Len(ls) \in Nat
      /\ \A i \in 1..Len(tl) : tl[i] = ls[i + 1]
  BY <1>1, StackTail
<1>3. DOMAIN tl = 1..Len(tl) /\ DOMAIN ls = 1..Len(ls)
  BY <1>2, StackTop
<1>4. ASSUME NEW j \in (m + 1)..Len(w)
      PROVE  /\ 1 + 2 * (j - m - 1) \in DOMAIN tl
             /\ tl[1 + 2 * (j - m - 1)].t = "forward"
             /\ tl[1 + 2 * (j - m - 1)].next = w[j]
  <2>1. PICK i \in Int : i = 1 + 2 * (j - m - 1) /\ i + 1 = 2 + 2 * (j - m - 1) /\ i >= 1
    OBVIOUS
  <2>2. i + 1 \in DOMAIN ls /\ ls[i + 1].t = "forward" /\ ls[i + 1].next = w[j]
    BY <2>1 DEF Ahead
  <2>3. i \in DOMAIN tl /\ tl[i] = ls[i + 1]
    <3>1. i + 1 \in 1..Len(ls)
      BY <1>3, <2>2
    <3>2. i \in 1..Len(tl)
      BY <1>2, <2>1, <3>1
    <3> QED BY <1>2, <1>3, <3>2
  <2> QED BY <2>1, <2>2, <2>3
<1>5. ASSUME NEW i \in DOMAIN tl, tl[i].t = "forward"
      PROVE  i <= 1 + 2 * (Len(w) - m - 1)
  <2>1. i + 1 \in DOMAIN ls /\ ls[i + 1].t = "forward"
    BY <1>2, <1>3, <1>5
  <2>2. i + 1 <= 2 + 2 * (Len(w) - m - 1)
    BY <2>1 DEF Ahead
  <2> QED BY <1>2, <1>3, <1>5, <2>2
<1> QED BY <1>1, <1>4, <1>5 DEF Ahead

\* A forward on top is the next stop; what is below it is for the stops after it.
LEMMA AheadNext ==
  ASSUME NEW a, NEW ls, Stack(a, ls), ls[1].t = "forward",
         NEW w, Len(w) \in Nat, NEW m \in Nat, m <= Len(w), Ahead(ls, w, m, 1)
  PROVE  m + 1 <= Len(w) /\ ls[1].next = w[m + 1] /\ Ahead(Tail(ls), w, m + 1, 2)
<1>1. PICK tl : tl = Tail(ls)
  OBVIOUS
<1>2. /\ Stack(a, tl) /\ Len(tl) = Len(ls) - 1 /\ Len(ls) \in Nat
      /\ \A i \in 1..Len(tl) : tl[i] = ls[i + 1]
  BY <1>1, StackTail
<1>3. DOMAIN tl = 1..Len(tl) /\ DOMAIN ls = 1..Len(ls) /\ 1 \in DOMAIN ls
  BY <1>2, StackTop
<1>4. 1 <= 1 + 2 * (Len(w) - m - 1)
  BY <1>3 DEF Ahead
<1>5. m + 1 <= Len(w) /\ m + 1 \in (m + 1)..Len(w)
  BY <1>4
<1>6. ls[1].next = w[m + 1]
  <2>1. 1 + 2 * ((m + 1) - m - 1) = 1
    OBVIOUS
  <2>2. ls[1 + 2 * ((m + 1) - m - 1)].next = w[m + 1]
    BY <1>5 DEF Ahead
  <2> QED BY <2>1, <2>2
<1>7. ASSUME NEW j \in ((m + 1) + 1)..Len(w)
      PROVE  /\ 2 + 2 * (j - (m + 1) - 1) \in DOMAIN tl
             /\ tl[2 + 2 * (j - (m + 1) - 1)].t = "forward"
             /\ tl[2 + 2 * (j - (m + 1) - 1)].next = w[j]
  <2>1. PICK i \in Int : i = 2 + 2 * (j - (m + 1) - 1) /\ i + 1 = 1 + 2 * (j - m - 1) /\ i >= 1
    OBVIOUS
  <2>2. j \in (m + 1)..Len(w)
    OBVIOUS
  <2>3. i + 1 \in DOMAIN ls /\ ls[i + 1].t = "forward" /\ ls[i + 1].next = w[j]
    BY <2>1, <2>2 DEF Ahead
  <2>4. i \in DOMAIN tl /\ tl[i] = ls[i + 1]
    BY <1>2, <1>3, <2>1, <2>3
  <2> QED BY <2>1, <2>3, <2>4
<1>8. ASSUME NEW i \in DOMAIN tl, tl[i].t = "forward"
      PROVE  i <= 2 + 2 * (Len(w) - (m + 1) - 1)
  <2>1. i + 1 \in DOMAIN ls /\ ls[i + 1].t = "forward"
    BY <1>2, <1>3, <1>8
  <2>2. i + 1 <= 1 + 2 * (Len(w) - m - 1)
    BY <2>1 DEF Ahead
  <2> QED BY <1>2, <1>3, <1>8, <2>2
<1> QED BY <1>1, <1>5, <1>6, <1>7, <1>8 DEF Ahead

\* Where there is no forward on top there is none at all.
LEMMA AheadOver ==
  ASSUME NEW a, NEW ls, Stack(a, ls), ls[1].t # "forward",
         NEW w, Len(w) \in Nat, NEW m \in Nat, m <= Len(w), Ahead(ls, w, m, 1)
  PROVE  m = Len(w) /\ NoForward(ls)
<1>1. m = Len(w)
  <2>1. SUFFICES ASSUME m # Len(w) PROVE FALSE
    OBVIOUS
  <2>2. m + 1 \in (m + 1)..Len(w) /\ 1 + 2 * ((m + 1) - m - 1) = 1
    BY <2>1
  <2>3. ls[1 + 2 * ((m + 1) - m - 1)].t = "forward"
    BY <2>2 DEF Ahead
  <2> QED BY <2>2, <2>3
<1>2. \A i \in DOMAIN ls : i >= 1
  BY StackTop
<1>3. 1 + 2 * (Len(w) - m - 1) < 1
  BY <1>1
<1>4. \A i \in DOMAIN ls : i \in Nat /\ (ls[i].t = "forward" => i <= 1 + 2 * (Len(w) - m - 1))
  BY StackTop DEF Ahead
<1>5. \A i \in DOMAIN ls : ls[i].t # "forward"
  BY <1>1, <1>2, <1>3, <1>4
<1> QED BY <1>1, <1>5 DEF NoForward

LEMMA NoForwardUnder ==
  ASSUME NEW a, NEW ls, Stack(a, ls), ls[1].t # "plain", NoForward(ls)
  PROVE  NoForward(Tail(ls))
<1>1. PICK tl : tl = Tail(ls)
  OBVIOUS
<1>2. /\ Stack(a, tl) /\ Len(tl) = Len(ls) - 1 /\ Len(ls) \in Nat
      /\ \A i \in 1..Len(tl) : tl[i] = ls[i + 1]
  BY <1>1, StackTail
<1>3. DOMAIN tl = 1..Len(tl) /\ DOMAIN ls = 1..Len(ls)
  BY <1>2, StackTop
<1> QED BY <1>1, <1>2, <1>3 DEF NoForward

\* The innermost JWE on top: the way is over.
LEMMA AheadArrived ==
  ASSUME NEW a, NEW ls, Stack(a, ls), ls[1].t = "auth", Tail(ls)[1].t # "forward",
         NEW w, Len(w) \in Nat, NEW m \in Nat, m <= Len(w), Ahead(ls, w, m, 2)
  PROVE  m = Len(w) /\ Ahead(ls, w, m, 1)
<1>1. PICK tl : tl = Tail(ls)
  OBVIOUS
<1>2. Stack(a, tl) /\ tl[1].t # "forward" /\ Ahead(tl, w, m, 1)
  BY <1>1, StackTail, AheadBelow
<1>3. m = Len(w)
  BY <1>2, AheadOver
<1>4. Len(ls) \in Nat /\ DOMAIN ls = 1..Len(ls)
  BY StackTop
<1>5. NoForward(ls)
  <2>1. \A i \in DOMAIN ls : ls[i].t = "forward" => i <= 0
    BY <1>3 DEF Ahead
  <2> QED BY <1>4, <2>1 DEF NoForward
<1> QED BY <1>3, <1>5, NoneAhead

\* A stop is put in front.
LEMMA AheadWrapped ==
  ASSUME NEW T, NEW ls \in Seq(T), NEW l \in T, NEW f \in T, l.t # "forward", f.t = "forward",
         NEW w, Len(w) \in Nat, NEW m \in Nat, 1 <= m, m <= Len(w), f.next = w[m],
         Ahead(ls, w, m, 2)
  PROVE  Ahead(<<l, f>> \o ls, w, m - 1, 2)
<1>1. PICK j : j = <<l, f>> \o ls
  OBVIOUS
<1>2. /\ Len(j) = Len(ls) + 2 /\ j[1] = l /\ j[2] = f /\ DOMAIN j = 1..(Len(ls) + 2)
      /\ \A i \in 1..Len(ls) : j[i + 2] = ls[i]
  <2>1. PICK q \in Seq(T) : q = <<l, f>> /\ Len(q) = 2 /\ q[1] = l /\ q[2] = f
    <3>1. <<l, f>> \in Seq(T)
      OBVIOUS
    <3>2. Len(<<l, f>>) = 2 /\ <<l, f>>[1] = l /\ <<l, f>>[2] = f
      OBVIOUS
    <3> QED BY <3>1, <3>2
  <2>2. /\ q \o ls \in Seq(T) /\ Len(q \o ls) = Len(q) + Len(ls)
        /\ \A i \in 1..Len(q) : (q \o ls)[i] = q[i]
        /\ \A i \in 1..Len(ls) : (q \o ls)[Len(q) + i] = ls[i]
    BY ConcatIs
  <2>3. PICK g : g = q \o ls
    OBVIOUS
  <2>4. Len(g) = Len(ls) + 2 /\ g[1] = l /\ g[2] = f /\ g \in Seq(T) /\ Len(ls) \in Nat
    BY <2>1, <2>2, <2>3
  <2>5. \A i \in 1..Len(ls) : g[i + 2] = ls[i]
    <3>1. \A i \in 1..Len(ls) : g[2 + i] = ls[i] /\ 2 + i = i + 2
      BY <2>1, <2>2, <2>3
    <3> QED BY <3>1
  <2> QED BY <1>1, <2>1, <2>3, <2>4, <2>5
<1>3. Len(ls) \in Nat /\ DOMAIN ls = 1..Len(ls)
  OBVIOUS
<1>4. ASSUME NEW k \in ((m - 1) + 1)..Len(w)
      PROVE  /\ 2 + 2 * (k - (m - 1) - 1) \in DOMAIN j
             /\ j[2 + 2 * (k - (m - 1) - 1)].t = "forward"
             /\ j[2 + 2 * (k - (m - 1) - 1)].next = w[k]
  <2>1. CASE k = m
    <3>1. 2 + 2 * (k - (m - 1) - 1) = 2
      BY <2>1
    <3> QED BY <1>2, <1>3, <2>1, <3>1
  <2>2. CASE k # m
    <3>1. k \in (m + 1)..Len(w)
      BY <2>2
    <3>2. PICK i \in Int : i = 2 + 2 * (k - m - 1) /\ i + 2 = 2 + 2 * (k - (m - 1) - 1)
      OBVIOUS
    <3>3. i \in DOMAIN ls /\ ls[i].t = "forward" /\ ls[i].next = w[k]
      BY <3>1, <3>2 DEF Ahead
    <3>4. i + 2 \in DOMAIN j /\ j[i + 2] = ls[i]
      BY <1>2, <1>3, <3>3
    <3> QED BY <3>2, <3>3, <3>4
  <2> QED BY <2>1, <2>2
<1>5. ASSUME NEW i \in DOMAIN j, j[i].t = "forward"
      PROVE  i <= 2 + 2 * (Len(w) - (m - 1) - 1)
  <2>1. i # 1
    BY <1>2, <1>5
  <2>2. CASE i = 2
    BY <2>2
  <2>3. CASE i # 2
    <3>1. i - 2 \in 1..Len(ls) /\ i = (i - 2) + 2
      BY <1>2, <1>3, <1>5, <2>1, <2>3
    <3>2. i - 2 \in DOMAIN ls /\ ls[i - 2].t = "forward"
      BY <1>2, <1>3, <1>5, <3>1
    <3>3. i - 2 <= 2 + 2 * (Len(w) - m - 1)
      BY <3>2 DEF Ahead
    <3> QED BY <3>1, <3>3
  <2> QED BY <2>2, <2>3
<1> QED BY <1>1, <1>4, <1>5 DEF Ahead

LEMMA NoForwardConcat ==
  ASSUME NEW T, NEW q \in Seq(T), NEW ls \in Seq(T), NoForward(q), NoForward(ls)
  PROVE  NoForward(q \o ls)
<1>1. PICK j : j = q \o ls
  OBVIOUS
<1>2. /\ j \in Seq(T) /\ Len(j) = Len(q) + Len(ls)
      /\ \A i \in 1..Len(q) : j[i] = q[i]
      /\ \A i \in 1..Len(ls) : j[Len(q) + i] = ls[i]
  BY <1>1, ConcatIs
<1>3. /\ DOMAIN q = 1..Len(q) /\ DOMAIN ls = 1..Len(ls) /\ DOMAIN j = 1..Len(j)
      /\ Len(q) \in Nat /\ Len(ls) \in Nat
  BY <1>2
<1>4. ASSUME NEW i \in DOMAIN j PROVE j[i].t # "forward"
  <2>1. CASE i \in 1..Len(q)
    BY <1>2, <1>3, <2>1 DEF NoForward
  <2>2. CASE i \notin 1..Len(q)
    <3>1. PICK k \in 1..Len(ls) : i = Len(q) + k
      <4>1. i - Len(q) \in 1..Len(ls) /\ i = Len(q) + (i - Len(q))
        BY <1>2, <1>3, <2>2
      <4> QED BY <4>1
    <3>2. j[i] = ls[k]
      BY <1>2, <3>1
    <3> QED BY <1>3, <3>1, <3>2 DEF NoForward
  <2> QED BY <2>1, <2>2
<1> QED BY <1>1, <1>4 DEF NoForward

LEMMA NoForwardOne ==
  ASSUME NEW l, l.t # "forward"
  PROVE  NoForward(<<l>>)
<1>1. DOMAIN <<l>> = {1} /\ <<l>>[1] = l
  OBVIOUS
<1> QED BY <1>1 DEF NoForward

LEMMA JwesNoForward ==
  ASSUME PackInv, CanEncrypt
  PROVE  NoForward(Jwes)
<1>1. CASE choice.from = None
  <2>1. PICK l : l = Anoncrypt(Me, choice.to)
    OBVIOUS
  <2>2. Jwes = <<l>> /\ l.t = "anon"
    BY <1>1, <2>1 DEF Jwes, Anoncrypt, AnonLayer
  <2> QED BY <2>2, NoForwardOne
<1>2. CASE choice.from # None
  <2>1. PICK l, m : l = Authcrypt(Me, choice.from, choice.to)
                    /\ m = AnonLayer(Doc(Me, Did(choice.to)), AuthKids(Me, choice.from, choice.to))
    OBVIOUS
  <2>2. l.t = "auth" /\ m.t = "anon"
    BY <2>1 DEF Authcrypt, AuthLayer, AnonLayer
  <2>3. PICK q, r : q = (IF choice.protect THEN <<m>> ELSE <<>>) /\ r = <<l>>
    OBVIOUS
  <2>4. Jwes = q \o r
    BY <1>2, <2>1, <2>3 DEF Jwes, Authcrypted
  <2>5. NoForward(q) /\ NoForward(r)
    <3>1. NoForward(<<m>>) /\ NoForward(<<l>>)
      BY <2>2, NoForwardOne
    <3>2. NoForward(<<>>)
      BY DEF NoForward
    <3> QED BY <2>3, <3>1, <3>2
  <2>6. q \in Seq({l, m}) /\ r \in Seq({l, m})
    <3>1. <<m>> \in Seq({l, m}) /\ <<l>> \in Seq({l, m}) /\ <<>> \in Seq({l, m})
      OBVIOUS
    <3> QED BY <2>3, <3>1
  <2> QED BY <2>4, <2>5, <2>6, NoForwardConcat
<1> QED BY <1>1, <1>2

\* The service that the packing finds is the first one that offers a way.
LEMMA FirstService ==
  ASSUME NEW d \in Dids, IsDocument(First(d)), First(d) # NoDoc, 1 \in 1..Len(Versions[d]),
         Usable(First(d), choice.service) # {}
  PROVE  LET all == First(d).services
         IN  Service(First(d), choice.service)[1] =
               all[CHOOSE i \in DOMAIN all : Offers(all[i]) /\ \A j \in 1..(i - 1) : ~Offers(all[j])]
<1>1. PICK all : all = First(d).services
  OBVIOUS
<1>2. PICK U : U = Usable(First(d), choice.service)
  OBVIOUS
<1>3. \A i \in DOMAIN all : i \in U <=> Offers(all[i])
  BY <1>1, <1>2 DEF Usable, Offers
<1>4. all \in Seq(ToSet(all))
  BY <1>1, ServicesAssumption DEF First
<1>5. DOMAIN all = 1..Len(all) /\ Len(all) \in Nat /\ U \subseteq DOMAIN all /\ U \subseteq Nat /\ U # {}
  <2>1. DOMAIN all = 1..Len(all) /\ Len(all) \in Nat
    BY <1>4
  <2>2. U \subseteq DOMAIN all
    BY <1>1, <1>2 DEF Usable
  <2> QED BY <1>2, <2>1, <2>2
<1>6. PICK n : n = Min(U)
  OBVIOUS
<1>7. n \in U /\ \A k \in U : n <= k
  <2>1. \E k \in U : \A l \in U : k <= l
    BY <1>5, LeastExists
  <2> QED BY <1>6, <2>1 DEF Min
<1> DEFINE P(i) == Offers(all[i]) /\ \A j \in 1..(i - 1) : ~Offers(all[j])
<1>8. n \in DOMAIN all /\ P(n)
  <2>1. n \in 1..Len(all) /\ Offers(all[n])
    BY <1>3, <1>5, <1>7
  <2>2. \A j \in 1..(n - 1) : j \in DOMAIN all /\ ~(n <= j)
    BY <1>5, <2>1
  <2>3. \A j \in 1..(n - 1) : ~Offers(all[j])
    BY <1>3, <1>7, <2>2
  <2> QED BY <1>5, <2>1, <2>3
<1>9. \A i \in DOMAIN all : P(i) => i = n
  <2>1. SUFFICES ASSUME NEW i \in DOMAIN all, P(i) PROVE i = n
    OBVIOUS
  <2>2. i \in U /\ n <= i /\ i \in Nat /\ n \in Nat /\ n >= 1
    BY <1>3, <1>5, <1>7, <1>8, <2>1
  <2>3. n \in 1..(i - 1) => ~Offers(all[n])
    BY <2>1
  <2>4. n \notin 1..(i - 1)
    BY <1>8, <2>3
  <2> QED BY <2>2, <2>4
<1>10. (CHOOSE i \in DOMAIN all : P(i)) = n
  <2> HIDE DEF P
  <2> QED BY <1>8, <1>9
<1>11. Service(First(d), choice.service) = <<all[n]>>
  BY <1>1, <1>2, <1>5, <1>6 DEF Service
<1>12. PICK s : s = all[n]
  OBVIOUS
<1>13. <<s>>[1] = s
  OBVIOUS
<1> QED BY <1>1, <1>10, <1>11, <1>12, <1>13

\* While the documents stay as they were, the packing takes the way they announce.
LEMMA RouteIsAnnounced ==
  ASSUME PackInv, Steady, CanRoute, Chain # <<>>
  PROVE  RoutingKeys = Announced
<1>1. PICK a \in Dids, d \in Dids : a = Me /\ d = Did(choice.to)
  BY MeType, DidType
<1>2. ViewOK
  BY DEF PackInv
<1>3. PICK doc : doc = Doc(a, d) /\ doc = First(d) /\ IsDocument(doc) /\ Resolves(a, d) /\ doc # NoDoc
  BY <1>2, FirstDocuments
<1>4. PICK mine : mine = Service(doc, choice.service) /\ mine # <<>>
  BY <1>1, <1>3 DEF Chain
<1>5. PICK s : s = mine[1]
  OBVIOUS
<1>6. s.uri \in Dids \cup Uris /\ s.routing \in Seq(Dids \cup Kids)
  BY <1>2, <1>3, <1>4, <1>5, ServiceType
<1>7. Announced = (IF s.uri \in Dids THEN <<s.uri>> ELSE <<>>) \o s.routing
  <2>1. Usable(First(d), choice.service) # {} /\ 1 \in 1..Len(Versions[d])
    <3>1. view[a][d] = 1 /\ view[a][d] \in 1..Len(Versions[d])
      BY <1>2 DEF ViewOK, Steady
    <3> QED BY <1>3, <1>4, <3>1 DEF Service
  <2>2. s = First(d).services[CHOOSE i \in DOMAIN First(d).services :
             Offers(First(d).services[i]) /\ \A j \in 1..(i - 1) : ~Offers(First(d).services[j])]
    BY <1>3, <1>4, <1>5, <2>1, FirstService
  <2> QED BY <1>1, <2>2 DEF Announced
<1>8. CASE s.uri \in Dids
  <2>1. PICK u \in Dids : u = s.uri
    BY <1>8
  <2>2. PICK t : t = Service(Doc(a, u), None)[1]
    OBVIOUS
  <2>3. Chain = <<t, s>>
    BY <1>1, <1>3, <1>4, <1>5, <2>1, <2>2 DEF Chain
  <2>4. Len(<<t, s>>) = 2 /\ <<t, s>>[1] = t /\ <<t, s>>[2] = s /\ Last(<<t, s>>) = s
    BY DEF Last
  <2>5. RoutingKeys = [i \in 1..(2 - 1) |-> <<t, s>>[i + 1].uri] \o s.routing
    BY <2>3, <2>4 DEF RoutingKeys
  <2>6. [i \in 1..(2 - 1) |-> <<t, s>>[i + 1].uri] = <<u>>
    BY <2>1
  <2> QED BY <1>7, <1>8, <2>1, <2>5, <2>6
<1>9. CASE s.uri \notin Dids
  <2>1. Chain = <<s>>
    BY <1>1, <1>3, <1>4, <1>5, <1>9 DEF Chain
  <2>2. Len(<<s>>) = 1 /\ <<s>>[1] = s /\ Last(<<s>>) = s
    BY DEF Last
  <2>3. RoutingKeys = [i \in 1..(1 - 1) |-> <<s>>[i + 1].uri] \o s.routing
    BY <2>1, <2>2 DEF RoutingKeys
  <2>4. [i \in 1..(1 - 1) |-> <<s>>[i + 1].uri] = <<>>
    OBVIOUS
  <2> QED BY <1>7, <1>9, <2>3, <2>4
<1> QED BY <1>8, <1>9

LEMMA WayIs ==
  ASSUME NEW T, Announced \in Seq(T), Announced # <<>>, choice.to \in T
  PROVE  /\ Way \in Seq(T) /\ Len(Way) = Len(Announced) /\ Len(Way) \in Nat /\ Len(Way) >= 1
         /\ Way[Len(Way)] = choice.to
         /\ \A i \in 1..(Len(Way) - 1) : Way[i] = Announced[i + 1]
<1>1. PICK s \in Seq(T), x \in T : s = Announced /\ x = choice.to /\ s # <<>>
  OBVIOUS
<1>2. PICK q : q = Tail(s)
  OBVIOUS
<1>9. q \in Seq(T)
  BY <1>1, <1>2
<1>10. Len(s) \in Nat /\ Len(s) >= 1
  BY <1>1
<1>11. Len(q) = Len(s) - 1
  BY <1>1, <1>2
<1>12. \A i \in 1..Len(q) : q[i] = s[i + 1]
  BY <1>1, <1>2, <1>11
<1>3. PICK r \in Seq(T) : r = <<x>> /\ Len(r) = 1 /\ r[1] = x
  <2>1. <<x>> \in Seq(T)
    OBVIOUS
  <2>2. Len(<<x>>) = 1 /\ <<x>>[1] = x
    OBVIOUS
  <2> QED BY <2>1, <2>2
<1>4. PICK j : j = q \o r
  OBVIOUS
<1>5. /\ j \in Seq(T) /\ Len(j) = Len(q) + Len(r)
      /\ \A i \in 1..Len(q) : j[i] = q[i]
      /\ \A i \in 1..Len(r) : j[Len(q) + i] = r[i]
  BY <1>4, <1>9, <1>3, ConcatIs
<1>6. Len(j) = Len(s) /\ j[Len(j)] = x
  <2>1. Len(j) = Len(q) + 1 /\ 1 \in 1..Len(r)
    BY <1>3, <1>5
  <2>2. j[Len(q) + 1] = x
    BY <1>3, <1>5, <2>1
  <2> QED BY <1>10, <1>11, <2>1, <2>2
<1>7. \A i \in 1..(Len(j) - 1) : j[i] = s[i + 1]
  BY <1>10, <1>11, <1>12, <1>5, <1>6
<1>8. Way = j
  BY <1>1, <1>2, <1>3, <1>4 DEF Way
<1> QED BY <1>1, <1>2, <1>5, <1>6, <1>7, <1>8, <1>10

\* Where the first forward is: on top, or below the JWE that hides it.
Spot(ph) == IF ph \in {"sender", "inbox", "anoncrypt"} THEN 2 ELSE 1

\* The forwards so far were to the first stops, and the next ones are in the layers.
Walked(tr, ls, p) ==
  /\ Len(tr) <= Len(Way)
  /\ \A i \in 1..Len(tr) : tr[i] = Way[i]
  /\ Ahead(ls, Way, Len(tr), p)

\* The last stops are wrapped, and the keys for the first ones are left.
Wrapped(rt, ls) ==
  /\ Len(rt.keys) \in 1..Len(Announced)
  /\ \A i \in 1..Len(rt.keys) : rt.keys[i] = Announced[i]
  /\ rt.next = Way[Len(rt.keys)]
  /\ Ahead(ls, Way, Len(rt.keys), 2)

WayInv ==
  Steady =>
    /\ stage \in {"prior", "body", "encrypt", "route"} =>
         claim.endpoint = None /\ NoForward(layers)
    /\ phase = "sender" => trail = <<>>
    /\ stage = "wrap" => claim.endpoint # None /\ Wrapped(route, layers)
    /\ claim.endpoint # None => Announced \in Seq(Dids \cup Kids) /\ Announced # <<>>
    /\ stage = "packed" /\ claim.endpoint # None /\ phase \notin {"refused", "forward"} =>
         Walked(trail, layers, Spot(phase))

\* The documents and the request do not change on the way.
LEMMA WayKept ==
  ASSUME choice' = choice
  PROVE  Announced' = Announced /\ Way' = Way
<1>1. Announced' = Announced
  BY DEF Announced, Offers, First
<1> QED BY <1>1 DEF Way

LEMMA WayFacts ==
  ASSUME PackInv, WayInv, Steady, claim.endpoint # None
  PROVE  /\ Way \in Seq(Dids \cup Kids) /\ Len(Way) \in Nat /\ Len(Way) >= 1
         /\ Len(Way) = Len(Announced) /\ Way[Len(Way)] = choice.to
         /\ \A i \in 1..(Len(Way) - 1) : Way[i] = Announced[i + 1]
         /\ Announced \in Seq(Dids \cup Kids)
<1>1. Announced \in Seq(Dids \cup Kids) /\ Announced # <<>> /\ choice.to \in Dids \cup Kids
  BY MeType DEF WayInv
<1> QED BY <1>1, WayIs

-----------------------------------------------------------------------------
(* The onion is wrapped from the last stop to the first *)

LEMMA WayInvChoose ==
  ASSUME PackInv, WayInv, Steady, ChooseRoute, stage' = "wrap"
  PROVE  /\ claim'.endpoint # None /\ Announced \in Seq(Dids \cup Kids) /\ Announced # <<>>
         /\ Wrapped(route', layers')
<1>1. /\ CanRoute /\ RoutingKeys # <<>> /\ layers' = layers
      /\ route' = [keys |-> RoutingKeys, next |-> choice.to]
      /\ claim' = [claim EXCEPT !.endpoint = Chain[1].uri]
      /\ claim \in ClaimType /\ stage = "route"
  BY DEF ChooseRoute, PackInv
<1>2. Chain # <<>>
  BY <1>1 DEF RoutingKeys
<1>3. RoutingKeys = Announced /\ RoutingKeys \in Seq(Dids \cup Kids) /\ Chain[1].uri \in Uris
  BY <1>1, <1>2, RouteIsAnnounced, ChainType
<1>4. claim'.endpoint # None
  BY <1>1, <1>3, EndpointsAssumption DEF ClaimType
<1>5. PICK s \in Seq(Dids \cup Kids) : s = Announced /\ s # <<>> /\ route'.keys = s
  BY <1>1, <1>3
<1>6. /\ Len(Way) = Len(s) /\ Len(Way) \in Nat /\ Len(Way) >= 1 /\ Way[Len(Way)] = choice.to
  BY <1>5, MeType, WayIs
<1>7. NoForward(layers)
  BY <1>1 DEF WayInv
<1>8. Ahead(layers, Way, Len(Way), 2)
  BY <1>6, <1>7, NoneAhead
<1>9. Wrapped(route', layers')
  BY <1>1, <1>5, <1>6, <1>8 DEF Wrapped
<1> QED BY <1>3, <1>4, <1>5, <1>9

LEMMA FrontIs ==
  ASSUME NEW T, NEW s \in Seq(T), s # <<>>
  PROVE  /\ Len(s) \in Nat /\ Len(s) >= 1 /\ Len(Front(s)) = Len(s) - 1
         /\ \A i \in 1..(Len(s) - 1) : Front(s)[i] = s[i]
         /\ Last(s) = s[Len(s)]
<1>1. Len(s) \in Nat /\ Len(s) >= 1
  OBVIOUS
<1>2. PICK n \in Int : n = Len(s) - 1 /\ n >= 0
  BY <1>1
<1>3. \A i \in 1..n : s[i] \in T
  BY <1>1, <1>2
<1>4. /\ Len(SubSeq(s, 1, n)) = IF 1 <= n THEN n - 1 + 1 ELSE 0
      /\ \A i \in 1..(n - 1 + 1) : SubSeq(s, 1, n)[i] = s[1 + i - 1]
  BY <1>3, SubSeqProperties
<1>5. Len(SubSeq(s, 1, n)) = n
  BY <1>2, <1>4
<1>6. \A i \in 1..n : SubSeq(s, 1, n)[i] = s[i]
  <2>1. TAKE i \in 1..n
  <2>2. i \in 1..(n - 1 + 1) /\ 1 + i - 1 = i
    OBVIOUS
  <2> QED BY <1>4, <2>2
<1> QED BY <1>1, <1>2, <1>5, <1>6 DEF Front, Last

LEMMA WayInvWrap ==
  ASSUME PackInv, WayInv, Steady, WrapLayer, trail = <<>>
  PROVE  /\ claim'.endpoint # None
         /\ Announced \in Seq(Dids \cup Kids) /\ Announced # <<>>
         /\ stage' = "wrap" => Wrapped(route', layers')
         /\ stage' = "packed" => Walked(trail, layers', 2)
<1>1. /\ stage = "wrap" /\ claim.endpoint # None /\ Wrapped(route, layers) /\ claim' = claim
      /\ Announced # <<>> /\ route.keys # <<>> /\ Stack(Me, layers)
  BY DEF WayInv, WrapLayer, PackInv
<1>2. PICK keys \in Seq(Dids \cup Kids) : keys = route.keys /\ keys # <<>>
  BY <1>1 DEF PackInv, RouteType
<1>3. PICK n \in Nat : n = Len(keys) /\ n >= 1
  BY <1>2, FrontIs
<1>4. /\ Way \in Seq(Dids \cup Kids) /\ Len(Way) \in Nat /\ Len(Way) = Len(Announced)
      /\ \A i \in 1..(Len(Way) - 1) : Way[i] = Announced[i + 1]
      /\ Announced \in Seq(Dids \cup Kids)
  BY <1>1, WayFacts
<1>5. /\ n <= Len(Way) /\ n <= Len(Announced) /\ \A i \in 1..n : keys[i] = Announced[i]
      /\ route.next = Way[n] /\ Ahead(layers, Way, n, 2)
  BY <1>1, <1>2, <1>3, <1>4 DEF Wrapped
<1>6. PICK T : T = LayersOf(Me)
  OBVIOUS
<1>7. PICK l, f : l = Anoncrypt(Me, Last(keys)) /\ f = ForwardLayer(route.next)
  OBVIOUS
<1>8. l \in T /\ f \in T
  <2>1. <<l, f>> \in Seq(T)
    BY <1>2, <1>6, <1>7, WrapType
  <2>2. <<l, f>>[1] = l /\ <<l, f>>[2] = f /\ Len(<<l, f>>) = 2
    OBVIOUS
  <2> QED BY <2>1, <2>2
<1>9. l.t = "anon" /\ f.t = "forward" /\ f.next = Way[n]
  BY <1>5, <1>7 DEF Anoncrypt, AnonLayer, ForwardLayer
<1>10. layers \in Seq(T)
  BY <1>1, <1>6 DEF Stack
<1>11. Ahead(<<l, f>> \o layers, Way, n - 1, 2)
  BY <1>3, <1>4, <1>5, <1>8, <1>9, <1>10, AheadWrapped
<1>12. layers' = <<l, f>> \o layers
  BY <1>2, <1>7 DEF WrapLayer
<1>13. /\ route' = [keys |-> Front(keys), next |-> Last(keys)]
       /\ stage' = IF n = 1 THEN "packed" ELSE "wrap"
  BY <1>2, <1>3 DEF WrapLayer
<1>14. CASE n = 1
  <2>1. Ahead(layers', Way, 0, 2) /\ Len(<<>>) = 0
    BY <1>11, <1>12, <1>14
  <2>2. Walked(<<>>, layers', 2)
    BY <1>4, <2>1 DEF Walked
  <2> QED BY <1>1, <1>4, <1>13, <1>14, <2>2
<1>15. CASE n # 1
  <2>1. /\ Len(Front(keys)) = n - 1 /\ \A i \in 1..(n - 1) : Front(keys)[i] = keys[i]
        /\ Last(keys) = keys[n]
    BY <1>2, <1>3, FrontIs
  <2>2. n - 1 \in 1..Len(Announced) /\ n \in 1..n
    BY <1>3, <1>4, <1>5, <1>15
  <2>3. \A i \in 1..(n - 1) : Front(keys)[i] = Announced[i]
    BY <1>3, <1>5, <2>1
  <2>4. Last(keys) = Way[n - 1]
    <3>1. n - 1 \in 1..(Len(Way) - 1) /\ (n - 1) + 1 = n
      BY <1>3, <1>4, <1>5, <1>15
    <3>2. Way[n - 1] = Announced[n]
      BY <1>4, <3>1
    <3> QED BY <1>5, <2>1, <2>2, <3>2
  <2>5. Ahead(layers', Way, n - 1, 2)
    BY <1>11, <1>12
  <2>6. route'.keys = Front(keys) /\ route'.next = Last(keys)
    BY <1>13
  <2>7. Wrapped(route', layers')
    BY <2>1, <2>2, <2>3, <2>4, <2>5, <2>6 DEF Wrapped
  <2> QED BY <1>1, <1>4, <1>13, <1>15, <2>7
<1> QED BY <1>14, <1>15

\* Up to the choice of the route there is no forward.
LEMMA WayInvBefore ==
  ASSUME PackInv, NoForward(layers), PackPrior \/ PackBody \/ Encrypt
  PROVE  NoForward(layers') /\ claim'.endpoint = claim.endpoint
<1>1. Stack(Me, layers) /\ claim \in ClaimType
  BY DEF PackInv
<1>2. PICK T : T = LayersOf(Me)
  OBVIOUS
<1>3. layers \in Seq(T)
  BY <1>1, <1>2 DEF Stack
<1>4. CASE PackPrior
  <2>1. PICK l : l = PlainLayer(SignCompact(Head(Signers(Me, choice.prior))))
    OBVIOUS
  <2>2. l.t # "forward"
    BY <2>1 DEF PlainLayer
  <2>3. layers' = layers \/ layers' = <<l>>
    BY <1>4, <2>1 DEF PackPrior
  <2>4. claim' = claim
    BY <1>4 DEF PackPrior
  <2> QED BY <2>2, <2>3, <2>4, NoForwardOne
<1>5. CASE PackBody
  <2>1. PICK k, l : k = Head(Signers(Me, choice.signBy)) /\ l = SignLayer(k, Secret(Me, k))
    OBVIOUS
  <2>2. l.t # "forward"
    BY <2>1 DEF SignLayer
  <2>3. \/ layers' = layers /\ claim' = claim
        \/ layers' = <<l>> \o layers /\ claim' = [claim EXCEPT !.signer = k]
    BY <1>5, <2>1 DEF PackBody
  <2>4. claim'.endpoint = claim.endpoint
    BY <1>1, <2>3 DEF ClaimType
  <2>5. PICK U : U = T \cup {l}
    OBVIOUS
  <2>6. layers \in Seq(U) /\ <<l>> \in Seq(U)
    BY <1>3, <2>5
  <2>7. NoForward(<<l>>)
    BY <2>2, NoForwardOne
  <2>8. NoForward(<<l>> \o layers)
    BY <2>6, <2>7, NoForwardConcat
  <2> QED BY <2>3, <2>4, <2>8
<1>6. CASE Encrypt
  <2>1. layers' = Jwes \o layers /\ CanEncrypt
    BY <1>6 DEF Encrypt
  <2>2. Jwes \in Seq(T) /\ NoForward(Jwes)
    BY <1>2, <2>1, JwesType, JwesNoForward
  <2>3. NoForward(Jwes \o layers)
    BY <1>3, <2>2, NoForwardConcat
  <2>4. claim'.endpoint = claim.endpoint
    BY <1>1, <1>6 DEF ClaimType, Encrypt
  <2> QED BY <2>1, <2>3, <2>4
<1> QED BY <1>4, <1>5, <1>6

-----------------------------------------------------------------------------
(* Each reader takes off one stop *)

LEMMA WalkedOn ==
  ASSUME EnvInv, WayInv, Steady, claim.endpoint # None,
         phase \in {"inbox", "anoncrypt", "authcrypt", "sign", "plaintext", "opened"}
  PROVE  /\ Stack(Me, layers) /\ trail \in Seq(Dids \cup Kids) /\ Len(trail) \in Nat
         /\ Way \in Seq(Dids \cup Kids) /\ Len(Way) \in Nat
         /\ Walked(trail, layers, Spot(phase))
         /\ Len(trail) <= Len(Way) /\ Ahead(layers, Way, Len(trail), Spot(phase))
<1>1. PackInv /\ ReadInv
  BY DEF EnvInv
<1>2. Stack(Me, layers)
  BY <1>1 DEF PackInv
<1>3. trail \in Seq(Dids \cup Kids) /\ stage = "packed"
  BY <1>1 DEF ReadInv
<1>4. Len(trail) \in Nat
  BY <1>3
<1>5. Way \in Seq(Dids \cup Kids) /\ Len(Way) \in Nat
  BY <1>1, WayFacts
<1>6. Walked(trail, layers, Spot(phase))
  BY <1>3 DEF WayInv
<1> QED BY <1>2, <1>3, <1>4, <1>5, <1>6 DEF Walked

\* The forward on top is addressed to the next stop.
LEMMA WalkedNext ==
  ASSUME NEW ls, Stack(Me, ls), ls[1].t = "forward",
         NEW tr \in Seq(Dids \cup Kids), Len(Way) \in Nat, Walked(tr, ls, 1)
  PROVE  Walked(Append(tr, ls[1].next), Tail(ls), 2)
<1>1. PICK m \in Nat : m = Len(tr)
  OBVIOUS
<1>2. m <= Len(Way) /\ Ahead(ls, Way, m, 1) /\ \A i \in 1..m : tr[i] = Way[i]
  BY <1>1 DEF Walked
<1>3. m + 1 <= Len(Way) /\ ls[1].next = Way[m + 1] /\ Ahead(Tail(ls), Way, m + 1, 2)
  BY <1>2, AheadNext
<1>4. ls[1].next \in Dids \cup Kids
  <2>1. IsLayer(ls[1])
    BY StackTop
  <2> QED BY <2>1 DEF IsLayer, IsJwe
<1>5. PICK x \in Dids \cup Kids : x = ls[1].next
  BY <1>4
<1>6. Len(Append(tr, x)) = m + 1 /\ Append(tr, x)[m + 1] = x
  BY <1>1
<1>7. \A i \in 1..m : Append(tr, x)[i] = tr[i]
  BY <1>1
<1>8. \A i \in 1..(m + 1) : Append(tr, x)[i] = Way[i]
  <2>1. TAKE i \in 1..(m + 1)
  <2>2. i \in 1..m \/ i = m + 1
    OBVIOUS
  <2> QED BY <1>2, <1>3, <1>5, <1>6, <1>7, <2>2
<1>9. Walked(Append(tr, x), Tail(ls), 2)
  BY <1>3, <1>6, <1>8 DEF Walked
<1> QED BY <1>5, <1>9

LEMMA WalkedOpen ==
  ASSUME EnvInv, WayInv, Steady, claim.endpoint # None, Open
  PROVE  phase' = "refused" \/ Walked(trail', layers', Spot(phase'))
<1>1. phase = "inbox" /\ layers' = layers /\ trail' = trail /\ phase' \in {"refused", "anoncrypt"}
  BY DEF Open, Refuse, packVars
<1>2. Walked(trail, layers, Spot(phase))
  BY <1>1, WalkedOn
<1> QED BY <1>1, <1>2 DEF Spot

LEMMA WalkedAnoncrypt ==
  ASSUME EnvInv, ShapeInv, WayInv, Steady, claim.endpoint # None, UnpackAnoncrypt
  PROVE  phase' = "refused" \/ Walked(trail', layers', Spot(phase'))
<1>1. phase = "anoncrypt" /\ Spot(phase) = 2
  BY DEF UnpackAnoncrypt, Spot
<1>2. /\ Stack(Me, layers) /\ trail \in Seq(Dids \cup Kids) /\ Len(trail) \in Nat
      /\ Len(Way) \in Nat /\ Walked(trail, layers, 2)
      /\ Len(trail) <= Len(Way) /\ Ahead(layers, Way, Len(trail), 2)
  BY <1>1, WalkedOn
<1>3. CASE Refuse
  BY <1>3 DEF Refuse
<1>4. CASE Top.t # "anon" /\ phase' = "authcrypt" /\ layers' = layers /\ trail' = trail
  <2>1. Whole(layers, choice, claim)
    BY <1>1 DEF ShapeInv, EnvInv, ReadInv
  <2>2. layers[1].t = "auth" /\ CoreAt(layers, 1, choice, claim)
    BY <1>2, <1>4, <2>1, AuthOnTop DEF Top
  <2>5. Tail(layers)[1].t # "forward"
    <3>1. BodyFrom(Tail(layers), 0, claim)
      BY <1>2, <2>2, CoreOff
    <3> QED BY <3>1 DEF BodyFrom
  <2>3. Ahead(layers, Way, Len(trail), 1)
    BY <1>2, <2>2, <2>5, AheadArrived
  <2>4. Walked(trail, layers, 1)
    BY <1>2, <2>3 DEF Walked
  <2> QED BY <1>4, <2>4 DEF Spot
<1>5. CASE /\ Top.t = "anon"
           /\ \/ /\ layers' = Tail(layers) /\ phase' = "authcrypt" /\ trail' = trail
              \/ /\ layers' = Tail(Tail(layers)) /\ phase' = phase
                 /\ trail' = Append(trail, Tail(layers)[1].next) /\ ForwardHere(Tail(layers))
  <2>1. layers[1].t # "plain"
    BY <1>5 DEF Top
  <2>2. PICK r : r = Tail(layers)
    OBVIOUS
  <2>3. Stack(Me, r) /\ Ahead(r, Way, Len(trail), 1)
    BY <1>2, <2>1, <2>2, StackTail, AheadBelow
  <2>4. Walked(trail, r, 1)
    BY <1>2, <2>3 DEF Walked
  <2>5. CASE layers' = r /\ phase' = "authcrypt" /\ trail' = trail
    BY <2>4, <2>5 DEF Spot
  <2>6. CASE /\ layers' = Tail(r) /\ phase' = phase
             /\ trail' = Append(trail, r[1].next) /\ ForwardHere(r)
    <3>1. r[1].t = "forward"
      BY <2>6 DEF ForwardHere
    <3>2. Walked(Append(trail, r[1].next), Tail(r), 2)
      BY <1>2, <2>3, <2>4, <3>1, WalkedNext
    <3> QED BY <1>1, <2>6, <3>2
  <2> QED BY <1>5, <2>2, <2>5, <2>6
<1> QED BY <1>3, <1>4, <1>5 DEF UnpackAnoncrypt, packVars

\* Where there is no forward on top the message has arrived, and none is below.
LEMMA WalkedTo ==
  ASSUME NEW ls, Stack(Me, ls), ls[1].t \notin {"forward", "plain"},
         NEW tr, Len(tr) \in Nat, Len(Way) \in Nat, Walked(tr, ls, 1)
  PROVE  Walked(tr, Tail(ls), 1)
<1>1. PICK m \in Nat : m = Len(tr)
  OBVIOUS
<1>2. m <= Len(Way) /\ Ahead(ls, Way, m, 1)
  BY <1>1 DEF Walked
<1>3. m = Len(Way) /\ NoForward(ls)
  BY <1>2, AheadOver
<1>4. NoForward(Tail(ls))
  BY <1>3, NoForwardUnder
<1>5. Ahead(Tail(ls), Way, m, 1)
  BY <1>3, <1>4, NoneAhead
<1> QED BY <1>1, <1>5 DEF Walked

LEMMA WalkedAuthcrypt ==
  ASSUME EnvInv, WayInv, Steady, claim.endpoint # None, UnpackAuthcrypt \/ UnpackSign
  PROVE  phase' = "refused" \/ Walked(trail', layers', Spot(phase'))
<1>1. phase \in {"authcrypt", "sign"} /\ Spot(phase) = 1
  BY DEF UnpackAuthcrypt, UnpackSign, Spot
<1>2. /\ Stack(Me, layers) /\ Len(trail) \in Nat /\ Len(Way) \in Nat /\ Walked(trail, layers, 1)
  BY <1>1, WalkedOn
<1>3. CASE Refuse
  BY <1>3 DEF Refuse
<1>4. CASE layers' = layers /\ trail' = trail /\ phase' \in {"sign", "plaintext"}
  BY <1>2, <1>4 DEF Spot
<1>5. CASE /\ Top.t \in {"auth", "sign"} /\ layers' = Tail(layers) /\ trail' = trail
           /\ phase' \in {"sign", "plaintext"}
  <2>1. layers[1].t \notin {"forward", "plain"}
    BY <1>5 DEF Top
  <2>2. Walked(trail, Tail(layers), 1)
    BY <1>2, <2>1, WalkedTo
  <2> QED BY <1>5, <2>2 DEF Spot
<1> QED BY <1>3, <1>4, <1>5 DEF UnpackAuthcrypt, UnpackSign, packVars

LEMMA WalkedPlaintext ==
  ASSUME EnvInv, WayInv, Steady, claim.endpoint # None, UnpackPlaintext
  PROVE  phase' = "refused" \/ Walked(trail', layers', Spot(phase'))
<1>1. phase = "plaintext" /\ layers' = layers /\ trail' = trail /\ phase' \in {"refused", "opened"}
  BY DEF UnpackPlaintext, packVars
<1>2. Walked(trail, layers, Spot(phase))
  BY <1>1, WalkedOn
<1> QED BY <1>1, <1>2 DEF Spot

LEMMA WalkedRelay ==
  ASSUME EnvInv, WayInv, Steady, claim.endpoint # None, Relay
  PROVE  phase' = "forward" \/ Walked(trail', layers', Spot(phase'))
<1>1. phase = "plaintext" /\ Spot(phase) = 1 /\ Top.t = "forward"
  BY DEF Relay, RelayAtMediator, ForwardForClient, Spot
<1>2. /\ Stack(Me, layers) /\ trail \in Seq(Dids \cup Kids) /\ Len(Way) \in Nat
      /\ Walked(trail, layers, 1)
  BY <1>1, WalkedOn
<1>3. Walked(Append(trail, layers[1].next), Tail(layers), 2)
  BY <1>1, <1>2, WalkedNext DEF Top
<1> QED BY <1>3 DEF Relay, RelayAtMediator, ForwardForClient, Top, Spot

-----------------------------------------------------------------------------
(* WayInv is inductive *)

LEMMA WayInvInit ==
  EnvelopeInit => WayInv
<1>1. SUFFICES ASSUME EnvelopeInit PROVE WayInv
  OBVIOUS
<1>2. PICK l : l = PlainLayer(None)
  OBVIOUS
<1>3. l.t # "forward"
  BY <1>2 DEF PlainLayer
<1>4. NoForward(<<l>>)
  BY <1>3, NoForwardOne
<1>5. /\ stage = "prior" /\ trail = <<>> /\ claim = NoClaim /\ layers = <<l>>
  BY <1>1, <1>2 DEF EnvelopeInit, PackInit
<1>6. claim.endpoint = None
  BY <1>5 DEF NoClaim
<1> QED BY <1>4, <1>5, <1>6 DEF WayInv

\* The same way, before a step and after it.
LEMMA WayInvStep ==
  ASSUME choice' = choice,
         stage' \in {"prior", "body", "encrypt", "route"} =>
           claim'.endpoint = None /\ NoForward(layers'),
         phase' = "sender" => trail' = <<>>,
         stage' = "wrap" => claim'.endpoint # None /\ Wrapped(route', layers'),
         claim'.endpoint # None => Announced \in Seq(Dids \cup Kids) /\ Announced # <<>>,
         stage' = "packed" /\ claim'.endpoint # None /\ phase' \notin {"refused", "forward"} =>
           Walked(trail', layers', Spot(phase'))
  PROVE  WayInv'
<1>1. Announced' = Announced /\ Way' = Way
  BY WayKept
<1>2. Wrapped(route', layers') => Wrapped(route, layers)'
  BY <1>1 DEF Wrapped, Ahead
<1>3. Walked(trail', layers', Spot(phase')) => Walked(trail, layers, Spot(phase))'
  BY <1>1 DEF Walked, Ahead, Spot
<1> QED BY <1>1, <1>2, <1>3 DEF WayInv, NoForward

LEMMA WayInvPack ==
  ASSUME EnvInv, ShapeInv, WayInv, Steady, PackSome
  PROVE  WayInv'
<1>1. PackInv /\ Pack /\ phase' = "sender" /\ phase = "sender" /\ trail' = trail
  BY ShapeInvPack DEF EnvInv, PackSome, unpackVars
<1>2. trail = <<>> /\ trail' = <<>> /\ Spot(phase') = 2
  BY <1>1 DEF WayInv, Spot
<1>3. CASE PackPrior \/ PackBody \/ Encrypt
  <2>1. /\ stage \in {"prior", "body", "encrypt"} /\ stage' \in {"body", "encrypt", "route"}
        /\ choice' = choice
    BY <1>3 DEF PackPrior, PackBody, Encrypt
  <2>2. claim.endpoint = None /\ NoForward(layers)
    BY <2>1 DEF WayInv
  <2>3. claim'.endpoint = None /\ NoForward(layers')
    BY <1>1, <1>3, <2>2, WayInvBefore
  <2> QED BY <1>2, <2>1, <2>3, WayInvStep
<1>4. CASE ChooseRoute
  <2>1. /\ stage = "route" /\ stage' \in {"wrap", "packed"} /\ choice' = choice
        /\ stage' = "packed" => claim' = claim
    BY <1>4 DEF ChooseRoute
  <2>2. claim.endpoint = None
    BY <2>1 DEF WayInv
  <2>3. CASE stage' = "packed"
    BY <1>2, <2>1, <2>2, <2>3, WayInvStep
  <2>4. CASE stage' = "wrap"
    <3>1. /\ claim'.endpoint # None /\ Announced \in Seq(Dids \cup Kids) /\ Announced # <<>>
          /\ Wrapped(route', layers')
      BY <1>1, <1>4, <2>4, WayInvChoose
    <3> QED BY <1>2, <2>1, <2>4, <3>1, WayInvStep
  <2> QED BY <2>1, <2>3, <2>4
<1>5. CASE WrapLayer
  <2>1. /\ stage' \in {"wrap", "packed"} /\ choice' = choice
    BY <1>5 DEF WrapLayer
  <2>2. /\ claim'.endpoint # None
        /\ Announced \in Seq(Dids \cup Kids) /\ Announced # <<>>
        /\ stage' = "wrap" => Wrapped(route', layers')
        /\ stage' = "packed" => Walked(trail, layers', 2)
    BY <1>1, <1>2, <1>5, WayInvWrap
  <2> QED BY <1>1, <1>2, <2>1, <2>2, WayInvStep
<1>6. CASE PackError
  <2>1. stage' = "failed" /\ choice' = choice /\ claim' = claim
    BY <1>6 DEF PackError, Fail
  <2>2. claim.endpoint # None => Announced \in Seq(Dids \cup Kids) /\ Announced # <<>>
    BY DEF WayInv
  <2> QED BY <1>2, <2>1, <2>2, WayInvStep
<1> QED BY <1>1, <1>3, <1>4, <1>5, <1>6 DEF Pack

LEMMA WayInvNext ==
  ASSUME EnvInv, ShapeInv, WayInv, [EnvelopeNext]_envelopeVars
  PROVE  WayInv'
<1>1. SUFFICES ASSUME Steady' PROVE WayInv'
  BY DEF WayInv
<1>2. Steady
  BY <1>1, OnceSteady
<1>3. PackInv /\ ReadInv
  BY DEF EnvInv
<1>4. claim.endpoint # None => Announced \in Seq(Dids \cup Kids) /\ Announced # <<>>
  BY <1>2 DEF WayInv
<1>5. CASE UNCHANGED <<packVars, unpackVars>>
  <2>1. /\ choice' = choice /\ stage' = stage /\ layers' = layers /\ route' = route
        /\ claim' = claim /\ phase' = phase /\ trail' = trail
    BY <1>5 DEF packVars, unpackVars
  <2>2. Announced' = Announced /\ Way' = Way
    BY <2>1, WayKept
  <2> QED BY <1>2, <2>1, WayInvStep DEF WayInv
<1>6. CASE LearnSome
  BY <1>5, <1>6 DEF LearnSome
<1>7. CASE UNCHANGED envelopeVars
  BY <1>5, <1>7 DEF envelopeVars
<1>8. CASE PackSome
  BY <1>2, <1>8, WayInvPack
<1>9. CASE Send
  <2>1. /\ choice' = choice /\ stage' = stage /\ stage = "packed" /\ layers' = layers
        /\ claim' = claim /\ phase = "sender" /\ phase' = "inbox" /\ trail' = trail
    BY <1>9 DEF Send, packVars
  <2>2. claim.endpoint # None => Walked(trail, layers, Spot(phase))
    BY <1>2, <2>1 DEF WayInv
  <2>3. Spot(phase') = Spot(phase)
    BY <2>1 DEF Spot
  <2> QED BY <1>4, <2>1, <2>2, <2>3, WayInvStep
<1>10. CASE Unpack
  <2>1. /\ choice' = choice /\ stage' = stage /\ claim' = claim
        /\ phase # "sender" /\ phase' # "sender"
    BY <1>10 DEF Unpack, Open, UnpackAnoncrypt, UnpackAuthcrypt, UnpackSign, UnpackPlaintext,
       Relay, RelayAtMediator, ForwardForClient, Refuse, packVars
  <2>2. stage = "packed"
    BY <1>3, <2>1 DEF ReadInv
  <2>3. claim.endpoint # None =>
          phase' \in {"refused", "forward"} \/ Walked(trail', layers', Spot(phase'))
    BY <1>2, <1>10, WalkedOpen, WalkedAnoncrypt, WalkedAuthcrypt, WalkedPlaintext, WalkedRelay
       DEF Unpack
  <2> QED BY <1>4, <2>1, <2>2, <2>3, WayInvStep
<1> QED BY <1>5, <1>6, <1>7, <1>8, <1>9, <1>10 DEF EnvelopeNext

\* What is left of an opened message is its plaintext.
EndInv == phase = "opened" => Top.t = "plain"

LEMMA EndInvNext ==
  ASSUME EnvInv, ShapeInv, EndInv, [EnvelopeNext]_envelopeVars
  PROVE  EndInv'
<1>1. CASE UNCHANGED <<packVars, unpackVars>>
  BY <1>1 DEF packVars, unpackVars, Top, EndInv
<1>2. CASE PackSome
  BY <1>2, ShapeInvPack DEF EndInv
<1>3. CASE UnpackPlaintext
  BY <1>3 DEF UnpackPlaintext, packVars, Top, EndInv
<1>4. CASE Send \/ Open \/ UnpackAnoncrypt \/ UnpackAuthcrypt \/ UnpackSign \/ Relay
  <2>1. phase' # "opened"
    BY <1>4 DEF Send, Open, UnpackAnoncrypt, UnpackAuthcrypt, UnpackSign, Relay,
       RelayAtMediator, ForwardForClient, Refuse
  <2> QED BY <2>1 DEF EndInv
<1> QED BY <1>1, <1>2, <1>3, <1>4 DEF EnvelopeNext, Unpack, LearnSome, envelopeVars

\* A message that is opened, while the documents stay as they were, went the way
\* that wrap_in_forward was given: every owner of a routing key and the mediator of
\* a DID endpoint, each once for each time it is listed, in that order, and the
\* addressee in the end.  No forward is skipped, repeated or taken out of turn.
THEOREM TheAnnouncedWay ==
  EnvelopeSpec => []RouteTaken
<1>1. EnvInv /\ WayInv /\ EndInv => RouteTaken
  <2>1. SUFFICES ASSUME EnvInv, WayInv, EndInv, phase = "opened", Steady, claim.endpoint # None
                 PROVE  trail = Way
    BY DEF RouteTaken
  <2>2. /\ Stack(Me, layers) /\ trail \in Seq(Dids \cup Kids) /\ Len(trail) \in Nat
        /\ Way \in Seq(Dids \cup Kids) /\ Len(Way) \in Nat /\ Len(trail) <= Len(Way)
        /\ Walked(trail, layers, Spot(phase)) /\ Ahead(layers, Way, Len(trail), Spot(phase))
    BY <2>1, WalkedOn
  <2>3. layers[1].t # "forward" /\ Spot(phase) = 1
    BY <2>1 DEF EndInv, Top, Spot
  <2>4. Len(trail) = Len(Way)
    BY <2>2, <2>3, AheadOver
  <2>5. \A i \in 1..Len(trail) : trail[i] = Way[i]
    BY <2>2 DEF Walked
  <2>6. PICK s \in Seq(Dids \cup Kids), w \in Seq(Dids \cup Kids) : s = trail /\ w = Way
    BY <2>2
  <2>7. Len(s) = Len(w) /\ \A i \in 1..Len(s) : s[i] = w[i]
    BY <2>4, <2>5, <2>6
  <2>8. s = w
    BY <2>7, SeqEqual
  <2> QED BY <2>6, <2>8
<1>2. EnvelopeInit => EndInv
  BY DEF EnvelopeInit, EndInv
<1>3. EnvInv /\ ShapeInv /\ WayInv /\ EndInv /\ [EnvelopeNext]_envelopeVars => (WayInv /\ EndInv)'
  BY WayInvNext, EndInvNext
<1> QED BY <1>1, <1>2, <1>3, WayInvInit, EnvInvHolds, MetaInvHolds, PTL DEF EnvelopeSpec

-----------------------------------------------------------------------------
(* Who the outermost layer is for *)

\* The packed message is for the first stop, and a message in an inbox for its owner.
AddressInv ==
  Steady =>
    /\ stage = "packed" /\ phase = "sender" =>
         IsJwe(Top) /\ MadeFor(Top, IF claim.endpoint = None THEN choice.to ELSE Announced[1])
    /\ phase # "sender" /\ RouteBegins /\ IsJwe(Top) => MadeFor(Top, at)

LEMMA MadeForDid ==
  ASSUME NEW x \in Dids \cup Kids, IsDocument(First(Did(x))), NEW l, MadeFor(l, x)
  PROVE  MadeFor(l, Did(x))
<1>1. PICK d, doc : d \in Dids /\ d = Did(x) /\ doc = First(d)
  BY DidType
<1>2. Did(d) = d /\ Agreement(doc, d) = doc.agree
  BY <1>1, KidsAssumption DEF Did, Agreement, Only
<1>3. ToSet(Agreement(doc, x)) \subseteq ToSet(doc.agree)
  BY <1>1, AgreementType
<1>4. \A k \in ToSet(l.kids) :
        /\ k \in ToSet(Agreement(doc, x))
        /\ k \in DOMAIN doc.key /\ k \in DOMAIN l.key
        /\ l.key[k] = doc.key[k]
  BY <1>1 DEF MadeFor
<1> QED BY <1>1, <1>2, <1>3, <1>4 DEF MadeFor

\* Whoever owns the keys that a layer was made for is the one it was made for.
LEMMA OwnIsAddressee ==
  ASSUME PrivateKeys, ViewOK, Steady, at \in Dids, NEW x \in Dids \cup Kids, Own(x),
         NEW l, MadeFor(l, x), l.kids \in Seq(Kids), l.kids # <<>>
  PROVE  at = Did(x) /\ MadeFor(l, at)
<1>1. PICK d, doc : d \in Dids /\ d = Did(x) /\ doc = First(d)
  BY DidType
<1>2. IsDocument(doc) /\ doc # NoDoc /\ Doc(at, d) = doc
  BY <1>1, FirstDocuments
<1>3. \E k \in ToSet(doc.agree) : k \in DOMAIN Wallet[at]
  <2>1. CASE x \in Kids
    <3>1. x \in DOMAIN Wallet[at]
      BY <2>1 DEF Own
    <3>2. ToSet(l.kids) # {}
      BY ToSetFacts
    <3>3. PICK k : k \in ToSet(Agreement(doc, x))
      BY <1>1, <3>2 DEF MadeFor
    <3>4. {x} \in SUBSET Kids /\ doc.agree \in Seq(Kids)
      BY <1>2, <2>1 DEF IsDocument
    <3>5. ToSet(Keep(doc.agree, {x})) = ToSet(doc.agree) \cap {x}
      BY <3>4, KeepType
    <3>6. Agreement(doc, x) = Keep(doc.agree, {x})
      BY <2>1 DEF Agreement, Only
    <3> QED BY <3>1, <3>3, <3>5, <3>6
  <2>2. CASE x \notin Kids
    <3>1. d = x /\ Held(at, doc.agree) # <<>>
      BY <1>1, <1>2, <2>2 DEF Own, Did
    <3>2. PICK s \in Seq(Kids) : s = Held(at, doc.agree) /\ ToSet(s) = ToSet(doc.agree) \cap DOMAIN Wallet[at]
      BY <1>2, HeldType DEF IsDocument
    <3>3. ToSet(s) # {}
      BY <3>1, <3>2, ToSetFacts
    <3> QED BY <3>2, <3>3
  <2> QED BY <2>1, <2>2
<1>4. 1 \in 1..Len(Versions[d]) /\ Versions[d][1] = doc
  BY <1>1 DEF ViewOK, Steady, First
<1>5. at = d
  BY <1>1, <1>2, <1>3, <1>4 DEF PrivateKeys
<1> QED BY <1>1, <1>2, <1>5, MadeForDid

\* RouteBegins says nothing that a step of unpack could change.
LEMMA RouteBeginsKept ==
  ASSUME choice' = choice, claim' = claim
  PROVE  RouteBegins' = RouteBegins
<1>1. Announced' = Announced
  BY WayKept
<1> QED BY <1>1 DEF RouteBegins, Me

LEMMA AddressInvStep ==
  ASSUME choice' = choice, claim' = claim,
         phase' # "sender", RouteBegins /\ IsJwe(layers'[1]) => MadeFor(layers'[1], at')
  PROVE  AddressInv'
<1>1. RouteBegins' = RouteBegins
  BY RouteBeginsKept
<1> QED BY <1>1 DEF AddressInv, Top, IsJwe, MadeFor

LEMMA AddressInvPack ==
  ASSUME EnvInv, ShapeInv, SoundInv, WayInv, Steady, PackSome
  PROVE  AddressInv'
<1>1. PackInv /\ Pack /\ phase' = "sender" /\ ViewOK
  BY ShapeInvPack DEF EnvInv, PackSome, PackInv
<1>2. SUFFICES ASSUME stage' = "packed"
               PROVE  /\ choice' = choice /\ IsJwe(layers'[1])
                      /\ MadeFor(layers'[1], IF claim'.endpoint = None THEN choice.to ELSE Announced[1])
  <2>1. choice' = choice
    BY <1>1 DEF Pack, PackPrior, PackBody, Encrypt, ChooseRoute, WrapLayer, PackError, Fail
  <2>2. Announced' = Announced
    BY <2>1, WayKept
  <2> QED BY <1>1, <1>2, <2>1, <2>2 DEF AddressInv, Top, IsJwe, MadeFor
<1>3. ChooseRoute \/ WrapLayer
  BY <1>1, <1>2 DEF Pack, PackPrior, PackBody, Encrypt, PackError, Fail
<1>4. CASE ChooseRoute
  <2>1. stage = "route" /\ choice' = choice /\ claim' = claim /\ layers' = layers
    BY <1>2, <1>4 DEF ChooseRoute
  <2>2. claim.endpoint = None /\ IsJwe(Top) /\ MadeFor(Top, choice.to)
    BY <2>1 DEF WayInv, SoundInv
  <2> QED BY <2>1, <2>2 DEF Top
<1>5. CASE WrapLayer
  <2>1. /\ stage = "wrap" /\ choice' = choice /\ claim' = claim /\ Len(route.keys) = 1
        /\ route.keys # <<>>
    BY <1>2, <1>5 DEF WrapLayer
  <2>2. claim.endpoint # None /\ Wrapped(route, layers)
    BY <2>1 DEF WayInv
  <2>3. Last(route.keys) = Announced[1]
    <3>1. route.keys[1] = Announced[1]
      BY <2>1, <2>2 DEF Wrapped
    <3> QED BY <2>1, <3>1 DEF Last
  <2>4. Sound(layers) /\ IsJwe(Top) /\ MadeFor(Top, route.next)
    BY <2>1 DEF SoundInv
  <2>5. IsJwe(layers'[1]) /\ MadeFor(layers'[1], Last(route.keys))
    BY <1>5, <2>4, SoundWrap
  <2> QED BY <2>1, <2>2, <2>3, <2>5
<1> QED BY <1>3, <1>4, <1>5

LEMMA AddressInvSend ==
  ASSUME EnvInv, SoundInv, WayInv, AddressInv, Steady, Send
  PROVE  AddressInv'
<1>1. /\ phase = "sender" /\ stage = "packed" /\ phase' = "inbox" /\ choice' = choice
      /\ claim' = claim /\ layers' = layers /\ PackInv /\ ViewOK /\ choice.to \in Dids \cup Kids
  BY MeType DEF Send, packVars, EnvInv, PackInv
<1>2. MadeFor(Top, IF claim.endpoint = None THEN choice.to ELSE Announced[1])
  BY <1>1 DEF AddressInv
<1>3. ASSUME RouteBegins PROVE MadeFor(Top, at')
  <2>1. CASE claim.endpoint = None
    <3>1. at' = Did(choice.to) /\ MadeFor(Top, choice.to)
      BY <1>2, <2>1 DEF Send
    <3>2. IsDocument(First(Did(choice.to)))
      BY <1>1, DidType, FirstDocuments
    <3> QED BY <1>1, <3>1, <3>2, MadeForDid
  <2>2. CASE claim.endpoint # None
    <3>1. at' = Did(Announced[1]) /\ MadeFor(Top, Announced[1])
      BY <1>2, <1>3, <2>2 DEF Send, RouteBegins
    <3>2. Announced[1] \in Dids \cup Kids
      <4>1. PICK s \in Seq(Dids \cup Kids) : s = Announced /\ s # <<>>
        BY <2>2 DEF WayInv
      <4>2. s[1] \in Dids \cup Kids
        BY <4>1
      <4> QED BY <4>1, <4>2
    <3>3. IsDocument(First(Did(Announced[1])))
      BY <1>1, <3>2, DidType, FirstDocuments
    <3> QED BY <3>1, <3>2, <3>3, MadeForDid
  <2> QED BY <2>1, <2>2
<1> QED BY <1>1, <1>3, AddressInvStep DEF Top

LEMMA AddressInvUnpack ==
  ASSUME PrivateKeys, EnvInv, SoundInv, AddressInv, Steady, Unpack
  PROVE  AddressInv'
<1>1. /\ choice' = choice /\ claim' = claim /\ phase # "sender" /\ phase' # "sender"
      /\ PackInv /\ ViewOK /\ Stack(Me, layers) /\ Sound(layers)
  BY DEF Unpack, Open, UnpackAnoncrypt, UnpackAuthcrypt, UnpackSign, UnpackPlaintext,
     Relay, RelayAtMediator, ForwardForClient, Refuse, packVars, EnvInv, PackInv, SoundInv
<1>2. SUFFICES ASSUME RouteBegins, IsJwe(layers'[1])
               PROVE  MadeFor(layers'[1], at')
  BY <1>1, AddressInvStep
<1>3. IsJwe(Top) => MadeFor(Top, at)
  BY <1>1, <1>2 DEF AddressInv
<1>4. CASE layers' = layers /\ at' = at
  BY <1>2, <1>3, <1>4 DEF Top
<1>5. CASE UnpackAnoncrypt /\ layers' # layers
  <2>1. PICK r : r = Tail(layers)
    OBVIOUS
  <2>2. /\ Top.t = "anon" /\ at' = at /\ at \in Dids
        /\ layers' = r \/ (layers' = Tail(r) /\ ForwardHere(r))
    BY <1>5, <2>1 DEF UnpackAnoncrypt, Refuse, packVars, EnvInv, ReadInv
  <2>3. layers[1].t # "plain" /\ layers[1].t = "anon"
    BY <2>2 DEF Top
  <2>4. Stack(Me, r) /\ Sound(r) /\ Follows(layers[1], r[1])
    BY <1>1, <2>1, <2>3, StackTail, SoundUnder, SoundNext
  <2>5. CASE layers' = r
    <3>1. r[1].t = "auth"
      BY <1>2, <2>3, <2>4, <2>5 DEF Follows, IsJwe
    <3>2. MadeFor(layers[1], at)
      BY <1>3, <2>2 DEF Top, IsJwe
    <3> QED BY <2>2, <2>3, <2>4, <2>5, <3>1, <3>2 DEF Follows
  <2>6. CASE layers' = Tail(r) /\ ForwardHere(r)
    <3>1. r[1].t = "forward" /\ r[1].t # "plain" /\ Own(r[1].next)
      BY <2>6 DEF ForwardHere
    <3>2. PICK l : l = Tail(r)[1]
      OBVIOUS
    <3>3. IsJwe(l) /\ MadeFor(l, r[1].next)
      BY <2>4, <3>1, <3>2, SoundNext DEF Follows
    <3>4. r[1].next \in Dids \cup Kids
      <4>1. IsLayer(r[1])
        BY <2>4, StackTop
      <4> QED BY <3>1, <4>1 DEF IsLayer, IsJwe
    <3>5. l.kids \in Seq(Kids) /\ l.kids # <<>>
      <4>1. Stack(Me, Tail(r))
        BY <2>4, <3>1, StackTail
      <4>2. IsLayer(l)
        BY <3>2, <4>1, StackTop
      <4> QED BY <3>3, <4>2 DEF IsLayer, IsJwe
    <3>6. MadeFor(l, at)
      BY <1>1, <2>2, <3>1, <3>3, <3>4, <3>5, OwnIsAddressee
    <3> QED BY <2>2, <2>6, <3>2, <3>6
  <2> QED BY <2>2, <2>5, <2>6
<1>6. CASE Top.t \in {"auth", "sign"} /\ layers' = Tail(layers)
  <2>1. layers[1].t \in {"auth", "sign"} /\ layers[1].t # "plain"
    BY <1>6 DEF Top
  <2>2. Follows(layers[1], Tail(layers)[1])
    BY <1>1, <2>1, SoundNext
  <2>3. ~IsJwe(Tail(layers)[1])
    BY <2>1, <2>2 DEF Follows, IsJwe
  <2> QED BY <1>2, <1>6, <2>3
<1>7. CASE RelayAtMediator
  <2>1. /\ layers[1].t = "forward" /\ layers[1].t # "plain" /\ at' = layers[1].next
        /\ layers' = Tail(layers)
    BY <1>7 DEF RelayAtMediator, Top
  <2>2. Follows(layers[1], Tail(layers)[1])
    BY <1>1, <2>1, SoundNext
  <2> QED BY <2>1, <2>2 DEF Follows
<1>8. CASE Open \/ UnpackPlaintext \/ ForwardForClient
  BY <1>4, <1>8 DEF Open, UnpackPlaintext, ForwardForClient, Refuse, packVars
<1>9. CASE UnpackAnoncrypt
  <2>1. at' = at
    BY <1>9 DEF UnpackAnoncrypt, Refuse
  <2> QED BY <1>4, <1>5, <1>9, <2>1
<1>10. CASE UnpackAuthcrypt \/ UnpackSign
  BY <1>4, <1>6, <1>10 DEF UnpackAuthcrypt, UnpackSign, Refuse, packVars
<1> QED BY <1>7, <1>8, <1>9, <1>10 DEF Unpack, Relay

LEMMA AddressInvNext ==
  ASSUME PrivateKeys, EnvInv, ShapeInv, SoundInv, WayInv, AddressInv, [EnvelopeNext]_envelopeVars
  PROVE  AddressInv'
<1>1. SUFFICES ASSUME Steady' PROVE AddressInv'
  BY DEF AddressInv
<1>2. Steady
  BY <1>1, OnceSteady
<1>3. CASE UNCHANGED <<packVars, unpackVars>>
  <2>1. /\ choice' = choice /\ stage' = stage /\ layers' = layers
        /\ claim' = claim /\ phase' = phase /\ at' = at
    BY <1>3 DEF packVars, unpackVars
  <2>2. Announced' = Announced /\ RouteBegins' = RouteBegins
    BY <2>1, WayKept, RouteBeginsKept
  <2> QED BY <1>2, <2>1, <2>2 DEF AddressInv, Top, IsJwe, MadeFor
<1>4. CASE LearnSome
  BY <1>3, <1>4 DEF LearnSome
<1>5. CASE UNCHANGED envelopeVars
  BY <1>3, <1>5 DEF envelopeVars
<1> QED BY <1>2, <1>3, <1>4, <1>5, AddressInvPack, AddressInvSend, AddressInvUnpack
        DEF EnvelopeNext

LEMMA SoundInvInit ==
  EnvelopeInit => SoundInv /\ RefusalInv /\ AddressInv
<1>1. SUFFICES ASSUME EnvelopeInit PROVE SoundInv /\ RefusalInv /\ AddressInv
  OBVIOUS
<1>2. PICK l : l = PlainLayer(None)
  OBVIOUS
<1>3. Fresh(l)
  BY <1>2 DEF Fresh, PlainLayer, IsJwe
<1>4. DOMAIN <<l>> = {1} /\ <<l>>[1] = l /\ 1 + 1 # 1
  OBVIOUS
<1>5. \A i \in DOMAIN <<l>> : Fresh(<<l>>[i]) /\ i + 1 \notin DOMAIN <<l>>
  BY <1>3, <1>4
<1>6. Sound(<<l>>)
  BY <1>5 DEF Sound
<1>7. stage = "prior" /\ phase = "sender" /\ layers = <<l>>
  BY <1>1, <1>2 DEF EnvelopeInit, PackInit
<1> QED BY <1>6, <1>7 DEF SoundInv, RefusalInv, AddressInv

\* Message::unpack refuses no message that was packed for these documents, at any
\* stop of its way and in whatever layers, but for two reasons: the limit of
\* operations, or an outermost layer for keys of the reader's own document of
\* which the reader has lost every secret.  Neither the sender's key, nor a signature,
\* nor a from_prior header, nor a recipient key that does not fit is ever the reason.
THEOREM RefusedOnlyWithoutKeys ==
  ASSUME PrivateKeys, SecretsFit
  PROVE  EnvelopeSpec => []RefusedForAReason
<1>1. EnvInv /\ RefusalInv /\ AddressInv => RefusedForAReason
  <2>1. SUFFICES ASSUME EnvInv, RefusalInv, AddressInv,
                        phase = "refused", Steady, ops < OpsLimit, RouteBegins
                 PROVE  /\ IsJwe(Top) /\ Held(at, Top.kids) = <<>>
                        /\ ToSet(Top.kids) \subseteq ToSet(Doc(at, at).agree)
    BY DEF RefusedForAReason
  <2>2. IsJwe(Top) /\ Held(at, Top.kids) = <<>>
    BY <2>1 DEF RefusalInv
  <2>3. MadeFor(Top, at)
    BY <2>1, <2>2 DEF AddressInv
  <2>4. at \in Dids /\ ViewOK
    BY <2>1 DEF EnvInv, ReadInv, PackInv
  <2>5. PICK doc : doc = First(at) /\ Doc(at, at) = doc /\ IsDocument(doc)
    BY <2>1, <2>4, FirstDocuments
  <2>6. Did(at) = at
    BY <2>4, KidsAssumption DEF Did
  <2>7. ToSet(Agreement(doc, at)) \subseteq ToSet(doc.agree)
    BY <2>5, AgreementType
  <2>8. ToSet(Top.kids) \subseteq ToSet(Agreement(doc, at))
    BY <2>3, <2>5, <2>6 DEF MadeFor
  <2> QED BY <2>2, <2>5, <2>7, <2>8
<1>2. EnvelopeInit => (SoundInv /\ RefusalInv /\ AddressInv) /\ WayInv
  BY SoundInvInit, WayInvInit
<1>3. (EnvInv /\ ShapeInv) /\ (SoundInv /\ RefusalInv /\ AddressInv) /\ WayInv
        /\ [EnvelopeNext]_envelopeVars => (SoundInv /\ RefusalInv /\ AddressInv)' /\ WayInv'
  <2>1. SUFFICES ASSUME EnvInv, ShapeInv, SoundInv, RefusalInv, AddressInv, WayInv,
                        [EnvelopeNext]_envelopeVars
                 PROVE  SoundInv' /\ RefusalInv' /\ AddressInv' /\ WayInv'
    OBVIOUS
  <2> QED BY <2>1, SoundInvNext, AddressInvNext, WayInvNext
<1> QED BY <1>1, <1>2, <1>3, EnvInvHolds, MetaInvHolds, PTL DEF EnvelopeSpec
=============================================================================
