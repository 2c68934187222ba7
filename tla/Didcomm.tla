------------------------------- MODULE Didcomm -------------------------------
(***************************************************************************)
(* Keys, DID documents and the layers of a packed DIDComm message.         *)
(*                                                                         *)
(* A packed message is the sequence of its layers, outermost first: an     *)
(* anoncrypt or authcrypt JWE, a signature, a forward message around the   *)
(* rest, and the plaintext as the last one.  Cryptography is ideal: a JWE  *)
(* opens with the secret of a key it was made for, a signature verifies    *)
(* with the public half of the key that made it.                           *)
(*                                                                         *)
(* Documents change while messages are on their way: Versions[d] are the   *)
(* documents d publishes one after the other, view[a][d] the one that the  *)
(* resolver cache of agent a answers with.                                 *)
(***************************************************************************)
EXTENDS Integers, Sequences, FiniteSets, SequencesExt

CONSTANTS
  Dids,          \* every agent has one
  Kids,          \* DID URLs of keys
  DidOf,         \* [Kids -> Dids]
  Keys,          \* key material
  AlgOf,         \* [Keys -> Algs]
  Versions,      \* [Dids -> sequences of documents]
  NoDoc,         \* a version that does not resolve
  Wallet,        \* [Dids -> functions from some Kids to Keys]: the secrets
  ToKidsLimit,   \* PackEncryptedOptions.to_kids_limit
  None

\* KnownKeyAlg; a verification method that gives no JWK counts as unsupported.
ExchangeAlgs == {"X25519", "P256", "K256"}
SignAlgs == {"Ed25519", "P256", "K256"}
Algs == ExchangeAlgs \cup SignAlgs \cup {"unsupported"}

ASSUME KidsAssumption ==
  /\ DidOf \in [Kids -> Dids]
  /\ Kids \cap Dids = {}
  /\ AlgOf \in [Keys -> Algs]
  /\ \A d \in Dids : DOMAIN Wallet[d] \subseteq Kids
  /\ None \notin Dids \cup Kids

\* A document lists key ids and has the public keys of some of them.
IsDocument(doc) ==
  /\ doc.agree \in Seq(Kids) /\ doc.auth \in Seq(Kids)
  /\ DOMAIN doc.key \subseteq Kids /\ doc.key \in [DOMAIN doc.key -> Keys]

ASSUME DocumentsAssumption ==
  \A d \in Dids :
    /\ Len(Versions[d]) \in Nat
    /\ \A v \in 1..Len(Versions[d]) : Versions[d][v] # NoDoc => IsDocument(Versions[d][v])
    /\ Wallet[d] \in [DOMAIN Wallet[d] -> Keys]
\* The first document of an agent is about the keys that the agent has.
ASSUME VersionsAssumption ==
  \A d \in Dids :
    /\ Versions[d] # <<>> /\ Versions[d][1] # NoDoc
    /\ \A k \in DOMAIN Wallet[d] \cap DOMAIN Versions[d][1].key :
         Wallet[d][k] = Versions[d][1].key[k]

VARIABLE view   \* the resolver cache of each agent

\* did_or_url: the DID of a DID or of a key id.
Did(x) == IF x \in Kids THEN DidOf[x] ELSE x

\* DIDCacheClient::resolve.
Doc(a, d) == Versions[d][view[a][d]]
Resolves(a, d) == Doc(a, d) # NoDoc

\* A newer version of a document reaches the cache of an agent.
Learn(a, d) ==
  /\ view[a][d] < Len(Versions[d])
  /\ view' = [view EXCEPT ![a][d] = @ + 1]

\* The key ids of s that are in S, in the order of s.  Filter is a function, so
\* that s and S are evaluated once.
Filter[p \in Seq(Kids) \X SUBSET Kids] ==
  LET upTo[n \in 0..Len(p[1])] ==
        IF n = 0 THEN <<>>
        ELSE IF p[1][n] \in p[2] THEN Append(upTo[n - 1], p[1][n]) ELSE upTo[n - 1]
  IN  upTo[Len(p[1])]
Keep(s, S) == Filter[<<s, S>>]

Only(kids, x) == IF x \in Kids THEN Keep(kids, {x}) ELSE kids

\* find_key_agreement: all the keys of the document, or the one asked for.
Agreement(doc, x) == Only(doc.agree, x)
Authentication(doc, x) == Only(doc.auth, x)

\* SecretsResolver::find_secrets keeps the order it is asked in.
Held(a, kids) == Keep(kids, DOMAIN Wallet[a])

\* SecretsResolver::get_secret, as the key pair it stands for.
Secret(a, kid) == Wallet[a][kid]
SecretAlg(a, kid) == AlgOf[Secret(a, kid)]

\* The verification method of a key id, its key pair and its key_alg.
HasMethod(doc, kid) == kid \in DOMAIN doc.key
PublicKey(doc, kid) == doc.key[kid]
Alg(doc, kid) == AlgOf[PublicKey(doc, kid)]
ByAlg(doc) == [alg \in Algs |-> {k \in DOMAIN doc.key : Alg(doc, k) = alg}]
WithAlg(doc, kids, alg) == Keep(kids, ByAlg(doc)[alg])

(***************************************************************************)
(* Layers.  A JWE names the keys it is for in `kids` and was made for the  *)
(* key material `key`; authcrypt adds the sender's key id and key.         *)
(***************************************************************************)
EncryptedKeys(doc, kids) == [k \in ToSet(kids) |-> PublicKey(doc, k)]
AnonLayer(doc, kids) ==
  [t |-> "anon", kids |-> kids, key |-> EncryptedKeys(doc, kids)]
AuthLayer(doc, kids, skid, skey) ==
  [t |-> "auth", kids |-> kids, key |-> EncryptedKeys(doc, kids), skid |-> skid, skey |-> skey]
SignLayer(kid, key) == [t |-> "sign", kid |-> kid, key |-> key]
ForwardLayer(next) == [t |-> "forward", next |-> next]
PlainLayer(prior) == [t |-> "plain", prior |-> prior]

IsJwe(layer) == layer.t \in {"anon", "auth"}

\* ParsedJWE::decrypt for one recipient key.
Decrypts(a, kid, layer) == kid \in DOMAIN layer.key /\ layer.key[kid] = Secret(a, kid)

\* The recipients of a packing: resolved, some, few enough, all with a method.
Addressable(a, x) ==
  /\ Resolves(a, Did(x))
  /\ LET doc == Doc(a, Did(x))
         kids == Agreement(doc, x)
     IN  /\ kids # <<>>
         /\ Len(kids) <= ToKidsLimit
         /\ \A i \in DOMAIN kids : HasMethod(doc, kids[i])

-----------------------------------------------------------------------------
(* anoncrypt *)

\* The algorithm of the first key that has a supported one rules.
Supported(doc, kids) ==
  Keep(kids, {k \in DOMAIN doc.key : Alg(doc, k) # "unsupported"})
AnonAlg(doc, kids) == Alg(doc, Head(Supported(doc, kids)))

CanAnoncrypt(a, x) ==
  /\ Addressable(a, x)
  /\ LET doc == Doc(a, Did(x))
         kids == Agreement(doc, x)
     IN  Supported(doc, kids) # <<>> /\ AnonAlg(doc, kids) \in ExchangeAlgs

AnonKids(a, x) ==
  LET doc == Doc(a, Did(x))
      kids == Agreement(doc, x)
  IN  WithAlg(doc, kids, AnonAlg(doc, kids))

Anoncrypt(a, x) == AnonLayer(Doc(a, Did(x)), AnonKids(a, x))

-----------------------------------------------------------------------------
(* authcrypt *)

\* The sender's keys that are in the wallet and share an algorithm with a key
\* of the recipient.
Common(a, from, to) ==
  LET fdoc == Doc(a, Did(from))
      tdoc == Doc(a, Did(to))
  IN  Keep(Supported(fdoc, Held(a, Agreement(fdoc, from))),
           {k \in DOMAIN fdoc.key :
              \E l \in ToSet(Agreement(tdoc, to)) : Alg(tdoc, l) = Alg(fdoc, k)})

FromKid(a, from, to) == Head(Common(a, from, to))

CanAuthcrypt(a, from, to) ==
  /\ Resolves(a, Did(from))
  /\ Addressable(a, to)
  /\ LET fdoc == Doc(a, Did(from))
         held == Held(a, Agreement(fdoc, from))
     IN  /\ \A i \in DOMAIN held : HasMethod(fdoc, held[i])
         /\ Common(a, from, to) # <<>>
         /\ LET alg == Alg(fdoc, FromKid(a, from, to))
            IN  alg \in ExchangeAlgs /\ SecretAlg(a, FromKid(a, from, to)) = alg

AuthKids(a, from, to) ==
  LET tdoc == Doc(a, Did(to))
  IN  WithAlg(tdoc, Agreement(tdoc, to), Alg(Doc(a, Did(from)), FromKid(a, from, to)))

Authcrypt(a, from, to) ==
  LET kid == FromKid(a, from, to)
  IN  AuthLayer(Doc(a, Did(to)), AuthKids(a, from, to), kid, Secret(a, kid))

-----------------------------------------------------------------------------
(* Signatures *)

\* The key that pack_signed and FromPrior::pack sign with.
Signers(a, x) == Held(a, Authentication(Doc(a, Did(x)), x))
CanSign(a, x) ==
  /\ Resolves(a, Did(x))
  /\ Signers(a, x) # <<>>
  /\ SecretAlg(a, Head(Signers(a, x))) \in SignAlgs

\* ParsedJWS::verify: the signature was made with the key of the key id.
SignedWith(doc, kid, key) == PublicKey(doc, kid) = key

\* The key is in the document for authentication, and made the signature.
Verifies(a, kid, key) ==
  /\ Resolves(a, Did(kid))
  /\ LET doc == Doc(a, Did(kid))
     IN  /\ Contains(doc.auth, kid)
         /\ HasMethod(doc, kid)
         /\ SignedWith(doc, kid, key)
=============================================================================
