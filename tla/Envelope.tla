------------------------------ MODULE Envelope ------------------------------
(***************************************************************************)
(* The way of one message: the sender packs it (module Packing), it lies   *)
(* in the inbox of the next agent, that agent unpacks it, and a mediator   *)
(* that finds a forward message puts the rest into the inbox of `next`.    *)
(*                                                                         *)
(* Unpacking has one action per _try_unpack_* of Message::unpack; anoncrypt*)
(* is the loop that also takes off forwards addressed to the reader.       *)
(***************************************************************************)
EXTENDS Packing

CONSTANTS
  OpsLimit,   \* crypto_operations_limit_per_message
  Watch       \* the pairs <<agent, DID>> whose cache entry may change: a bound

ASSUME LimitAssumption == OpsLimit \in Nat

VARIABLES
  phase,    \* of the message: "sender", "inbox", the steps of unpacking, an outcome
  at,       \* whose inbox it is in, and who unpacks it
  env,      \* MetaEnvelope: the sender's key, the reader's keys for this layer
  got,      \* UnpackMetadata
  ops,      \* crypto_operations_count
  trail     \* history: what the forwards of the way were addressed to

unpackVars == <<phase, at, env, got, ops, trail>>
envelopeVars == <<view, packVars, unpackVars>>

NoEnv == [from |-> None, key |-> None, found |-> <<>>]
NoMeta == [encrypted |-> FALSE, authenticated |-> FALSE, anonymous |-> FALSE,
           rewrapped |-> FALSE, from |-> None, kids |-> <<>>, signer |-> None,
           prior |-> None]

EnvelopeInit ==
  /\ PackInit
  /\ phase = "sender"
  /\ at = None
  /\ env = NoEnv
  /\ got = NoMeta
  /\ ops = 0
  /\ trail = <<>>

(***************************************************************************)
(* A client posts to the service endpoint that the packing names, or else  *)
(* hands the message over.  The mediator stores what it packs itself, its  *)
(* replies, in the inbox of the addressee.                                 *)
(***************************************************************************)
Send ==
  /\ stage = "packed"
  /\ phase = "sender"
  /\ phase' = "inbox"
  /\ at' = IF claim.endpoint = None \/ Me \in Mediators
           THEN Did(choice.to) ELSE OwnerOf[claim.endpoint]
  /\ UNCHANGED <<view, packVars, env, got, ops, trail>>

Refuse ==
  /\ phase' = "refused"
  /\ UNCHANGED <<view, packVars, at, env, got, trail>>

-----------------------------------------------------------------------------
(* MetaEnvelope::new *)

Top == layers[1]

\* fill_envelope_from: the sender's document must still have the key.
SenderKnown(layer) ==
  layer.t = "auth" =>
    /\ Resolves(at, Did(layer.skid))
    /\ LET doc == Doc(at, Did(layer.skid))
       IN  /\ Contains(doc.agree, layer.skid)
           /\ HasMethod(doc, layer.skid)
           /\ Alg(doc, layer.skid) # "unsupported"

CanFill(layer) == SenderKnown(layer) /\ Held(at, layer.kids) # <<>>

FilledByDid(layer) ==
  [from |-> IF layer.t = "auth" THEN Did(layer.skid) ELSE env.from,
   key |-> IF layer.t = "auth" THEN Doc(at, Did(layer.skid)).key[layer.skid] ELSE env.key,
   found |-> Held(at, layer.kids)]
Filled(layer) ==
  [from |-> IF layer.t = "auth" THEN layer.skid ELSE env.from,
   key |-> IF layer.t = "auth" THEN Doc(at, Did(layer.skid)).key[layer.skid] ELSE env.key,
   found |-> Held(at, layer.kids)]

FilledMetaNoKids(layer, meta) ==
  IF layer.t = "auth"
  THEN [meta EXCEPT !.authenticated = TRUE, !.encrypted = TRUE, !.from = layer.skid]
  ELSE [meta EXCEPT !.anonymous = TRUE, !.kids = layer.kids]
FilledMeta(layer, meta) ==
  IF layer.t = "auth"
  THEN [meta EXCEPT !.authenticated = TRUE, !.encrypted = TRUE,
                    !.from = layer.skid, !.kids = layer.kids]
  ELSE [meta EXCEPT !.anonymous = TRUE, !.kids = layer.kids]

Open ==
  /\ phase = "inbox"
  /\ at \in Dids
  /\ \/ /\ IsJwe(Top) => CanFill(Top)
        /\ phase' = "anoncrypt"
        /\ IF IsJwe(Top)
             THEN env' = Filled(Top) /\ got' = FilledMeta(Top, got)
             ELSE UNCHANGED <<env, got>>
        /\ UNCHANGED <<view, packVars, at, ops, trail>>
     \/ /\ IsJwe(Top) /\ ~CanFill(Top)
        /\ Refuse
        /\ UNCHANGED ops

-----------------------------------------------------------------------------
(* Message::unpack *)

\* The options of the reader; a mediator has the default ones.
ExpectAll == choice.expectAll /\ at \notin Mediators
Unwrap == choice.unwrap \/ at \in Mediators

\* The keys that a JWE is opened with: the first one found, or all of them.
Tried(found) == IF ExpectAll THEN found ELSE SubSeq(found, 1, 1)
AllDecrypt(found) == \A i \in DOMAIN Tried(found) : Decrypts(at, Tried(found)[i], Top)

\* has_key_agreement_secret
Own(next) ==
  IF next \in Kids THEN next \in DOMAIN Wallet[at]
  ELSE Held(at, Doc(at, next).agree) # <<>>

ForwardHere(rest) ==
  Unwrap /\ rest[1].t = "forward" /\ Own(rest[1].next)

Anoncrypted(meta) ==
  [meta EXCEPT !.kids = Top.kids, !.encrypted = TRUE, !.anonymous = TRUE]

CanUnpackAnoncrypt ==
  /\ Held(at, Top.kids) # <<>>
  /\ AllDecrypt(Held(at, Top.kids))
  /\ LET inner == layers[2]
     IN  (Unwrap /\ inner.t = "forward" /\ inner.next \in Dids) =>
           Resolves(at, inner.next)

\* One pass of the loop.
UnpackAnoncrypt ==
  /\ phase = "anoncrypt"
  /\ ops' = ops + 1
  /\ \/ /\ ops' >= OpsLimit \/ (Top.t = "anon" /\ ~CanUnpackAnoncrypt)
        /\ Refuse
     \/ /\ ops' < OpsLimit
        /\ Top.t = "anon"
        /\ CanUnpackAnoncrypt
        /\ LET rest == Tail(layers)
           IN  IF ForwardHere(rest)
               THEN /\ layers' = Tail(rest)
                    /\ got' = [Anoncrypted(got) EXCEPT !.rewrapped = TRUE]
                    /\ trail' = Append(trail, rest[1].next)
                    /\ UNCHANGED phase
               ELSE /\ layers' = rest
                    /\ got' = Anoncrypted(got)
                    /\ phase' = "authcrypt"
                    /\ UNCHANGED trail
        /\ UNCHANGED <<view, choice, stage, claim, route, at, env>>
     \/ /\ ops' < OpsLimit
        /\ Top.t # "anon"
        /\ phase' = "authcrypt"
        /\ UNCHANGED <<view, packVars, at, env, got, trail>>

\* The envelope is filled again when its sender was inside another layer.
RefilledNever == env
Refilled == IF env.from = None THEN Filled(Top) ELSE env

\* ECDH-1PU: the key that the reader resolved for the sender is the one used.
FromAnySender(e) == TRUE
FromSender(e) == e.key = Top.skey

UnpackAuthcrypt ==
  /\ phase = "authcrypt"
  /\ \/ /\ Top.t # "auth"
        /\ phase' = "sign"
        /\ UNCHANGED <<view, packVars, at, env, got, ops, trail>>
     \/ LET known == env.from # None \/ CanFill(Top)
            keys == IF known THEN Tried(Refilled.found) ELSE <<>>
            ok == /\ known
                  /\ ops + Len(keys) < OpsLimit
                  /\ AllDecrypt(Refilled.found)
                  /\ FromSender(Refilled)
        IN  /\ Top.t = "auth"
            /\ ops' = ops + Len(keys)
            /\ \/ ~ok /\ Refuse
               \/ /\ ok
                  /\ env' = Refilled
                  /\ got' = IF env.from = None THEN FilledMeta(Top, got) ELSE got
                  /\ layers' = Tail(layers)
                  /\ phase' = "sign"
                  /\ UNCHANGED <<view, choice, stage, claim, route, at, trail>>

UnpackSign ==
  /\ phase = "sign"
  /\ \/ /\ Top.t # "sign"
        /\ phase' = "plaintext"
        /\ UNCHANGED <<view, packVars, at, env, got, ops, trail>>
     \/ /\ Top.t = "sign"
        /\ Verifies(at, Top.kid, Top.key)
        /\ layers' = Tail(layers)
        /\ got' = [got EXCEPT !.authenticated = TRUE, !.signer = Top.kid]
        /\ phase' = "plaintext"
        /\ UNCHANGED <<view, choice, stage, claim, route, at, env, ops, trail>>
     \/ /\ Top.t = "sign"
        /\ ~Verifies(at, Top.kid, Top.key)
        /\ Refuse
        /\ UNCHANGED ops

UnpackPlaintext ==
  /\ phase = "plaintext"
  /\ Top.t = "plain"
  /\ IF PriorVerifies(at, Top.prior)
       THEN /\ phase' = "opened"
            /\ got' = [got EXCEPT !.prior =
                         IF Top.prior = None THEN None ELSE Top.prior.kid]
       ELSE phase' = "refused" /\ UNCHANGED got
  /\ UNCHANGED <<view, packVars, at, env, ops, trail>>

(***************************************************************************)
(* The plaintext is a forward message.  A mediator stores the attached     *)
(* message for `next`; a client just gets the forward message.             *)
(***************************************************************************)
RelayAtMediator ==
  /\ phase = "plaintext"
  /\ Top.t = "forward"
  /\ at \in Mediators
  /\ phase' = "inbox"
  /\ at' = Top.next
  /\ trail' = Append(trail, Top.next)
  /\ layers' = Tail(layers)
  /\ env' = NoEnv
  /\ got' = NoMeta
  /\ ops' = 0
  /\ UNCHANGED <<view, choice, stage, claim, route>>
ForwardForClient ==
  /\ phase = "plaintext"
  /\ Top.t = "forward"
  /\ at \notin Mediators
  /\ phase' = "forward"
  /\ UNCHANGED <<view, packVars, at, env, got, ops, trail>>
Relay == RelayAtMediator \/ ForwardForClient

Unpack ==
  \/ Open \/ UnpackAnoncrypt \/ UnpackAuthcrypt \/ UnpackSign
  \/ UnpackPlaintext \/ Relay

LearnSome == \E w \in Watch : Learn(w[1], w[2]) /\ UNCHANGED <<packVars, unpackVars>>
PackSome == Pack /\ UNCHANGED unpackVars

EnvelopeNext == PackSome \/ Send \/ Unpack \/ LearnSome

EnvelopeSpec == EnvelopeInit /\ [][EnvelopeNext]_envelopeVars

-----------------------------------------------------------------------------
(* Properties *)

IsLayer(l) ==
  \/ /\ IsJwe(l)
     /\ l.kids \in Seq(Kids) /\ l.kids # <<>>
     /\ l.key \in [ToSet(l.kids) -> Keys]
     /\ l.t = "auth" => l.skid \in Kids /\ l.skey \in Keys
  \/ l.t = "sign" /\ l.kid \in Kids /\ l.key \in Keys
  \/ l.t = "forward" /\ l.next \in Dids \cup Kids
  \/ l.t = "plain" /\ (l.prior = None \/ l.prior.kid \in Kids)

Metadata ==
  [encrypted : BOOLEAN, authenticated : BOOLEAN, anonymous : BOOLEAN,
   rewrapped : BOOLEAN, from : Kids \cup {None}, kids : Seq(Kids),
   signer : Kids \cup {None}, prior : Kids \cup {None}]

\* Each variable holds what the code can put there.
EnvelopeTypeOK ==
  /\ \A a, d \in Dids : view[a][d] \in 1..Len(Versions[d])
  /\ choice \in Requests
  /\ stage \in {"prior", "body", "encrypt", "route", "wrap", "packed", "failed"}
  /\ layers # <<>> /\ \A i \in DOMAIN layers : IsLayer(layers[i])
  /\ claim \in [from : Kids \cup {None}, signer : Kids \cup {None}, kids : Seq(Kids),
                endpoint : Uris \cup {None}]
  /\ route \in [keys : Seq(Dids \cup Kids), next : Dids \cup Kids \cup {None}]
  /\ phase \in {"sender", "inbox", "anoncrypt", "authcrypt", "sign", "plaintext",
                "opened", "refused", "forward"}
  /\ at \in Dids \cup Kids \cup {None}
  /\ env \in [from : Kids \cup {None}, key : Keys \cup {None}, found : Seq(Kids)]
  /\ got \in Metadata
  /\ ops \in Nat
  /\ trail \in Seq(Dids \cup Kids)

(***************************************************************************)
(* What unpack reports of an opened message is what pack reported of it:   *)
(* the same sender key, signer and recipient keys, however many layers the *)
(* route and protect_sender have put around, and anonymous_sender only     *)
(* when some layer hid the sender's key id.                                *)
(***************************************************************************)
MetadataAgrees ==
  phase = "opened" =>
    /\ got.encrypted
    /\ got.from = claim.from
    /\ got.kids = claim.kids
    /\ got.signer = claim.signer
    /\ got.authenticated <=> {claim.from, claim.signer} # {None}
    /\ got.anonymous <=> choice.from = None \/ choice.protect \/ got.rewrapped

(***************************************************************************)
(* The keys that an opened message is attributed to were in the wallet of  *)
(* the agent that packed it, and the reader resolved the same key.         *)
(***************************************************************************)
SenderIsProven ==
  phase = "opened" =>
    /\ \A k \in {got.from, got.signer, got.prior} \ {None} : k \in DOMAIN Wallet[Me]
    /\ got.from # None => env.key = Wallet[Me][got.from]

\* Nobody has a secret for a key of somebody else's document.
PrivateKeys ==
  \A a, d \in Dids : a # d =>
    \A v \in 1..Len(Versions[d]) : Versions[d][v] # NoDoc =>
      ToSet(Versions[d][v].agree) \cap DOMAIN Wallet[a] = {}

\* What lies in the inbox of anybody else is still encrypted for the keys of
\* the addressee.
StaysSealed ==
  phase # "sender" /\ at # Did(choice.to) =>
    \E i \in DOMAIN layers : IsJwe(layers[i]) /\ layers[i].kids = claim.kids

(***************************************************************************)
(* The way that the document of the addressee announces: the mediator that *)
(* its endpoint names, then the owners of its routing keys.                *)
(***************************************************************************)
First(d) == Versions[d][1]
Offers(s) == s.v2 /\ choice.service \in {None, s.id}
Announced ==
  LET all == First(Did(choice.to)).services
      first == CHOOSE i \in DOMAIN all :
                 Offers(all[i]) /\ \A j \in 1..(i - 1) : ~Offers(all[j])
  IN  (IF all[first].uri \in Dids THEN <<all[first].uri>> ELSE <<>>) \o all[first].routing

(***************************************************************************)
(* A message that was packed can be unpacked: while the documents stay as  *)
(* they were, and the route begins where their endpoint leads, it reaches  *)
(* the agent that its outermost layer is for, and that agent turns it away *)
(* only if it has lost every key the layer was made for, or at the limit   *)
(* of operations.                                                          *)
(***************************************************************************)
Steady == \A a, d \in Dids : view[a][d] = 1
RouteBegins ==
  claim.endpoint # None => Me \notin Mediators /\ Did(Announced[1]) = OwnerOf[claim.endpoint]
\* A secret is for the key that the document listing its id had at first.
SecretsFit ==
  \A a, d \in Dids : \A k \in DOMAIN Wallet[a] :
    k \in ToSet(First(d).agree) \cup ToSet(First(d).auth) =>
      /\ DidOf[k] = d
      /\ HasMethod(First(d), k)
      /\ Wallet[a][k] = PublicKey(First(d), k)
RefusedForAReason ==
  phase = "refused" /\ Steady /\ ops < OpsLimit /\ RouteBegins =>
    /\ IsJwe(Top) /\ Held(at, Top.kids) = <<>>
    /\ ToSet(Top.kids) \subseteq ToSet(Doc(at, at).agree)

(***************************************************************************)
(* The message takes the way that was announced: each stop but the first   *)
(* is what one forward was addressed to, and the addressee is the last.    *)
(***************************************************************************)
Way == Tail(Announced) \o <<choice.to>>
RouteTaken == phase = "opened" /\ Steady /\ claim.endpoint # None => trail = Way
=============================================================================
