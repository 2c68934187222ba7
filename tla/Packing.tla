------------------------------- MODULE Packing -------------------------------
(***************************************************************************)
(* Message::pack_encrypted for one message, one action per call that waits *)
(* for the DID resolver: the from_prior header, the plaintext with its     *)
(* signature, the encryption, the choice of the route, and one layer of    *)
(* the forward onion per routing key.  The caches of the resolver may      *)
(* change between any two of them.                                         *)
(*                                                                         *)
(* The first of several errors of one step is not told apart: each of them *)
(* ends the packing.                                                       *)
(***************************************************************************)
EXTENDS Didcomm

CONSTANTS
  Mediators,   \* agents that run the mediator, a subset of Dids
  Uris,        \* service endpoints that are no DIDs
  OwnerOf,     \* [Uris -> Dids]: who answers at an endpoint
  UrlsResolved, \* key ids that the resolver takes for the DID they begin with
  Requests      \* what the sender asks for

ASSUME EndpointsAssumption ==
  /\ Mediators \subseteq Dids
  /\ OwnerOf \in [Uris -> Dids]
  /\ None \notin Uris
  /\ UrlsResolved \subseteq Kids
ASSUME ServicesAssumption ==
  \A d \in Dids : \A v \in 1..Len(Versions[d]) : Versions[d][v] # NoDoc =>
    LET services == Versions[d][v].services
    IN  /\ services \in Seq(ToSet(services))
        /\ \A s \in ToSet(services) :
             s.v2 \in BOOLEAN /\ s.uri \in Dids \cup Uris /\ s.routing \in Seq(Dids \cup Kids)
ASSUME RequestsAssumption ==
  \A r \in Requests :
    /\ r.sender \in Dids /\ r.sub \in Dids
    /\ r.to \in Dids \cup Kids
    /\ {r.from, r.signBy, r.prior} \subseteq Dids \cup Kids \cup {None}

VARIABLES
  choice,      \* the arguments, options and headers of this message
  stage,       \* how far the packing is
  layers,      \* the message, outermost layer first
  claim,       \* PackEncryptedMetadata
  route        \* routing keys that are still to be wrapped, and what is next

packVars == <<choice, stage, layers, claim, route>>

NoClaim == [from |-> None, signer |-> None, kids |-> <<>>, endpoint |-> None]

\* Every cache starts with the first version of every document.
PackInit ==
  /\ view = [a \in Dids |-> [d \in Dids |-> 1]]
  /\ choice \in Requests
  /\ stage = "prior"
  /\ layers = <<PlainLayer(None)>>
  /\ claim = NoClaim
  /\ route = [keys |-> <<>>, next |-> None]

Me == choice.sender

Fail ==
  /\ stage' = "failed"
  /\ UNCHANGED <<view, choice, layers, claim, route>>

-----------------------------------------------------------------------------
(* FromPrior::pack, and its check on both sides *)

ValidPrior(iss, sub) == Did(iss) # sub

CanPackPrior ==
  choice.prior # None =>
    /\ ValidPrior(choice.prior, choice.sub)
    /\ CanSign(Me, choice.prior)

\* sign_compact: the claims, the key id, and the key of the signature.
SignCompact(kid) ==
  [iss |-> Did(choice.prior), sub |-> choice.sub, kid |-> kid, key |-> Secret(Me, kid)]

PackPrior ==
  /\ stage = "prior"
  /\ CanPackPrior
  /\ stage' = "body"
  /\ IF choice.prior = None
       THEN UNCHANGED layers
       ELSE layers' = <<PlainLayer(SignCompact(Head(Signers(Me, choice.prior))))>>
  /\ UNCHANGED <<view, choice, claim, route>>

\* FromPrior::unpack
PriorVerifies(a, prior) == prior # None => Verifies(a, prior.kid, prior.key)

-----------------------------------------------------------------------------
(* The body *)

\* _validate_pack_encrypted: the arguments agree with the headers.
ValidHeaders ==
  /\ choice.msgTo # {} => Did(choice.to) \in choice.msgTo
  /\ None \notin {choice.from, choice.msgFrom} => Did(choice.from) = choice.msgFrom

\* pack_plaintext: a from_prior header verifies and introduces the sender.
CanPackPlaintext ==
  LET prior == layers[1].prior
  IN  /\ PriorVerifies(Me, prior)
      /\ prior # None =>
           /\ ValidPrior(prior.iss, prior.sub)
           /\ Did(prior.kid) = prior.iss
           /\ choice.msgFrom \in {None, prior.sub}

CanPackBody ==
  /\ ValidHeaders
  /\ choice.signBy # None => CanSign(Me, choice.signBy)
  /\ CanPackPlaintext

\* pack_signed or pack_plaintext
PackBody ==
  /\ stage = "body"
  /\ CanPackBody
  /\ stage' = "encrypt"
  /\ IF choice.signBy = None
       THEN UNCHANGED <<layers, claim>>
       ELSE LET kid == Head(Signers(Me, choice.signBy))
            IN  /\ layers' = <<SignLayer(kid, Secret(Me, kid))>> \o layers
                /\ claim' = [claim EXCEPT !.signer = kid]
  /\ UNCHANGED <<view, choice, route>>

-----------------------------------------------------------------------------
(* The encryption *)

CanEncrypt ==
  IF choice.from = None
    THEN CanAnoncrypt(Me, choice.to)
    ELSE CanAuthcrypt(Me, choice.from, choice.to)

\* protect_sender: a second JWE for the same keys hides the sender's key id.
Authcrypted ==
  (IF choice.protect
     THEN <<AnonLayer(Doc(Me, Did(choice.to)), AuthKids(Me, choice.from, choice.to))>>
     ELSE <<>>) \o <<Authcrypt(Me, choice.from, choice.to)>>
JwesUnlessSigned ==
  IF choice.from # None THEN Authcrypted
  ELSE IF choice.signBy # None THEN <<>> ELSE <<Anoncrypt(Me, choice.to)>>
Jwes == IF choice.from # None THEN Authcrypted ELSE <<Anoncrypt(Me, choice.to)>>

Encrypt ==
  /\ stage = "encrypt"
  /\ CanEncrypt
  /\ stage' = "route"
  /\ layers' = Jwes \o layers
  /\ claim' = IF choice.from # None
              THEN [claim EXCEPT !.from = FromKid(Me, choice.from, choice.to),
                                 !.kids = AuthKids(Me, choice.from, choice.to)]
              ELSE [claim EXCEPT !.kids = AnonKids(Me, choice.to)]
  /\ UNCHANGED <<view, choice, route>>

-----------------------------------------------------------------------------
(* The route *)

\* find_did_comm_service: the service named, or the first usable one, as a
\* sequence of at most one.
Usable(doc, id) ==
  {i \in DOMAIN doc.services : doc.services[i].v2 /\ id \in {None, doc.services[i].id}}
Service(doc, id) ==
  IF Usable(doc, id) = {} THEN <<>> ELSE <<doc.services[Min(Usable(doc, id))]>>
NotFound(doc, id) == id # None /\ Service(doc, id) = <<>>

(***************************************************************************)
(* resolve_did_comm_services_chain: the services on the way, the one that  *)
(* is reached first in front.  An endpoint that is a DID leads to the      *)
(* service of that DID, whose endpoint must not be a DID again.            *)
(*                                                                         *)
(* Everybody else asks the resolver for the DID in front of a key id; here *)
(* it gets `to` as it is, and whether it takes that is not up to this      *)
(* code: UrlsResolved.                                                     *)
(***************************************************************************)
Chain ==
  LET mine == Service(Doc(Me, Did(choice.to)), choice.service)
  IN  IF mine = <<>> THEN <<>>
      ELSE IF mine[1].uri \in Dids
      THEN <<Service(Doc(Me, mine[1].uri), None)[1], mine[1]>>
      ELSE <<mine[1]>>

CanRoute ==
  LET doc == Doc(Me, Did(choice.to))
      mine == Service(doc, choice.service)
  IN  /\ choice.to \in Dids \cup UrlsResolved
      /\ doc # NoDoc
      /\ ~NotFound(doc, choice.service)
      /\ (mine # <<>> /\ mine[1].uri \in Dids) =>
           /\ Resolves(Me, mine[1].uri)
           /\ Service(Doc(Me, mine[1].uri), None) # <<>>
           /\ Service(Doc(Me, mine[1].uri), None)[1].uri \notin Dids

\* The DIDs that stand for a service, then the routing keys of the recipient.
RoutingKeysOfChain ==
  IF Chain = <<>> THEN <<>>
  ELSE IF Len(Chain) > 1 THEN [i \in 1..(Len(Chain) - 1) |-> Chain[i + 1].uri]
  ELSE Last(Chain).routing
RoutingKeys ==
  IF Chain = <<>> THEN <<>>
  ELSE [i \in 1..(Len(Chain) - 1) |-> Chain[i + 1].uri] \o Last(Chain).routing

\* wrap_in_forward_if_needed
ChooseRoute ==
  /\ stage = "route"
  /\ \/ /\ ~choice.forward
        /\ stage' = "packed"
        /\ UNCHANGED <<claim, route>>
     \/ /\ choice.forward
        /\ CanRoute
        /\ IF RoutingKeys = <<>>
             THEN stage' = "packed" /\ UNCHANGED <<claim, route>>
             ELSE /\ stage' = "wrap"
                  /\ route' = [keys |-> RoutingKeys, next |-> choice.to]
                  /\ claim' = [claim EXCEPT !.endpoint = Chain[1].uri]
  /\ UNCHANGED <<view, choice, layers>>

\* One pass of the loop in wrap_in_forward: from the last routing key back.
WrapLayer ==
  LET key == Last(route.keys)
  IN  /\ stage = "wrap"
      /\ route.keys # <<>>
      /\ CanAnoncrypt(Me, key)
      /\ layers' = <<Anoncrypt(Me, key), ForwardLayer(route.next)>> \o layers
      /\ route' = [keys |-> Front(route.keys), next |-> key]
      /\ stage' = IF Len(route.keys) = 1 THEN "packed" ELSE "wrap"
      /\ UNCHANGED <<view, choice, claim>>

PackError ==
  \/ stage = "prior" /\ ~CanPackPrior /\ Fail
  \/ stage = "body" /\ ~CanPackBody /\ Fail
  \/ stage = "encrypt" /\ ~CanEncrypt /\ Fail
  \/ stage = "route" /\ choice.forward /\ ~CanRoute /\ Fail
  \/ stage = "wrap" /\ ~CanAnoncrypt(Me, Last(route.keys)) /\ Fail

Pack == PackPrior \/ PackBody \/ Encrypt \/ ChooseRoute \/ WrapLayer \/ PackError
=============================================================================
